-------------------------- MODULE MCBackupScheduler --------------------------
(***************************************************************************)
(* BackupScheduler for TLC: one uvicorn worker and one Celery worker (the  *)
(* two kinds of runner), one request, two days of two ticks, so that a     *)
(* backup can be started before and end after the next run time, and       *)
(* enough identifiers to prune, upload and restore.                        *)
(***************************************************************************)
EXTENDS BackupScheduler, TLC

CONSTANTS loop, worker, client, x1, x2, x3

\* A daily and a weekly schedule, each keeping the last two backups.
MCSchedules ==
  {[enabled |-> TRUE, days |-> days, run |-> 1, retention |-> 2] :
     days \in {Weekday, {1}}}

MCSymmetry == Permutations({x1, x2, x3})

\* Identifiers are interchangeable, but symmetry is not for liveness: of two that are
\* unused the first is taken.
InOrder ==
  \A p \in {<<x1, x2>>, <<x1, x3>>, <<x2, x3>>} :
    Unused(p[1]) /\ Unused(p[2]) => Unused(p[2])' \/ ~Unused(p[1])'

OrderedSpec == Init /\ [][Next /\ InOrder]_vars /\ Fairness
=============================================================================
