--------------------------- MODULE BackupScheduler ---------------------------
(***************************************************************************)
(* Database backups: services/backup_service.py, driven by the in-process  *)
(* loop of main.py in every uvicorn worker, by the Celery task             *)
(* run_backup_check, and by the requests of an administrator.              *)
(*                                                                         *)
(* A backup is two steps of its transaction.  When pg_dump has ended, the  *)
(* file is written, the row flushed and the old files removed from disk;   *)
(* the row becomes visible, and the old rows disappear, with the commit.   *)
(* Files do not take part in the transaction: what a failed attempt did to *)
(* them stays.                                                             *)
(*                                                                         *)
(* Time is counted in ticks, DayLength ticks to the day of Istanbul.  Rows *)
(* made in the same tick have no known order.                              *)
(***************************************************************************)
EXTENDS Integers, FiniteSets

CONSTANTS
  Loops,              \* uvicorn workers, each running _backup_scheduler_loop
  Workers,            \* Celery workers running run_backup_check
  Clients,            \* requests to /backup/create and /backup/force-check
  Ids,                \* identifiers of backups
  InitialSchedules,   \* what app_settings may hold when the system starts
  DayLength, WeekLength,
  MaxTime,            \* bound: the clock stops here
  SpareIds,           \* bound: the last SpareIds identifiers are left to backups that are due
  None

Runners == Loops \cup Workers
Actors == Runners \cup Clients

Time == 0 .. MaxTime
Weekday == 0 .. WeekLength - 1

\* SCHEDULE_KEYS; days is every weekday for a daily frequency, one for a weekly one.
Schedule == [enabled : BOOLEAN, days : SUBSET Weekday, run : 0 .. DayLength - 1,
             retention : Nat]

ASSUME BackupConstants ==
  /\ Loops \cap Workers = {} /\ Runners \cap Clients = {}
  /\ IsFiniteSet(Ids)
  /\ DayLength \in Nat \ {0} /\ WeekLength \in Nat \ {0}
  /\ MaxTime \in Nat /\ SpareIds \in Nat
  /\ InitialSchedules \subseteq Schedule
  /\ None \notin Int

VARIABLES
  now,        \* the clock
  schedule,   \* the backup settings in app_settings
  rows,       \* the committed rows of backup_records, None for an id without a row
  files,      \* what the .sql file of each id holds, None for an id without a file
  job         \* the transaction an actor is in

vars == <<now, schedule, rows, files, job>>

Row == [kind : {"scheduled", "manual", "uploaded"}, completed : BOOLEAN, created : Time]

Table == [Ids -> Row \cup {None}]

\* A dump holds the tables of the database, backup_records and app_settings included.
Content == [rows : Table, schedule : Schedule]

Idle == [stage |-> "idle"]
Failed == [stage |-> "failed"]

\* due is today_run of the check that started the backup, None for a manual one.
Dumping == [stage : {"dump"}, due : Int \cup {None}, content : Content]
Flushed == [stage : {"flushed"}, due : Int \cup {None},
            id : Ids, row : Row, dropped : SUBSET Ids]
Job == {Idle, Failed} \cup Dumping \cup Flushed

InTransaction(a) == job[a].stage \in {"dump", "flushed"}
IsScheduled(a) == InTransaction(a) /\ job[a].due # None

Rows(table) == {x \in Ids : table[x] # None}
OnDisk(x) == files[x] # None

TypeOK ==
  /\ now \in Time
  /\ schedule \in Schedule
  /\ rows \in Table
  /\ files \in [Ids -> Content \cup {None}]
  /\ job \in [Actors -> Job]

Init ==
  /\ now = 0
  /\ schedule \in InitialSchedules
  /\ rows = [x \in Ids |-> None]
  /\ files = [x \in Ids |-> None]
  /\ job = [a \in Actors |-> Idle]

\* A fresh identifier: nothing that may still be read mentions it.
Unused(x) ==
  /\ x \notin Rows(rows) /\ ~OnDisk(x)
  /\ \A y \in Ids : OnDisk(y) => x \notin Rows(files[y].rows)
  /\ \A a \in Actors :
       /\ job[a].stage = "dump" => x \notin Rows(job[a].content.rows)
       /\ job[a].stage = "flushed" => x \notin {job[a].id} \cup job[a].dropped

EnoughIds == Cardinality({x \in Ids : Unused(x)}) > SpareIds

Tick ==
  /\ now < MaxTime
  /\ now' = now + 1
  /\ UNCHANGED <<schedule, rows, files, job>>

(***************************************************************************)
(* The scheduled check                                                     *)
(***************************************************************************)
Today == now \div DayLength
TodayRun == Today * DayLength + schedule.run

\* The rows that the deduplication query of run_scheduled_backup_check looks for.
Done(row, due) == row.kind = "scheduled" /\ row.completed /\ row.created >= due

Due ==
  /\ schedule.enabled
  /\ now >= TodayRun
  /\ Today % WeekLength \in schedule.days
  /\ ~ \E x \in Rows(rows) : Done(rows[x], TodayRun)

\* Mutant of LockFree: the Celery task checks without the lock.
LockFreeForLoops == \A a \in Loops : ~InTransaction(a)

\* pg_try_advisory_xact_lock(BACKUP_LOCK_KEY) succeeds; a runner holds it until its
\* transaction ends.
LockFree == \A a \in Runners : ~InTransaction(a)

\* Mutant of Dump: app_settings is left out.
DumpWithoutSettings == [rows |-> rows]

Dump == [rows |-> rows, schedule |-> schedule]

\* Mutant of StartScheduled: a failed attempt counts as today's backup.
StartUnlessAttempted(a) ==
  /\ job[a] = Idle
  /\ LockFree
  /\ Due
  /\ ~ \E x \in Rows(rows) : rows[x].kind = "scheduled" /\ rows[x].created >= TodayRun
  /\ job' = [job EXCEPT ![a] = [stage |-> "dump", due |-> TodayRun, content |-> Dump]]
  /\ UNCHANGED <<now, schedule, rows, files>>

\* run_scheduled_backup_check finds that a backup is due and starts pg_dump.
StartScheduled(a) ==
  /\ job[a] = Idle
  /\ LockFree
  /\ Due
  /\ job' = [job EXCEPT ![a] = [stage |-> "dump", due |-> TodayRun, content |-> Dump]]
  /\ UNCHANGED <<now, schedule, rows, files>>

\* POST /backup/create; POST /backup/force-check is the same if backups are enabled.
StartManual(a) ==
  /\ job[a] = Idle
  /\ job' = [job EXCEPT ![a] = [stage |-> "dump", due |-> None, content |-> Dump]]
  /\ UNCHANGED <<now, schedule, rows, files>>

(***************************************************************************)
(* create_backup                                                           *)
(***************************************************************************)
\* Mutant of Newest: the oldest rows instead.
Oldest(new, n, kept) ==
  LET others == kept \ {new} IN
  /\ kept \subseteq Rows(rows) \cup {new}
  /\ n > 0 => new \in kept
  /\ Cardinality(kept) <= n
  /\ Cardinality(kept) < n => Rows(rows) \subseteq kept
  /\ \A x \in others, y \in Rows(rows) \ kept : rows[x].created <= rows[y].created

\* kept: the first n rows in descending order of created_at, of the committed ones and
\* the new one, which has been stamped last.
Newest(new, n, kept) ==
  LET others == kept \ {new} IN
  /\ kept \subseteq Rows(rows) \cup {new}
  /\ n > 0 => new \in kept
  /\ Cardinality(kept) <= n
  /\ Cardinality(kept) < n => Rows(rows) \subseteq kept
  /\ \A x \in others, y \in Rows(rows) \ kept : rows[x].created >= rows[y].created

\* pg_dump has succeeded: the file is written, the row is flushed, and
\* _prune_old_backups removes the files of all rows beyond the retention count that
\* this transaction sees, whatever their kind and status.
Flush(a, x) ==
  /\ job[a].stage = "dump"
  /\ Unused(x)
  /\ \E kept \in SUBSET (Rows(rows) \cup {x}) :
       LET dropped == (Rows(rows) \cup {x}) \ kept IN
       /\ Newest(x, schedule.retention, kept)
       /\ files' = [y \in Ids |-> IF y \in dropped THEN None
                                 ELSE IF y = x THEN job[a].content ELSE files[y]]
       /\ job' = [job EXCEPT ![a] =
            [stage |-> "flushed", due |-> job[a].due, id |-> x, dropped |-> dropped,
             row |-> [kind |-> IF IsScheduled(a) THEN "scheduled" ELSE "manual",
                      completed |-> TRUE, created |-> now]]]
  /\ UNCHANGED <<now, schedule, rows>>

Commit(a) ==
  /\ job[a].stage = "flushed"
  /\ rows' = [x \in Ids |-> IF x \in job[a].dropped THEN None
                            ELSE IF x = job[a].id THEN job[a].row ELSE rows[x]]
  /\ job' = [job EXCEPT ![a] = Idle]
  /\ UNCHANGED <<now, schedule, files>>

\* pg_dump or the database fails, or the process dies, and the transaction is rolled
\* back.  The Celery task survives an exception and goes on to report it.
Fail(a) ==
  /\ InTransaction(a)
  /\ \/ job' = [job EXCEPT ![a] = Idle]
     \/ a \in Workers /\ job' = [job EXCEPT ![a] = Failed]
  /\ UNCHANGED <<now, schedule, rows, files>>

\* _save_failed_backup_record, in a transaction of its own and without the lock.
SaveFailed(a, x) ==
  /\ job[a] = Failed
  /\ Unused(x)
  /\ rows' = [rows EXCEPT ![x] =
       [kind |-> "scheduled", completed |-> FALSE, created |-> now]]
  /\ job' = [job EXCEPT ![a] = Idle]
  /\ UNCHANGED <<now, schedule, files>>

\* The report itself fails, and is only logged.
GiveUp(a) ==
  /\ job[a] = Failed
  /\ job' = [job EXCEPT ![a] = Idle]
  /\ UNCHANGED <<now, schedule, rows, files>>

(***************************************************************************)
(* Requests of the administrator                                           *)
(***************************************************************************)
\* delete_backup removes the file first; the row stays if the commit then fails.
DeleteBackup(x, committed) ==
  /\ x \in Rows(rows)
  /\ files' = [files EXCEPT ![x] = None]
  /\ rows' = IF committed THEN [rows EXCEPT ![x] = None] ELSE rows
  /\ UNCHANGED <<now, schedule, job>>

\* The file of a dump downloaded earlier is stored as a backup of its own.  It stays
\* on disk if the commit then fails, and nothing is pruned.
UploadBackup(x, y, committed) ==
  /\ OnDisk(y)
  /\ Unused(x)
  /\ files' = [files EXCEPT ![x] = files[y]]
  /\ rows' = IF ~committed THEN rows ELSE [rows EXCEPT ![x] =
       [kind |-> "uploaded", completed |-> TRUE, created |-> now]]
  /\ UNCHANGED <<now, schedule, job>>

\* psql replaces every table by the ones of the dump, in one transaction that has to
\* wait for the locks of all others.
RestoreBackup(x) ==
  /\ x \in Rows(rows) /\ OnDisk(x)
  /\ \A a \in Actors : ~InTransaction(a)
  /\ rows' = files[x].rows
  /\ schedule' = files[x].schedule
  /\ UNCHANGED <<now, files, job>>

\* PUT /backup/schedule: of the fields it accepts, only the hour and the minute are
\* settings that save_schedule knows.
SaveSchedule(time) ==
  /\ schedule' = [schedule EXCEPT !.run = time]
  /\ UNCHANGED <<now, rows, files, job>>

-----------------------------------------------------------------------------
Next ==
  \/ Tick
  \/ \E a \in Runners : StartScheduled(a)
  \/ \E a \in Runners, x \in Ids : Flush(a, x)
  \/ \E a \in Actors : Commit(a) \/ GiveUp(a)
  \/ /\ EnoughIds
     /\ \/ \E a \in Clients : StartManual(a) \/ \E x \in Ids : Flush(a, x)
        \/ \E a \in Actors : Fail(a) \/ \E x \in Ids : SaveFailed(a, x)
        \/ \E x \in Ids, committed \in BOOLEAN :
             DeleteBackup(x, committed) \/ \E y \in Ids : UploadBackup(x, y, committed)
        \/ \E x \in Ids : RestoreBackup(x)
        \/ \E time \in 0 .. DayLength - 1 : SaveSchedule(time)

Spec == Init /\ [][Next]_vars

\* Every runner polls once a minute, a pg_dump that is tried again and again succeeds
\* at last, and so does the commit that follows.
Fairness ==
  \A a \in Runners :
    /\ WF_vars(StartScheduled(a)) /\ WF_vars(GiveUp(a))
    /\ SF_vars(\E x \in Ids : Flush(a, x)) /\ SF_vars(Commit(a))

FairSpec == Spec /\ Fairness

-----------------------------------------------------------------------------
(***************************************************************************)
(* Properties                                                              *)
(***************************************************************************)
\* However many runners poll, and whatever is pruned, deleted, restored or
\* rescheduled meanwhile: while a scheduled backup is in the making there is no
\* completed one yet for the run time it was started for, so none is made twice.
NotMadeTwice ==
  \A a \in Runners : IsScheduled(a) =>
    ~ \E x \in Rows(rows) : Done(rows[x], job[a].due)

\* A scheduled backup that is due does not stay due: in spite of failed attempts and
\* of runners that died half way, one is made in the end (unless the model is out of
\* identifiers to give to it).
DueIsMade == Due ~> ~Due \/ \A x \in Ids : ~Unused(x)

\* Other rows at least as new as row x.
AtLeastAsNew(x) == {y \in Rows(rows) \ {x} : rows[y].created >= rows[x].created}

Deletes(x) == \E committed \in BOOLEAN : DeleteBackup(x, committed)

\* Of a backup on record, the file disappears only with its deletion, or when as many
\* others as are to be kept (the one being made included) are at least as new; also when
\* several backups prune at the same time, each blind to the others' rows.
PruningSparesNewest ==
  [][\A x \in Rows(rows) : OnDisk(x) /\ ~OnDisk(x)' =>
       Deletes(x) \/ Cardinality(AtLeastAsNew(x)) + 1 >= schedule.retention]_vars

\* "Keep Last N Backups" (the label of backup_retention_count in the web client): of the
\* N newest backups, the one being made included, none loses its file to pruning.
KeepsLastBackups ==
  [][\A x \in Rows(rows) : OnDisk(x) /\ ~OnDisk(x)' =>
       Deletes(x) \/ Cardinality({y \in AtLeastAsNew(x) : rows[y].completed}) + 1
                      >= schedule.retention]_vars
=============================================================================
