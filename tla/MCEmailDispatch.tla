--------------------------- MODULE MCEmailDispatch ---------------------------
(***************************************************************************)
(* EmailDispatch for TLC: a notice and a report at any hour, two reminders *)
(* in the two last local hours of days of three, local time one hour ahead *)
(* of UTC, so that a job can be repeated on the same day, run past         *)
(* midnight and be taken up on the next day.                               *)
(***************************************************************************)
EXTENDS EmailDispatch, TLC

CONSTANTS loop1, loop2, worker, notice, report, reminder1, reminder2, x1, x2, x3

MCHours ==
  [m \in {notice, report, reminder1, reminder2} |-> IF m \in {notice, report} THEN {0, 1, 2} ELSE {1, 2}]

MCSymmetry ==
  {p @@ q @@ s : p \in Permutations({x1, x2, x3}), q \in Permutations({loop1, loop2}),
                 s \in Permutations({reminder1, reminder2})}
=============================================================================
