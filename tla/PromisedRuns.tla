----------------------------- MODULE PromisedRuns -----------------------------
(***************************************************************************)
(* What an e-mail schedule promises, whatever jobs and requests are at     *)
(* work on it at the same time: a run is a single step.  It takes place    *)
(* when it is due and the schedule is on, is not sent a second time, and   *)
(* turns to a later time of the plan, passing over none that still lies    *)
(* ahead.  Until the run is recorded a crash may undo it; once it is, only *)
(* somebody who edits the schedule can bring its time back.                *)
(***************************************************************************)
EXTENDS Integers

CONSTANT Never   \* the time of a run that does not come

VARIABLES
  hour,     \* the clock
  state,    \* "on", "off" or "gone"
  plan,     \* the times at which the schedule is to run
  next,     \* the next run
  open,     \* the run that is not recorded yet, or 0
  sent,     \* runs that were sent
  again     \* those of them that may be sent again

promisedVars == <<hour, state, plan, next, open, sent, again>>

Init ==
  /\ hour = 0 /\ state = "on" /\ open = 0 /\ sent = {} /\ again = {}
  /\ next \in plan \cup {Never}

HourPasses == hour' = hour + 1 /\ UNCHANGED <<state, plan, next, open, sent, again>>

\* The mails of a run may fail, which does not hold up the schedule.
Run ==
  /\ state = "on" /\ open = 0
  /\ next <= hour
  /\ next \in sent => next \in again
  /\ sent' \in {sent, sent \cup {next}}
  /\ next' \in plan \cup {Never} /\ next' > next
  /\ \A t \in plan : next < t /\ t < next' => t <= hour
  /\ open' = next
  /\ UNCHANGED <<hour, state, plan, again>>

Settle ==
  /\ open # 0 /\ open' = 0
  /\ UNCHANGED <<hour, state, plan, next, sent, again>>

\* The time comes back, and if the run was sent, it may be sent again.
BackTo(t) == next' = t /\ again' = again \cup ({t} \cap sent)

Undo ==
  /\ open # 0 /\ open' = 0
  /\ BackTo(open)
  /\ UNCHANGED <<hour, state, plan, sent>>

\* An administrator changes the schedule, and with it, perhaps, the time of the next run.
Edit ==
  /\ state # "gone" /\ open = 0
  /\ state' \in {"on", "off"}
  /\ IF next' = next THEN UNCHANGED again ELSE BackTo(next')
  /\ UNCHANGED <<hour, open, sent>>

Delete ==
  /\ state # "gone" /\ open = 0
  /\ state' = "gone"
  /\ UNCHANGED <<hour, plan, next, open, sent, again>>

Next == HourPasses \/ Run \/ Settle \/ Undo \/ Edit \/ Delete

Spec == Init /\ [][Next]_promisedVars
=============================================================================
