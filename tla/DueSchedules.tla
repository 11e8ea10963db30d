----------------------------- MODULE DueSchedules -----------------------------
(***************************************************************************)
(* One e-mail schedule, of work log reports or of the inventory, with the  *)
(* jobs that look for what is due (the loops of the uvicorn workers and,   *)
(* for the inventory, Celery) and the requests of administrators.  A job   *)
(* locks the row with FOR UPDATE SKIP LOCKED, sets next_run_at, sends and  *)
(* commits; a request reads the row, perhaps sends, and commits what       *)
(* differs from what it has read.                                          *)
(***************************************************************************)
EXTENDS Integers, FiniteSetsExt

CONSTANTS
  Jobs,       \* runs of run_due_... that may be under way at a time
  Editing,    \* requests that may be under way at a time
  Plans,      \* frequency, day and hour: the times at which the schedule is to run
  LastHour    \* bound of the clock

ASSUME DueSchedulesAssumption ==
  /\ LastHour \in Nat /\ "none" \notin Jobs
  /\ Plans # {} /\ \A plan \in Plans : plan \subseteq 1..LastHour

VARIABLES
  kind,       \* "report" or "inventory"
  hour,       \* the clock
  row,        \* the schedule
  holder,     \* the job that has locked the row, or "none"
  jobs,       \* [stage, due, next]
  editing,    \* [stage, op, loaded, plan, next]
  served,     \* runs that jobs have sent
  repeated,   \* sent runs that may be sent again: the job died, or a request wrote the time back
  drifted     \* next_run_at was not computed from the plan that is stored

dueVars == <<kind, hour, row, holder, jobs, editing, served, repeated, drifted>>

Never == LastHour + 1
Times == 1..Never

\* compute_next_run
NextRun(plan, now) ==
  LET later == {t \in plan : t > now} IN IF later = {} THEN Never ELSE Min(later)

Row == [plan : Plans, next : Times, active : BOOLEAN, there : BOOLEAN]
NoJob == [stage |-> "idle", due |-> Never, next |-> Never]
NoEditing(plan) ==
  [ stage |-> "idle", op |-> "update", plan |-> plan, next |-> Never,
    loaded |-> [plan |-> plan, next |-> Never] ]
AnyPlan == CHOOSE plan \in Plans : TRUE

JobRecords == [stage : {"idle", "claimed", "sent"}, due : Times, next : Times]
EditingRecords ==
  [ stage : {"idle", "read", "ready"}, op : {"update", "sendNow"}, plan : Plans, next : Times,
    loaded : [plan : Plans, next : Times] ]

DueInit ==
  /\ kind \in {"report", "inventory"}
  /\ hour = 0
  /\ \E plan \in Plans : row = [plan |-> plan, next |-> NextRun(plan, 0), active |-> TRUE, there |-> TRUE]
  /\ holder = "none"
  /\ jobs = [j \in Jobs |-> NoJob]
  /\ editing = [q \in Editing |-> NoEditing(AnyPlan)]
  /\ served = {} /\ repeated = {} /\ drifted = FALSE

HourPasses ==
  /\ hour < LastHour
  /\ hour' = hour + 1
  /\ UNCHANGED <<kind, row, holder, jobs, editing, served, repeated, drifted>>

-----------------------------------------------------------------------------
Due == row.there /\ row.active /\ row.next <= hour

\* Mutant of Claimable: SELECT without FOR UPDATE.
ClaimableByAll(j) == jobs[j].stage = "idle" /\ Due

Claimable(j) == jobs[j].stage = "idle" /\ Due /\ holder = "none"

\* run_due_report_schedules, run_due_inventory_schedules: the schedule is advanced before
\* the mails are sent, in the same transaction.
Claim(j) ==
  /\ Claimable(j)
  /\ holder' = j
  /\ jobs' = [jobs EXCEPT ![j] =
                [stage |-> "claimed", due |-> row.next, next |-> NextRun(row.plan, hour)]]
  /\ UNCHANGED <<kind, hour, row, editing, served, repeated, drifted>>

\* A failed delivery is passed over.
Deliver(j) ==
  /\ jobs[j].stage = "claimed"
  /\ served' \in {served, served \cup {jobs[j].due}}
  /\ jobs' = [jobs EXCEPT ![j].stage = "sent"]
  /\ UNCHANGED <<kind, hour, row, holder, editing, repeated, drifted>>

CommitRun(j) ==
  /\ jobs[j].stage = "sent"
  /\ row' = [row EXCEPT !.next = jobs[j].next]
  /\ holder' = "none" /\ drifted' = FALSE
  /\ jobs' = [jobs EXCEPT ![j] = NoJob]
  /\ UNCHANGED <<kind, hour, editing, served, repeated>>

Die(j) ==
  /\ jobs[j].stage # "idle"
  /\ repeated' = repeated \cup ({jobs[j].due} \cap served)
  /\ holder' = "none"
  /\ jobs' = [jobs EXCEPT ![j] = NoJob]
  /\ UNCHANGED <<kind, hour, row, editing, served, drifted>>

-----------------------------------------------------------------------------
\* update_..._schedule, send_now and run_report_schedule read the row.  The latter two
\* send before they go on.
ReadRow(q) ==
  /\ editing[q].stage = "idle" /\ row.there
  /\ \E op \in {"update", "sendNow"}, plan \in Plans :
       /\ op = "sendNow" => plan = row.plan
       /\ editing' = [editing EXCEPT ![q] =
                        [ stage |-> "read", op |-> op, plan |-> plan, next |-> row.next,
                          loaded |-> [plan |-> row.plan, next |-> row.next] ]]
  /\ UNCHANGED <<kind, hour, row, holder, jobs, served, repeated, drifted>>

\* Mutant of Replans: an update never looks at the time of the next run.
ReplansAfterSending(q) == editing[q].op = "sendNow"

\* The update of a report schedule leaves next_run_at alone.
KeepsNext(q) == editing[q].op = "update" /\ kind = "report"
Replans(q) == editing[q].op = "sendNow" \/ kind = "inventory"

Replan(q) ==
  /\ editing[q].stage = "read"
  /\ editing' = [editing EXCEPT ![q].stage = "ready",
                                ![q].next = IF Replans(q) THEN NextRun(editing[q].plan, hour) ELSE @]
  /\ UNCHANGED <<kind, hour, row, holder, jobs, served, repeated, drifted>>

\* The UPDATE waits for a job that has locked the row, and has only the columns that
\* differ from what was read.
WriteRow(q) ==
  LET e == editing[q] IN
  /\ e.stage = "ready" /\ holder = "none" /\ row.there
  /\ \E active \in BOOLEAN :
       /\ e.op = "sendNow" => active = row.active
       /\ row' = [row EXCEPT
            !.plan = IF e.plan # e.loaded.plan THEN e.plan ELSE @,
            !.next = IF e.next # e.loaded.next THEN e.next ELSE @,
            !.active = active]
  /\ repeated' = IF row'.next # row.next THEN repeated \cup ({row'.next} \cap served) ELSE repeated
  /\ drifted' = \/ e.loaded.plan # row.plan
                \/ e.loaded.next # row.next /\ e.plan # row.plan
                \/ (KeepsNext(q) \/ row'.next # e.next) /\ (drifted \/ e.plan # row.plan)
  /\ editing' = [editing EXCEPT ![q] = NoEditing(AnyPlan)]
  /\ UNCHANGED <<kind, hour, holder, jobs, served>>

\* delete_..._schedule
DeleteRow ==
  /\ row.there /\ holder = "none"
  /\ row' = [row EXCEPT !.there = FALSE]
  /\ UNCHANGED <<kind, hour, holder, jobs, editing, served, repeated, drifted>>

\* The request fails, or finds its row gone.
GiveUpEditing(q) ==
  /\ editing[q].stage # "idle"
  /\ editing' = [editing EXCEPT ![q] = NoEditing(AnyPlan)]
  /\ UNCHANGED <<kind, hour, row, holder, jobs, served, repeated, drifted>>

DueNext ==
  \/ HourPasses \/ DeleteRow
  \/ \E j \in Jobs : Claim(j) \/ Deliver(j) \/ CommitRun(j) \/ Die(j)
  \/ \E q \in Editing : ReadRow(q) \/ Replan(q) \/ WriteRow(q) \/ GiveUpEditing(q)

DueSpec == DueInit /\ [][DueNext]_dueVars

-----------------------------------------------------------------------------
DueSchedulesTypeOK ==
  /\ kind \in {"report", "inventory"} /\ hour \in 0..LastHour
  /\ row \in Row /\ holder \in Jobs \cup {"none"}
  /\ jobs \in [Jobs -> JobRecords] /\ editing \in [Editing -> EditingRecords]
  /\ served \subseteq 1..hour /\ repeated \subseteq served
  /\ drifted \in BOOLEAN

\* No run is sent by two jobs ("two concurrent runners never send the same report twice",
\* report_schedule_service.py:197): what is sent again is a run whose job died, or one
\* whose time a request has written into the row after it was over.
SentByOneJob ==
  [][\A j \in Jobs :
       jobs[j].stage = "claimed" /\ jobs'[j].stage = "sent" /\ jobs[j].due \in served
       => jobs[j].due \in repeated]_dueVars

\* The next run is one of the plan that is stored.  The exceptions: a report schedule
\* whose plan was edited runs once more at its old time; a request that works with the
\* plan it read before another one committed a new plan - sending takes its time - writes
\* a time of the old one; and an edit while a job is at work leaves the time of the job.
NextRunFollowsPlan == ~drifted => row.next \in row.plan \cup {Never}

\* Under whatever jobs and requests, the schedule keeps the promise of PromisedRuns: locking
\* the row, advancing it, sending and committing are one step, that of the delivery.
AtWork == holder # "none" /\ jobs[holder].stage = "sent"

Promise == INSTANCE PromisedRuns WITH
  state <- IF ~row.there THEN "gone" ELSE IF row.active THEN "on" ELSE "off",
  plan  <- row.plan,
  next  <- IF AtWork THEN jobs[holder].next ELSE row.next,
  open  <- IF AtWork THEN jobs[holder].due ELSE 0,
  sent  <- served,
  again <- repeated
RunsAreSteps == Promise!Spec
=============================================================================
