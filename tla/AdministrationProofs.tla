------------------------- MODULE AdministrationProofs -------------------------
(***************************************************************************)
(* Theorems of DueSchedules and Certificates, for any number of jobs,      *)
(* requests, certificates and installs, any plans and any clock, and of    *)
(* the parts together as MCAdministration composes them.                   *)
(***************************************************************************)
EXTENDS MCAdministration, MembershipProofs, FiniteSetTheorems

USE DueSchedulesAssumption

(***************************************************************************)
(* DueSchedules: the time of the next run                                  *)
(***************************************************************************)
LEMMA LeastTime ==
  ASSUME NEW n \in Nat, NEW T, T \subseteq 0..n, T # {}
  PROVE  Min(T) \in T /\ \A t \in T : Min(T) <= t
<1> DEFINE Below == {0..t : t \in T}
<1>1. IsWellFoundedOn(StrictSubsetOrdering(0..n), FiniteSubsetsOf(0..n))
  BY FS_Interval, FS_StrictSubsetOrderingWellFounded
<1>2. \A t \in T : 0..t \in FiniteSubsetsOf(0..n)
  BY FS_Interval, FS_Subset DEF FiniteSubsetsOf
<1>3. PICK x \in Below : \A y \in Below : <<y, x>> \notin StrictSubsetOrdering(0..n)
  <2>1. Below \subseteq FiniteSubsetsOf(0..n) /\ Below # {}
    BY <1>2
  <2>2. QED
    BY <1>1, <2>1, WFMin
<1>4. PICK t \in T : x = 0..t
  BY <1>3
<1>5. ASSUME NEW u \in T, ~(t <= u) PROVE FALSE
  <2>1. u < t /\ u \in Nat /\ t \in Nat
    BY <1>5
  <2>2. 0..u \subseteq 0..t /\ 0..u # 0..t /\ 0..u \in SUBSET (0..n) /\ 0..t \in SUBSET (0..n)
    BY <2>1
  <2>3. <<0..u, 0..t>> \in StrictSubsetOrdering(0..n)
    BY <2>2 DEF StrictSubsetOrdering
  <2>4. QED
    BY <1>3, <1>4, <2>3
<1>6. QED
  BY <1>5 DEF Min

LEMMA NextRunIsLater ==
  ASSUME NEW plan \in Plans, NEW now \in 0..LastHour
  PROVE  /\ NextRun(plan, now) \in Times
         /\ NextRun(plan, now) > now
         /\ NextRun(plan, now) \in plan \cup {Never}
         /\ \A t \in plan : now < t => NextRun(plan, now) <= t
<1> DEFINE later == {t \in plan : t > now}
<1>1. later \subseteq 0..LastHour /\ LastHour \in Nat /\ plan \subseteq 1..LastHour
  OBVIOUS
<1>2. NextRun(plan, now) = IF later = {} THEN Never ELSE Min(later)
  BY DEF NextRun
<1>3. later # {} => Min(later) \in later /\ \A t \in later : Min(later) <= t
  <2> HIDE DEF later
  <2>1. QED
    BY <1>1, LeastTime
<1>4. QED
  BY <1>1, <1>2, <1>3 DEF Times, Never

(***************************************************************************)
(* DueSchedules: the inductive invariant                                   *)
(***************************************************************************)
\* FOR UPDATE SKIP LOCKED: a job at work has the row to itself.
OneHolder == \A j \in Jobs : jobs[j].stage # "idle" => holder = j

\* What a job has read of the row is still there, and the time it is going to write is
\* one of the plan, later than all that has been sent.
JobKnowsRow ==
  \A j \in Jobs : jobs[j].stage # "idle" =>
    /\ jobs[j].due = row.next /\ jobs[j].due \in 1..hour
    /\ jobs[j].next \in row.plan \cup {Never}
    /\ \A t \in served \cup {jobs[j].due} : t < jobs[j].next

\* Unless a job has just sent it, the next run has not been sent, or may be sent again.
NextIsUnsent ==
  (\A j \in Jobs : jobs[j].stage # "sent") /\ row.next \in served => row.next \in repeated

\* A request that does not compute the time anew keeps the one it has read.
EditKnowsPlan ==
  \A q \in Editing :
    /\ editing[q].stage = "read" => editing[q].next = editing[q].loaded.next
    /\ editing[q].stage = "ready" =>
         IF Replans(q) THEN editing[q].next \in editing[q].plan \cup {Never}
                       ELSE editing[q].next = editing[q].loaded.next

DueInv ==
  /\ DueSchedulesTypeOK /\ OneHolder /\ JobKnowsRow /\ NextIsUnsent
  /\ EditKnowsPlan /\ NextRunFollowsPlan

LEMMA DueInitInv == DueInit => DueInv
<1> SUFFICES ASSUME DueInit PROVE DueInv
  OBVIOUS
<1>1. PICK plan \in Plans :
        row = [plan |-> plan, next |-> NextRun(plan, 0), active |-> TRUE, there |-> TRUE]
  BY DEF DueInit
<1>2. NextRun(plan, 0) \in Times /\ NextRun(plan, 0) \in plan \cup {Never}
  BY NextRunIsLater
<1>3. row \in Row /\ NextRunFollowsPlan
  BY <1>1, <1>2 DEF Row, NextRunFollowsPlan
<1>4. AnyPlan \in Plans /\ Never \in Times
  BY DEF AnyPlan, Never, Times
<1>5. jobs \in [Jobs -> JobRecords]
  BY <1>4 DEF DueInit, NoJob, JobRecords
<1>6. editing \in [Editing -> EditingRecords]
  BY <1>4 DEF DueInit, NoEditing, EditingRecords
<1>7. DueSchedulesTypeOK
  <2>1. hour \in 0..LastHour /\ holder \in Jobs \cup {"none"}
    BY DEF DueInit
  <2>2. kind \in {"report", "inventory"} /\ served \subseteq 1..hour /\ repeated \subseteq served
    BY DEF DueInit
  <2>3. QED
    BY <1>3, <1>5, <1>6, <2>1, <2>2 DEF DueInit, DueSchedulesTypeOK
<1>8. OneHolder /\ JobKnowsRow /\ NextIsUnsent /\ EditKnowsPlan
  BY DEF DueInit, NoJob, NoEditing, OneHolder, JobKnowsRow, NextIsUnsent, EditKnowsPlan
<1>9. QED
  BY <1>3, <1>7, <1>8 DEF DueInv

\* Two jobs never work at the same time.
LEMMA JobsExclude ==
  ASSUME DueInv, NEW j \in Jobs, jobs[j].stage # "idle"
  PROVE  holder # "none" /\ \A k \in Jobs \ {j} : jobs[k].stage = "idle"
  BY DEF DueInv, OneHolder

LEMMA HourKeepsDueInv ==
  ASSUME DueInv, HourPasses
  PROVE  DueInv'
<1>1. DueSchedulesTypeOK'
  BY DEF DueInv, DueSchedulesTypeOK, HourPasses
<1>2. JobKnowsRow'
  BY DEF DueInv, DueSchedulesTypeOK, JobKnowsRow, HourPasses
<1>3. QED
  BY <1>1, <1>2 DEF DueInv, HourPasses, OneHolder, NextIsUnsent, EditKnowsPlan, Replans,
                    NextRunFollowsPlan

LEMMA ClaimKeepsDueInv ==
  ASSUME DueInv, NEW j \in Jobs, Claim(j)
  PROVE  DueInv'
<1> USE DEF DueInv
<1>1. /\ row.next \in Times /\ row.next <= hour /\ row.plan \in Plans
      /\ hour \in 0..LastHour /\ holder = "none" /\ \A k \in Jobs : jobs[k].stage = "idle"
  BY DEF Claim, Claimable, Due, DueSchedulesTypeOK, Row, OneHolder
<1>2. /\ NextRun(row.plan, hour) \in Times /\ NextRun(row.plan, hour) > hour
      /\ NextRun(row.plan, hour) \in row.plan \cup {Never}
  BY <1>1, NextRunIsLater
<1> DEFINE new == [stage |-> "claimed", due |-> row.next, next |-> NextRun(row.plan, hour)]
<1>3. new \in JobRecords /\ jobs' = [jobs EXCEPT ![j] = new]
  BY <1>1, <1>2 DEF JobRecords, Claim
<1>4. DueSchedulesTypeOK'
  BY <1>3 DEF DueSchedulesTypeOK, Claim
<1>5. jobs'[j] = new /\ \A k \in Jobs \ {j} : jobs'[k].stage = "idle"
  BY <1>1, <1>3 DEF DueSchedulesTypeOK
<1> HIDE DEF new
<1>6. OneHolder'
  BY <1>5 DEF OneHolder, Claim
<1>7. JobKnowsRow'
  <2>1. /\ new.due = row.next /\ new.due \in 1..hour
        /\ new.next \in row.plan \cup {Never} /\ new.next \in Times /\ new.next > hour
    BY <1>1, <1>2 DEF new, Times
  <2>2. \A t \in served \cup {new.due} : t < new.next
    <3>1. served \subseteq 1..hour /\ hour \in Nat /\ new.next \in Nat
      BY <1>1, <2>1 DEF DueSchedulesTypeOK, Times, Never
    <3>2. \A t \in 1..hour : t < new.next
      BY <2>1, <3>1
    <3>3. QED
      BY <2>1, <3>1, <3>2
  <2>3. QED
    BY <1>5, <2>1, <2>2 DEF JobKnowsRow, Claim
<1>8. NextIsUnsent' /\ EditKnowsPlan' /\ NextRunFollowsPlan'
  BY <1>1 DEF Claim, NextIsUnsent, EditKnowsPlan, Replans, NextRunFollowsPlan
<1>9. QED
  BY <1>4, <1>6, <1>7, <1>8

LEMMA DeliverKeepsDueInv ==
  ASSUME DueInv, NEW j \in Jobs, Deliver(j)
  PROVE  DueInv'
<1> USE DEF DueInv
<1>1. /\ jobs[j].stage = "claimed" /\ jobs[j] \in JobRecords /\ jobs[j].due \in 1..hour
      /\ served \subseteq served' /\ served' \subseteq served \cup {jobs[j].due}
  BY DEF Deliver, DueSchedulesTypeOK, JobKnowsRow
<1>2. /\ jobs'[j] = [jobs[j] EXCEPT !.stage = "sent"]
      /\ \A k \in Jobs \ {j} : jobs'[k] = jobs[k] /\ jobs[k].stage = "idle"
  BY <1>1, JobsExclude DEF Deliver, DueSchedulesTypeOK
<1>3. DueSchedulesTypeOK'
  <2>1. jobs' \in [Jobs -> JobRecords]
    BY <1>1 DEF Deliver, DueSchedulesTypeOK, JobRecords
  <2>2. QED
    BY <1>1, <2>1 DEF Deliver, DueSchedulesTypeOK
<1>4. OneHolder' /\ NextIsUnsent'
  BY <1>1, <1>2 DEF Deliver, OneHolder, NextIsUnsent, JobRecords
<1>5. JobKnowsRow'
  BY <1>1, <1>2 DEF Deliver, JobKnowsRow, JobRecords
<1>6. EditKnowsPlan' /\ NextRunFollowsPlan'
  BY DEF Deliver, EditKnowsPlan, Replans, NextRunFollowsPlan
<1>7. QED
  BY <1>3, <1>4, <1>5, <1>6

\* A job commits or dies: the row is free again.
LEMMA EndOfJobKeepsDueInv ==
  ASSUME DueInv, NEW j \in Jobs, CommitRun(j) \/ Die(j)
  PROVE  DueInv'
<1> USE DEF DueInv
<1>1. /\ jobs[j].stage # "idle" /\ jobs[j] \in JobRecords /\ jobs[j].due = row.next
      /\ jobs[j].next \in row.plan \cup {Never} /\ jobs[j].next \notin served
  BY DEF CommitRun, Die, DueSchedulesTypeOK, JobKnowsRow, JobRecords, Times
<1>2. holder' = "none" /\ jobs' = [jobs EXCEPT ![j] = NoJob] /\ NoJob \in JobRecords
  BY DEF CommitRun, Die, NoJob, JobRecords, Times, Never
<1>3. \A k \in Jobs : jobs'[k].stage = "idle"
  BY <1>1, <1>2, JobsExclude DEF DueSchedulesTypeOK, NoJob
<1>4. DueSchedulesTypeOK'
  <2>1. CASE CommitRun(j)
    <3>1. row' \in Row
      BY <1>1, <2>1 DEF CommitRun, DueSchedulesTypeOK, Row, JobRecords
    <3>2. QED
      BY <1>2, <2>1, <3>1 DEF CommitRun, DueSchedulesTypeOK
  <2>2. CASE Die(j)
    BY <1>2, <2>2 DEF Die, DueSchedulesTypeOK
  <2>3. QED
    BY <2>1, <2>2
<1>5. OneHolder' /\ JobKnowsRow'
  BY <1>3 DEF OneHolder, JobKnowsRow
<1>6. NextIsUnsent'
  BY <1>1 DEF CommitRun, Die, NextIsUnsent, DueSchedulesTypeOK, Row
<1>7. EditKnowsPlan'
  BY DEF CommitRun, Die, EditKnowsPlan, Replans
<1>8. NextRunFollowsPlan'
  BY <1>1 DEF CommitRun, Die, NextRunFollowsPlan, DueSchedulesTypeOK, Row
<1>9. QED
  BY <1>4, <1>5, <1>6, <1>7, <1>8

LEMMA ReadKeepsDueInv ==
  ASSUME DueInv, NEW q \in Editing, ReadRow(q) \/ Replan(q) \/ GiveUpEditing(q)
  PROVE  DueInv'
<1> USE DEF DueInv
<1>1. AnyPlan \in Plans /\ Never \in Times
  BY DEF AnyPlan, Never, Times
<1>2. editing' \in [Editing -> EditingRecords] /\ EditKnowsPlan'
  <2>1. CASE ReadRow(q)
    <3>1. PICK op \in {"update", "sendNow"}, plan \in Plans :
            editing' = [editing EXCEPT ![q] =
                          [ stage |-> "read", op |-> op, plan |-> plan, next |-> row.next,
                            loaded |-> [plan |-> row.plan, next |-> row.next] ]]
      BY <2>1 DEF ReadRow
    <3>2. editing' \in [Editing -> EditingRecords]
      BY <3>1 DEF DueSchedulesTypeOK, EditingRecords, Row
    <3>3. EditKnowsPlan'
      BY <2>1, <3>1 DEF ReadRow, EditKnowsPlan, Replans, DueSchedulesTypeOK
    <3>4. QED
      BY <3>2, <3>3
  <2>2. CASE Replan(q)
    <3>1. editing[q] \in EditingRecords /\ hour \in 0..LastHour /\ editing[q].stage = "read"
      BY <2>2 DEF DueSchedulesTypeOK, Replan
    <3>2. /\ NextRun(editing[q].plan, hour) \in Times
          /\ NextRun(editing[q].plan, hour) \in editing[q].plan \cup {Never}
      BY <3>1, NextRunIsLater DEF EditingRecords
    <3> DEFINE next == IF Replans(q) THEN NextRun(editing[q].plan, hour) ELSE editing[q].next
    <3>3. editing' = [editing EXCEPT ![q] = [editing[q] EXCEPT !.stage = "ready", !.next = next]]
      BY <2>2 DEF Replan, DueSchedulesTypeOK
    <3>4. next \in Times /\ editing[q].next = editing[q].loaded.next
      BY <3>1, <3>2 DEF EditKnowsPlan, EditingRecords
    <3>5. editing' \in [Editing -> EditingRecords]
      BY <3>1, <3>3, <3>4 DEF DueSchedulesTypeOK, EditingRecords
    <3>6. EditKnowsPlan'
      BY <2>2, <3>1, <3>2, <3>3, <3>4
         DEF Replan, EditKnowsPlan, Replans, DueSchedulesTypeOK, EditingRecords
    <3>7. QED
      BY <3>5, <3>6
  <2>3. CASE GiveUpEditing(q)
    BY <1>1, <2>3 DEF GiveUpEditing, NoEditing, EditKnowsPlan, Replans, DueSchedulesTypeOK,
                      EditingRecords
  <2>4. QED
    BY <2>1, <2>2, <2>3
<1>3. UNCHANGED <<kind, hour, row, holder, jobs, served, repeated, drifted>>
  BY DEF ReadRow, Replan, GiveUpEditing
<1>4. DueSchedulesTypeOK'
  BY <1>2, <1>3 DEF DueSchedulesTypeOK
<1>5. OneHolder' /\ JobKnowsRow' /\ NextIsUnsent' /\ NextRunFollowsPlan'
  BY <1>3 DEF OneHolder, JobKnowsRow, NextIsUnsent, NextRunFollowsPlan
<1>6. QED
  BY <1>2, <1>4, <1>5

\* An UPDATE waits for the row to be free, and has only the columns that differ.
LEMMA WriteKeepsDueInv ==
  ASSUME DueInv, NEW q \in Editing, WriteRow(q)
  PROVE  DueInv'
<1> DEFINE e == editing[q]
<1> USE DEF DueInv
<1>1. /\ e \in EditingRecords /\ row \in Row /\ e.stage = "ready" /\ holder = "none"
      /\ IF Replans(q) THEN e.next \in e.plan \cup {Never} ELSE e.next = e.loaded.next
  BY DEF WriteRow, DueSchedulesTypeOK, EditKnowsPlan
<1>2. PICK on \in BOOLEAN :
        row' = [row EXCEPT
                  !.plan = IF e.plan # e.loaded.plan THEN e.plan ELSE @,
                  !.next = IF e.next # e.loaded.next THEN e.next ELSE @,
                  !.active = on]
  BY DEF WriteRow
<1> DEFINE plan == IF e.plan # e.loaded.plan THEN e.plan ELSE row.plan
           next == IF e.next # e.loaded.next THEN e.next ELSE row.next
<1>3. row' \in Row /\ row'.plan = plan /\ row'.next = next
  BY <1>1, <1>2 DEF Row, EditingRecords
<1>4. \A j \in Jobs : jobs'[j].stage = "idle"
  BY <1>1, JobsExclude DEF WriteRow
<1>5. DueSchedulesTypeOK'
  <2>1. AnyPlan \in Plans /\ Never \in Times
    BY DEF AnyPlan, Never, Times
  <2>2. editing' \in [Editing -> EditingRecords]
    BY <2>1 DEF WriteRow, NoEditing, DueSchedulesTypeOK, EditingRecords
  <2>3. repeated' \subseteq served'
    BY DEF WriteRow, DueSchedulesTypeOK
  <2>4. drifted' \in BOOLEAN
    BY DEF WriteRow
  <2>5. QED
    BY <1>3, <2>2, <2>3, <2>4 DEF WriteRow, DueSchedulesTypeOK
<1>6. OneHolder' /\ JobKnowsRow'
  BY <1>4 DEF OneHolder, JobKnowsRow
<1>7. NextIsUnsent'
  <2>1. CASE row'.next = row.next
    BY <1>4, <2>1 DEF WriteRow, NextIsUnsent
  <2>2. CASE row'.next # row.next
    BY <2>2 DEF WriteRow, NextIsUnsent
  <2>3. QED
    BY <2>1, <2>2
<1>8. EditKnowsPlan'
  BY DEF WriteRow, EditKnowsPlan, Replans, NoEditing, DueSchedulesTypeOK
<1>9. NextRunFollowsPlan'
  <2> SUFFICES ASSUME ~drifted' PROVE row'.next \in row'.plan \cup {Never}
    BY DEF NextRunFollowsPlan
  <2>1. /\ e.loaded.plan = row.plan
        /\ e.loaded.next = row.next \/ e.plan = row.plan
        /\ (~KeepsNext(q) /\ row'.next = e.next) \/ (~drifted /\ e.plan = row.plan)
    BY DEF WriteRow
  <2>2. CASE ~KeepsNext(q) /\ row'.next = e.next
    <3>1. Replans(q)
      BY <1>1, <2>2 DEF KeepsNext, Replans, DueSchedulesTypeOK, EditingRecords
    <3>2. e.next \in e.plan \cup {Never} /\ plan = e.plan
      BY <1>1, <2>1, <3>1
    <3>3. QED
      BY <1>3, <2>2, <3>2
  <2>3. CASE ~drifted /\ e.plan = row.plan
    <3>1. plan = row.plan /\ row.next \in row.plan \cup {Never}
      BY <2>1, <2>3 DEF NextRunFollowsPlan
    <3>2. e.next # e.loaded.next => e.next \in e.plan \cup {Never}
      BY <1>1
    <3>3. QED
      BY <1>3, <2>3, <3>1, <3>2
  <2>4. QED
    BY <2>1, <2>2, <2>3
<1>10. QED
  BY <1>5, <1>6, <1>7, <1>8, <1>9

LEMMA DeleteKeepsDueInv ==
  ASSUME DueInv, DeleteRow
  PROVE  DueInv'
<1> USE DEF DueInv
<1>1. row' \in Row /\ row'.next = row.next /\ row'.plan = row.plan
  BY DEF DeleteRow, DueSchedulesTypeOK, Row
<1>2. DueSchedulesTypeOK'
  BY <1>1 DEF DeleteRow, DueSchedulesTypeOK
<1>3. OneHolder' /\ JobKnowsRow' /\ NextIsUnsent' /\ EditKnowsPlan' /\ NextRunFollowsPlan'
  BY <1>1 DEF DeleteRow, OneHolder, JobKnowsRow, NextIsUnsent, EditKnowsPlan, Replans,
              NextRunFollowsPlan
<1>4. QED
  BY <1>2, <1>3

LEMMA DueStep == DueInv /\ [DueNext]_dueVars => DueInv'
<1> SUFFICES ASSUME DueInv, [DueNext]_dueVars PROVE DueInv'
  OBVIOUS
<1>1. CASE HourPasses
  BY <1>1, HourKeepsDueInv
<1>2. CASE DeleteRow
  BY <1>2, DeleteKeepsDueInv
<1>3. CASE \E j \in Jobs : Claim(j) \/ Deliver(j) \/ CommitRun(j) \/ Die(j)
  BY <1>3, ClaimKeepsDueInv, DeliverKeepsDueInv, EndOfJobKeepsDueInv
<1>4. CASE \E q \in Editing : ReadRow(q) \/ Replan(q) \/ WriteRow(q) \/ GiveUpEditing(q)
  BY <1>4, ReadKeepsDueInv, WriteKeepsDueInv
<1>5. CASE UNCHANGED dueVars
  BY <1>5 DEF dueVars, DueInv, DueSchedulesTypeOK, OneHolder, JobKnowsRow, NextIsUnsent,
              EditKnowsPlan, Replans, NextRunFollowsPlan
<1>6. QED
  BY <1>1, <1>2, <1>3, <1>4, <1>5 DEF DueNext

(***************************************************************************)
(* DueSchedules: the theorems                                              *)
(***************************************************************************)
\* The records of jobs and requests keep their form, nothing is sent before its time
\* (served), and only what was sent counts as repeated.
THEOREM DueSchedulesTypeCorrect == DueSpec => []DueSchedulesTypeOK
<1>1. DueInv => DueSchedulesTypeOK
  BY DEF DueInv
<1>2. QED
  BY <1>1, DueInitInv, DueStep, PTL DEF DueSpec

\* The next run is one of the stored plan, but for the edits that NextRunFollowsPlan names
\* (update_report_schedule, run_report_schedule).
THEOREM NextRunFollowsPlanHolds == DueSpec => []NextRunFollowsPlan
<1>1. DueInv => NextRunFollowsPlan
  BY DEF DueInv
<1>2. QED
  BY <1>1, DueInitInv, DueStep, PTL DEF DueSpec

\* However many runners there are, and whatever administrators do meanwhile, no run is
\* sent by two jobs (run_due_report_schedules, run_due_inventory_schedules).
THEOREM SentByOneJobHolds == DueSpec => SentByOneJob
<1>1. DueInv /\ [DueNext]_dueVars =>
        [\A j \in Jobs :
           jobs[j].stage = "claimed" /\ jobs'[j].stage = "sent" /\ jobs[j].due \in served
           => jobs[j].due \in repeated]_dueVars
  <2> SUFFICES ASSUME DueInv, NEW j \in Jobs, jobs[j].stage = "claimed", jobs[j].due \in served
               PROVE  jobs[j].due \in repeated
    OBVIOUS
  <2>1. \A k \in Jobs : jobs[k].stage # "sent"
    BY JobsExclude
  <2>2. jobs[j].due = row.next
    BY DEF DueInv, JobKnowsRow
  <2>3. QED
    BY <2>1, <2>2 DEF DueInv, NextIsUnsent
<1>2. QED
  BY <1>1, DueInitInv, DueStep, PTL DEF DueSpec, SentByOneJob

(***************************************************************************)
(* DueSchedules: the refinement of PromisedRuns                            *)
(***************************************************************************)
\* The row that a job holds is still as it was when the job found it due: switched on, and
\* of the runs that the job is going to pass over none lies ahead.
RowIsDue ==
  \A j \in Jobs : jobs[j].stage # "idle" =>
    /\ row.there /\ row.active
    /\ \A t \in row.plan : jobs[j].due < t /\ t < jobs[j].next => t <= hour

LEMMA ClaimFindsDue ==
  ASSUME DueInv, RowIsDue, NEW j \in Jobs, Claim(j)
  PROVE  RowIsDue'
<1>1. /\ row \in Row /\ hour \in 0..LastHour /\ jobs \in [Jobs -> JobRecords]
      /\ row.there /\ row.active /\ UNCHANGED <<row, hour>>
  BY DEF DueInv, DueSchedulesTypeOK, Claim, Claimable, Due
<1>2. row.plan \in Plans /\ row.plan \subseteq 1..LastHour
  BY <1>1 DEF Row
<1>3. PICK n : n = NextRun(row.plan, hour)
  OBVIOUS
<1>4. n \in Times /\ \A t \in row.plan : hour < t => n <= t
  BY <1>1, <1>2, <1>3, NextRunIsLater
<1>5. jobs' = [jobs EXCEPT ![j] = [stage |-> "claimed", due |-> row.next, next |-> n]]
  BY <1>3 DEF Claim
<1>6. \A t \in row.plan : t < n => t <= hour
  BY <1>1, <1>2, <1>4 DEF Times, Never
<1>7. QED
  BY <1>1, <1>5, <1>6 DEF RowIsDue

LEMMA RowStaysDue == DueInv /\ RowIsDue /\ [DueNext]_dueVars => RowIsDue'
<1> SUFFICES ASSUME DueInv, RowIsDue, [DueNext]_dueVars PROVE RowIsDue'
  OBVIOUS
<1>1. /\ jobs \in [Jobs -> JobRecords] /\ hour \in 0..LastHour
      /\ row \in Row /\ row.plan \subseteq 1..LastHour
  BY DEF DueInv, DueSchedulesTypeOK, Row
<1>2. CASE HourPasses
  BY <1>1, <1>2 DEF HourPasses, RowIsDue
<1>3. ASSUME NEW j \in Jobs, Claim(j) PROVE RowIsDue'
  BY <1>3, ClaimFindsDue
<1>4. ASSUME NEW j \in Jobs, Deliver(j) PROVE RowIsDue'
  BY <1>1, <1>4 DEF Deliver, RowIsDue, JobRecords
<1>5. ASSUME NEW j \in Jobs, CommitRun(j) \/ Die(j) PROVE RowIsDue'
  <2>1. jobs[j].stage # "idle" /\ jobs' = [jobs EXCEPT ![j] = NoJob]
    BY <1>5 DEF CommitRun, Die
  <2>2. \A k \in Jobs : jobs'[k].stage = "idle"
    BY <1>1, <2>1, JobsExclude DEF NoJob
  <2>3. QED
    BY <2>2 DEF RowIsDue
<1>6. ASSUME DeleteRow \/ \E q \in Editing : WriteRow(q) PROVE RowIsDue'
  <2>1. holder = "none" /\ UNCHANGED jobs
    BY <1>6 DEF DeleteRow, WriteRow
  <2>2. \A j \in Jobs : jobs'[j].stage = "idle"
    BY <2>1, JobsExclude
  <2>3. QED
    BY <2>2 DEF RowIsDue
<1>7. CASE \E q \in Editing : ReadRow(q) \/ Replan(q) \/ GiveUpEditing(q)
  BY <1>7 DEF ReadRow, Replan, GiveUpEditing, RowIsDue
<1>8. CASE UNCHANGED dueVars
  BY <1>8 DEF dueVars, RowIsDue
<1>9. QED
  BY <1>2, <1>3, <1>4, <1>5, <1>6, <1>7, <1>8 DEF DueNext

\* The delivery is the step at which the run takes place.
LEMMA DeliverIsRun ==
  ASSUME DueInv, RowIsDue, NEW j \in Jobs, Deliver(j)
  PROVE  Promise!Run
<1>1. /\ jobs \in [Jobs -> JobRecords] /\ hour \in 0..LastHour
      /\ jobs[j].stage = "claimed" /\ holder = j /\ j # "none"
  BY DEF DueInv, DueSchedulesTypeOK, OneHolder, Deliver
<1>2. /\ jobs[j].due = row.next /\ row.next \in 1..hour
      /\ jobs[j].next \in row.plan \cup {Never} /\ row.next < jobs[j].next
  BY <1>1 DEF DueInv, JobKnowsRow
<1>3. ~AtWork /\ row.there /\ row.active
  BY <1>1 DEF AtWork, RowIsDue
<1>4. row.next \in served => row.next \in repeated
  <2>1. \A k \in Jobs : jobs[k].stage # "sent"
    BY <1>1, JobsExclude
  <2>2. QED
    BY <2>1 DEF DueInv, NextIsUnsent
<1>5. /\ AtWork' /\ holder' = j /\ jobs'[j].due = row.next /\ jobs'[j].next = jobs[j].next
      /\ UNCHANGED <<hour, row, repeated>> /\ served' \in {served, served \cup {row.next}}
  BY <1>1, <1>2 DEF Deliver, AtWork, JobRecords
<1>6. \A t \in row.plan : row.next < t /\ t < jobs[j].next => t <= hour
  BY <1>1, <1>2 DEF RowIsDue
<1>7. QED
  BY <1>1, <1>2, <1>3, <1>4, <1>5, <1>6 DEF Promise!Run

\* A commit settles the run.  A job that dies undoes it if it had come to it.
LEMMA EndOfJobIsPromised ==
  ASSUME DueInv, NEW j \in Jobs, CommitRun(j) \/ Die(j)
  PROVE  Promise!Settle \/ Promise!Undo \/ UNCHANGED Promise!promisedVars
<1>1. /\ jobs \in [Jobs -> JobRecords] /\ row \in Row
      /\ jobs[j].stage # "idle" /\ holder = j /\ j # "none" /\ holder' = "none"
      /\ jobs[j].due = row.next /\ row.next # 0
  BY DEF DueInv, DueSchedulesTypeOK, OneHolder, JobKnowsRow, CommitRun, Die
<1>2. ~AtWork' /\ UNCHANGED <<hour, served>>
  BY <1>1 DEF AtWork, CommitRun, Die
<1>3. CASE CommitRun(j)
  <2>1. AtWork
    BY <1>1, <1>3 DEF AtWork, CommitRun
  <2>2. row'.next = jobs[j].next /\ UNCHANGED <<row.plan, row.there, row.active, repeated>>
    BY <1>1, <1>3 DEF CommitRun, Row
  <2>3. QED
    BY <1>1, <1>2, <2>1, <2>2 DEF Promise!Settle
<1>4. CASE Die(j)
  <2>1. row' = row /\ repeated' = repeated \cup ({row.next} \cap served)
    BY <1>1, <1>4 DEF Die
  <2>2. CASE jobs[j].stage = "sent"
    <3>1. AtWork
      BY <1>1, <2>2 DEF AtWork
    <3>2. QED
      BY <1>1, <1>2, <2>1, <3>1 DEF Promise!Undo, Promise!BackTo
  <2>3. CASE jobs[j].stage # "sent"
    <3>1. \A k \in Jobs : jobs[k].stage # "sent"
      BY <1>1, <2>3, JobsExclude
    <3>2. ~AtWork /\ repeated' = repeated
      BY <1>1, <2>1, <2>3, <3>1 DEF AtWork, DueInv, NextIsUnsent
    <3>3. QED
      BY <1>2, <2>1, <3>2 DEF Promise!promisedVars
  <2>4. QED
    BY <2>2, <2>3
<1>5. QED
  BY <1>3, <1>4

LEMMA WriteIsEdit ==
  ASSUME DueInv, NEW q \in Editing, WriteRow(q)
  PROVE  Promise!Edit
<1>1. /\ row \in Row /\ holder = "none" /\ holder' = "none" /\ row.there
      /\ UNCHANGED <<hour, served>>
  BY DEF DueInv, DueSchedulesTypeOK, WriteRow
<1>2. row'.there
  BY <1>1 DEF WriteRow, Row
<1>3. repeated' = IF row'.next # row.next THEN repeated \cup ({row'.next} \cap served)
                                          ELSE repeated
  BY DEF WriteRow
<1>4. ~AtWork /\ ~AtWork'
  BY <1>1 DEF AtWork
<1>5. QED
  BY <1>1, <1>2, <1>3, <1>4 DEF Promise!Edit, Promise!BackTo

LEMMA StepKeepsPromise ==
  ASSUME DueInv, RowIsDue, [DueNext]_dueVars
  PROVE  [Promise!Next]_(Promise!promisedVars)
<1>1. CASE HourPasses
  BY <1>1 DEF HourPasses, AtWork, Promise!HourPasses, Promise!Next
<1>2. CASE DeleteRow
  <2>1. /\ row \in Row /\ row.there /\ holder = "none" /\ row' = [row EXCEPT !.there = FALSE]
        /\ UNCHANGED <<hour, holder, served, repeated>>
    BY <1>2 DEF DeleteRow, DueInv, DueSchedulesTypeOK
  <2>2. ~row'.there /\ row'.plan = row.plan /\ row'.next = row.next
    BY <2>1 DEF Row
  <2>3. ~AtWork /\ ~AtWork'
    BY <2>1 DEF AtWork
  <2>4. QED
    BY <2>1, <2>2, <2>3 DEF Promise!Delete, Promise!Next
<1>3. ASSUME NEW j \in Jobs, Claim(j) PROVE UNCHANGED Promise!promisedVars
  <2>1. /\ jobs \in [Jobs -> JobRecords] /\ holder = "none" /\ holder' = j
        /\ jobs'[j].stage = "claimed" /\ UNCHANGED <<hour, row, served, repeated>>
    BY <1>3 DEF Claim, Claimable, DueInv, DueSchedulesTypeOK
  <2>2. ~AtWork /\ ~AtWork'
    BY <2>1 DEF AtWork
  <2>3. QED
    BY <2>1, <2>2 DEF Promise!promisedVars
<1>4. ASSUME NEW j \in Jobs, Deliver(j) PROVE Promise!Next
  BY <1>4, DeliverIsRun DEF Promise!Next
<1>5. ASSUME NEW j \in Jobs, CommitRun(j) \/ Die(j)
      PROVE  [Promise!Next]_(Promise!promisedVars)
  BY <1>5, EndOfJobIsPromised DEF Promise!Next
<1>6. ASSUME NEW q \in Editing, WriteRow(q) PROVE Promise!Next
  BY <1>6, WriteIsEdit DEF Promise!Next
<1>7. CASE \/ \E q \in Editing : ReadRow(q) \/ Replan(q) \/ GiveUpEditing(q)
           \/ UNCHANGED dueVars
  BY <1>7 DEF ReadRow, Replan, GiveUpEditing, dueVars, AtWork, Promise!promisedVars
<1>8. QED
  BY <1>1, <1>2, <1>3, <1>4, <1>5, <1>6, <1>7 DEF DueNext

\* A schedule under any number of jobs and edits, some of which die between the delivery and
\* the commit, behaves as one whose runs are single steps (run_due_report_schedules,
\* run_due_inventory_schedules, update_..._schedule, run_report_schedule).
THEOREM RunsAreStepsHolds == DueSpec => RunsAreSteps
<1>1. DueInit => Promise!Init
  <2> SUFFICES ASSUME DueInit PROVE Promise!Init
    OBVIOUS
  <2>1. PICK plan \in Plans :
          row = [plan |-> plan, next |-> NextRun(plan, 0), active |-> TRUE, there |-> TRUE]
    BY DEF DueInit
  <2>2. NextRun(plan, 0) \in plan \cup {Never}
    BY NextRunIsLater
  <2>3. ~AtWork
    BY DEF DueInit, AtWork
  <2>4. QED
    BY <2>1, <2>2, <2>3 DEF DueInit, Promise!Init
<1>2. DueInit => RowIsDue
  BY DEF DueInit, NoJob, RowIsDue
<1>3. DueInv /\ RowIsDue /\ [DueNext]_dueVars => [Promise!Next]_(Promise!promisedVars)
  BY StepKeepsPromise
<1>4. QED
  BY <1>1, <1>2, <1>3, DueInitInv, DueStep, RowStaysDue, PTL
  DEF DueSpec, RunsAreSteps, Promise!Spec

(***************************************************************************)
(* Certificates                                                            *)
(***************************************************************************)
UnderWay(i) == installs[i].stage # "idle"
Activates(i) == UnderWay(i) /\ installs[i].op = "activate"

\* The certificate file has been written, the transaction not committed.
InFiles(i) == installs[i].stage \in {"half", "written"}

\* What is installed exists; the row of an activation that has been flushed is locked.
InstallsFit ==
  \A i \in Installs :
    /\ UnderWay(i) => installs[i].cert \in Certs
    /\ Activates(i) /\ installs[i].stage # "read" => installs[i].cert \in uploaded

\* While an install is alone, no other can change which rows are active.
AloneMeansAlone ==
  \A i \in Installs : UnderWay(i) /\ installs[i].alone =>
    /\ \A j \in Installs \ {i} : UnderWay(j) => ~Activates(i) /\ ~Activates(j)
    /\ active \subseteq (IF Activates(i) THEN installs[i].others ELSE {installs[i].cert})

\* The certificate in the file is the active one, or the one of an activation that is
\* going to commit and that no other can forestall.
Committed == active \subseteq {crt} /\ \A i \in Installs : Activates(i) => ~InFiles(i)
Committing ==
  \E i \in Installs :
    /\ Activates(i) /\ InFiles(i) /\ crt = installs[i].cert /\ active \subseteq installs[i].others
    /\ \A j \in Installs \ {i} : ~InFiles(j)

FileIsActive == ~spoilt /\ crt # Missing => Committed \/ Committing
FileIsLoaded == ~spoilt /\ crt # Missing /\ nginx = "polling" /\ seen => loaded = crt

CertInv ==
  CertificatesTypeOK /\ InstallsFit /\ AloneMeansAlone /\ FileIsActive /\ FileIsLoaded

LEMMA CertInitInv == CertInit => CertInv
<1> SUFFICES ASSUME CertInit PROVE CertInv
  OBVIOUS
<1>1. NoInstall \in InstallRecords /\ NoInstall.stage = "idle"
  BY DEF NoInstall, InstallRecords
<1>2. CertificatesTypeOK
  BY <1>1 DEF CertInit, CertificatesTypeOK
<1>3. \A i \in Installs : ~UnderWay(i) /\ ~InFiles(i)
  BY <1>1 DEF CertInit, UnderWay, InFiles
<1>4. InstallsFit /\ AloneMeansAlone /\ FileIsActive /\ FileIsLoaded
  BY <1>3 DEF CertInit, InstallsFit, AloneMeansAlone, FileIsActive, Committed, FileIsLoaded, Activates
<1>5. QED
  BY <1>2, <1>4 DEF CertInv

\* Steps that leave the installs and the files alone.
LEMMA InstallsStay ==
  ASSUME CertInv, UNCHANGED installs, active' \subseteq active, UNCHANGED crt, spoilt => spoilt',
         \A i \in Installs : Activates(i) /\ installs[i].stage # "read" /\ installs[i].cert \in uploaded
                            => installs[i].cert \in uploaded'
  PROVE  InstallsFit' /\ AloneMeansAlone' /\ FileIsActive'
<1>1. \A i \in Installs : (UnderWay(i)' <=> UnderWay(i)) /\ (Activates(i)' <=> Activates(i))
                         /\ (InFiles(i)' <=> InFiles(i))
  BY DEF UnderWay, Activates, InFiles
<1>2. InstallsFit'
  BY <1>1 DEF CertInv, InstallsFit
<1>3. AloneMeansAlone'
  BY <1>1 DEF CertInv, AloneMeansAlone
<1>4. FileIsActive'
  BY <1>1 DEF CertInv, FileIsActive, Committed, Committing
<1>5. QED
  BY <1>2, <1>3, <1>4

LEMMA RowStep ==
  ASSUME CertInv, NEW c \in Certs, Upload(c) \/ BeginDelete(c) \/ CommitDelete(c)
  PROVE  CertInv'
<1>1. UNCHANGED <<installs, crt, key, recent, init, nginx, loaded, seen, seenNow, spoilt>>
  BY DEF Upload, BeginDelete, CommitDelete, fileVars, nginxVars
<1>2. /\ active' \subseteq active /\ active' \subseteq uploaded'
      /\ uploaded' \subseteq Certs /\ deleting' \subseteq Certs
  BY DEF Upload, BeginDelete, CommitDelete, CertInv, CertificatesTypeOK
<1>3. ASSUME NEW i \in Installs, Activates(i), installs[i].stage # "read", installs[i].cert \in uploaded
      PROVE  installs[i].cert \in uploaded'
  <2>1. installs[i].cert \in Locked(i)
    BY <1>3 DEF Activates, UnderWay, Locked
  <2>2. QED
    BY <1>3, <2>1 DEF Upload, BeginDelete, CommitDelete
<1>4. InstallsFit' /\ AloneMeansAlone' /\ FileIsActive'
  BY <1>1, <1>2, <1>3, InstallsStay
<1>5. CertificatesTypeOK' /\ FileIsLoaded'
  BY <1>1, <1>2 DEF CertInv, CertificatesTypeOK, FileIsLoaded
<1>6. QED
  BY <1>4, <1>5 DEF CertInv

LEMMA NginxStep ==
  ASSUME CertInv,
         SecondPasses \/ StartNginx \/ StopNginx \/ StartWatcher \/ Poll \/ Reload
  PROVE  CertInv'
<1>1. UNCHANGED <<uploaded, active, deleting, installs, crt, key, init>> /\ (spoilt => spoilt')
  BY DEF SecondPasses, StartNginx, StopNginx, StartWatcher, Poll, Reload, rowVars, fileVars
<1>2. InstallsFit' /\ AloneMeansAlone' /\ FileIsActive'
  BY <1>1, InstallsStay
<1>3. /\ {crt, key, loaded} \subseteq Certs \cup {SelfSigned, Missing}
      /\ recent \in BOOLEAN /\ seen \in BOOLEAN /\ seenNow \in BOOLEAN /\ spoilt \in BOOLEAN
      /\ nginx \in {"down", "started", "polling", "reloading"}
  BY DEF CertInv, CertificatesTypeOK
<1>4. /\ loaded' \in Certs \cup {SelfSigned, Missing}
      /\ nginx' \in {"down", "started", "polling", "reloading"}
  BY <1>3 DEF SecondPasses, StartNginx, StopNginx, StartWatcher, Poll, Reload
<1>5. recent' \in BOOLEAN /\ seen' \in BOOLEAN /\ seenNow' \in BOOLEAN /\ spoilt' \in BOOLEAN
  BY <1>3 DEF SecondPasses, StartNginx, StopNginx, StartWatcher, Poll, Reload, Looks, fileVars
<1>6. CertificatesTypeOK'
  BY <1>1, <1>4, <1>5 DEF CertInv, CertificatesTypeOK
<1>7. FileIsLoaded'
  <2>1. CASE SecondPasses
    BY <2>1 DEF SecondPasses, CertInv, FileIsLoaded
  <2>2. CASE StartNginx \/ StopNginx \/ Poll
    BY <2>2 DEF StartNginx, StopNginx, Poll, FileIsLoaded
  <2>3. CASE StartWatcher
    BY <2>3 DEF StartWatcher, FileIsLoaded, fileVars
  <2>4. CASE Reload
    BY <2>4 DEF Reload, Loadable, FileIsLoaded, fileVars
  <2>5. QED
    BY <2>1, <2>2, <2>3, <2>4
<1>8. QED
  BY <1>2, <1>6, <1>7 DEF CertInv

LEMMA BeginInstallStep ==
  ASSUME CertInv, NEW i \in Installs, BeginSync(i) \/ \E c \in Certs : BeginActivate(i, c)
  PROVE  CertInv'
<1>1. PICK install \in InstallRecords :
        /\ BeginInstall(i, install) /\ install.cert \in Certs
        /\ IF install.op = "activate" THEN install.stage = "read" /\ install.others = active
           ELSE install.stage = "flushed" /\ active = {install.cert}
  <2>1. /\ NoInstall \in InstallRecords /\ NoInstall.op = "sync"
        /\ active \in SUBSET Certs
    BY DEF NoInstall, InstallRecords, CertInv, CertificatesTypeOK
  <2>2. CASE BeginSync(i)
    <3>1. PICK c \in active :
            active = {c} /\ BeginInstall(i, [NoInstall EXCEPT !.stage = "flushed", !.cert = c])
      BY <2>2 DEF BeginSync
    <3> DEFINE install == [NoInstall EXCEPT !.stage = "flushed", !.cert = c]
    <3>2. /\ install \in InstallRecords /\ install.op = "sync" /\ install.stage = "flushed"
          /\ install.cert = c /\ c \in Certs
      BY <2>1 DEF InstallRecords
    <3>3. QED
      BY <3>1, <3>2
  <2>3. CASE \E c \in Certs : BeginActivate(i, c)
    <3>1. PICK c \in Certs : BeginActivate(i, c)
      BY <2>3
    <3> DEFINE install == [NoInstall EXCEPT !.stage = "read", !.op = "activate", !.cert = c, !.others = active]
    <3>2. /\ install \in InstallRecords /\ install.op = "activate" /\ install.stage = "read"
          /\ install.cert = c /\ install.others = active
      BY <2>1 DEF InstallRecords
    <3>3. BeginInstall(i, install)
      BY <3>1 DEF BeginActivate
    <3> HIDE DEF install
    <3>4. QED
      BY <3>2, <3>3
  <2>4. QED
    BY <2>2, <2>3
<1> DEFINE op == install.op
           stage == install.stage
           c == install.cert
           others == install.others
           Clashes(j) == installs[j].stage # "idle" /\ "activate" \in {op, installs[j].op}
           Clear == \A k \in Installs : ~Clashes(k)
<1>2. /\ installs[i].stage = "idle"
      /\ installs' = [j \in Installs |->
           IF j = i THEN [install EXCEPT !.alone = Clear]
           ELSE [installs[j] EXCEPT !.alone = installs[j].alone /\ ~Clashes(j)]]
      /\ UNCHANGED <<uploaded, active, deleting, crt, key, recent, init, nginx, loaded, seen,
                     seenNow, spoilt>>
  BY <1>1 DEF BeginInstall, rowVars, fileVars, nginxVars
<1>3. /\ installs'[i] \in InstallRecords
      /\ installs'[i].stage = stage /\ installs'[i].op = op /\ installs'[i].cert = c
      /\ installs'[i].others = others /\ installs'[i].alone = Clear
  <2>1. Clear \in BOOLEAN
    OBVIOUS
  <2> HIDE DEF Clear
  <2>2. installs'[i] = [install EXCEPT !.alone = Clear]
    BY <1>2
  <2>3. QED
    BY <1>1, <2>1, <2>2 DEF InstallRecords
<1>4. ASSUME NEW j \in Installs \ {i}
      PROVE  /\ installs'[j] \in InstallRecords
             /\ installs'[j].stage = installs[j].stage /\ installs'[j].op = installs[j].op
             /\ installs'[j].cert = installs[j].cert /\ installs'[j].others = installs[j].others
             /\ installs'[j].alone => installs[j].alone /\ ~Clashes(j)
  <2> DEFINE alone == installs[j].alone /\ ~Clashes(j)
  <2>1. installs[j] \in InstallRecords /\ alone \in BOOLEAN
    BY DEF CertInv, CertificatesTypeOK
  <2>2. installs'[j] = [installs[j] EXCEPT !.alone = alone]
    BY <1>2
  <2>3. alone => installs[j].alone /\ ~Clashes(j)
    OBVIOUS
  <2> HIDE DEF alone, Clashes
  <2>4. /\ installs'[j] \in InstallRecords
        /\ installs'[j].stage = installs[j].stage /\ installs'[j].op = installs[j].op
        /\ installs'[j].cert = installs[j].cert /\ installs'[j].others = installs[j].others
        /\ installs'[j].alone = alone
    BY <2>1, <2>2 DEF InstallRecords
  <2>5. QED
    BY <2>3, <2>4
<1>5. installs' \in [Installs -> InstallRecords]
  BY <1>2, <1>3, <1>4
<1>12. /\ installs[i].stage = "idle" /\ stage \in {"read", "flushed"} /\ c \in Certs
       /\ op \in {"activate", "sync"}
       /\ op = "activate" => stage = "read" /\ others = active
       /\ op = "sync" => active = {c}
       /\ UNCHANGED <<uploaded, active, deleting, crt, key, recent, init, nginx, loaded, seen,
                     seenNow, spoilt>>
  BY <1>1, <1>2 DEF InstallRecords
<1>13. /\ Clear => \A j \in Installs : ~Clashes(j)
       /\ \A j \in Installs : ~Clashes(j) /\ UnderWay(j) => op # "activate" /\ ~Activates(j)
  BY DEF UnderWay, Activates
<1> HIDE DEF op, stage, c, others, Clashes, Clear
<1>6. /\ UnderWay(i)' /\ (Activates(i)' <=> op = "activate") /\ ~InFiles(i)' /\ ~InFiles(i)
      /\ \A j \in Installs \ {i} :
           /\ UnderWay(j)' <=> UnderWay(j)
           /\ Activates(j)' <=> Activates(j)
           /\ InFiles(j)' <=> InFiles(j)
  BY <1>3, <1>4, <1>12 DEF UnderWay, Activates, InFiles
<1>7. CertificatesTypeOK' /\ FileIsLoaded'
  BY <1>5, <1>12 DEF CertInv, CertificatesTypeOK, FileIsLoaded
<1>8. InstallsFit'
  BY <1>3, <1>4, <1>6, <1>12 DEF CertInv, InstallsFit
<1>9. AloneMeansAlone'
  <2> SUFFICES ASSUME NEW j \in Installs, UnderWay(j)', installs'[j].alone
               PROVE  /\ \A k \in Installs \ {j} : UnderWay(k)' => ~Activates(j)' /\ ~Activates(k)'
                      /\ active' \subseteq (IF Activates(j)' THEN installs'[j].others
                                           ELSE {installs'[j].cert})
    BY DEF AloneMeansAlone
  <2>1. CASE j = i
    <3>1. \A k \in Installs \ {i} : UnderWay(k) => op # "activate" /\ ~Activates(k)
      BY <1>3, <1>13, <2>1
    <3>2. active \subseteq (IF op = "activate" THEN others ELSE {c})
      BY <1>12
    <3>3. QED
      BY <1>3, <1>6, <1>12, <2>1, <3>1, <3>2
  <2>2. CASE j # i
    <3>1. UnderWay(j) /\ installs[j].alone /\ ~Clashes(j)
      BY <1>4, <1>6, <2>2
    <3>2. op # "activate" /\ ~Activates(j)
      BY <1>13, <3>1
    <3>3. /\ \A k \in Installs \ {j} : UnderWay(k) => ~Activates(k)
          /\ active \subseteq {installs[j].cert}
      BY <3>1, <3>2 DEF CertInv, AloneMeansAlone
    <3>4. QED
      BY <1>4, <1>6, <1>12, <2>2, <3>2, <3>3
  <2>3. QED
    BY <2>1, <2>2
<1>10. FileIsActive'
  <2>1. CASE Committed
    <3>1. Committed'
      BY <1>6, <1>12, <2>1 DEF Committed
    <3>2. QED
      BY <3>1 DEF FileIsActive
  <2>2. CASE Committing
    <3>1. PICK k \in Installs :
            /\ Activates(k) /\ InFiles(k) /\ crt = installs[k].cert /\ active \subseteq installs[k].others
            /\ \A j \in Installs \ {k} : ~InFiles(j)
      BY <2>2 DEF Committing
    <3>2. k # i
      BY <1>6, <3>1
    <3>3. Committing'
      BY <1>4, <1>6, <1>12, <3>1, <3>2 DEF Committing
    <3>4. QED
      BY <3>3 DEF FileIsActive
  <2>3. CASE spoilt \/ crt = Missing
    BY <1>12, <2>3 DEF FileIsActive
  <2>4. QED
    BY <2>1, <2>2, <2>3 DEF CertInv, FileIsActive
<1>11. QED
  BY <1>7, <1>8, <1>9, <1>10 DEF CertInv

\* An install goes on to its next stage.
LEMMA NextStage ==
  ASSUME CertInv, NEW i \in Installs,
         NEW stage \in {"read", "flushed", "unlinked", "half"},
         NEW next \in {"flushed", "unlinked", "half", "written"}, AtStage(i, stage, next)
  PROVE  /\ installs' \in [Installs -> InstallRecords]
         /\ installs[i].stage = stage /\ installs'[i].stage = next
         /\ \A j \in Installs :
              /\ j # i => installs'[j] = installs[j]
              /\ installs'[j].cert = installs[j].cert /\ installs'[j].others = installs[j].others
              /\ installs'[j].alone = installs[j].alone
              /\ UnderWay(j)' <=> UnderWay(j)
              /\ Activates(j)' <=> Activates(j)
         /\ UnderWay(i)
<1>1. installs[i].stage = stage /\ installs' = [installs EXCEPT ![i].stage = next]
  BY DEF AtStage
<1>2. installs \in [Installs -> InstallRecords] /\ installs[i] \in InstallRecords
  BY DEF CertInv, CertificatesTypeOK
<1>3. installs'[i] = [installs[i] EXCEPT !.stage = next]
  BY <1>1, <1>2
<1>4. /\ installs'[i] \in InstallRecords /\ installs'[i].stage = next
      /\ installs'[i].cert = installs[i].cert /\ installs'[i].others = installs[i].others
      /\ installs'[i].alone = installs[i].alone /\ installs'[i].op = installs[i].op
  BY <1>2, <1>3 DEF InstallRecords
<1>5. \A j \in Installs \ {i} : installs'[j] = installs[j]
  BY <1>1, <1>2
<1>6. installs' \in [Installs -> InstallRecords]
  BY <1>1, <1>2, <1>4
<1>7. ASSUME NEW j \in Installs
      PROVE  (UnderWay(j)' <=> UnderWay(j)) /\ (Activates(j)' <=> Activates(j))
  BY <1>1, <1>4, <1>5 DEF UnderWay, Activates
<1>8. UnderWay(i)
  BY <1>1 DEF UnderWay
<1>9. QED
  BY <1>1, <1>4, <1>5, <1>6, <1>7, <1>8

LEMMA FlushStep ==
  ASSUME CertInv, NEW i \in Installs, Flush(i) \/ Unlink(i)
  PROVE  CertInv'
<1>1. PICK stage \in {"read", "flushed"}, next \in {"flushed", "unlinked"} : AtStage(i, stage, next)
  BY DEF Flush, Unlink
<1>2. /\ installs' \in [Installs -> InstallRecords]
      /\ installs[i].stage = stage /\ installs'[i].stage = next
      /\ \A j \in Installs :
           /\ j # i => installs'[j] = installs[j]
           /\ installs'[j].cert = installs[j].cert /\ installs'[j].others = installs[j].others
           /\ installs'[j].alone = installs[j].alone
           /\ UnderWay(j)' <=> UnderWay(j)
           /\ Activates(j)' <=> Activates(j)
      /\ UnderWay(i)
  BY <1>1, NextStage
<1>3. UNCHANGED <<uploaded, active, deleting, init, nginx, loaded, seen, seenNow, spoilt>>
  BY DEF Flush, Unlink, rowVars, nginxVars
<1>4. /\ UNCHANGED recent
      /\ (UNCHANGED <<crt, key>>) \/ (crt' = Missing /\ key' = Missing)
  BY DEF Flush, Unlink, fileVars
<1>5. CertificatesTypeOK' /\ FileIsLoaded'
  BY <1>2, <1>3, <1>4 DEF CertInv, CertificatesTypeOK, FileIsLoaded
<1>6. InstallsFit'
  <2>1. installs[i].stage = "read" => installs[i].cert \in uploaded
    BY DEF Flush, Unlink, AtStage
  <2>2. QED
    BY <1>2, <1>3, <2>1 DEF CertInv, InstallsFit
<1>7. AloneMeansAlone'
  BY <1>2, <1>3 DEF CertInv, AloneMeansAlone
<1>8. \A j \in Installs : InFiles(j)' <=> InFiles(j)
  BY <1>2 DEF InFiles
<1>9. FileIsActive'
  <2>1. CASE crt' = Missing
    BY <2>1 DEF FileIsActive
  <2>2. CASE UNCHANGED <<crt, key>>
    BY <1>2, <1>3, <1>8, <2>2 DEF CertInv, FileIsActive, Committed, Committing
  <2>3. QED
    BY <1>4, <2>1, <2>2
<1>10. QED
  BY <1>5, <1>6, <1>7, <1>9 DEF CertInv

\* The file is written, by the only install that may change what is active, or the model
\* stops to claim anything.
LEMMA WriteCrtStep ==
  ASSUME CertInv, NEW i \in Installs, WriteCrt(i)
  PROVE  CertInv'
<1>1. AtStage(i, "unlinked", "half")
  BY DEF WriteCrt
<1>2. /\ installs' \in [Installs -> InstallRecords]
      /\ installs[i].stage = "unlinked" /\ installs'[i].stage = "half"
      /\ \A j \in Installs :
           /\ j # i => installs'[j] = installs[j]
           /\ installs'[j].cert = installs[j].cert /\ installs'[j].others = installs[j].others
           /\ installs'[j].alone = installs[j].alone
           /\ UnderWay(j)' <=> UnderWay(j)
           /\ Activates(j)' <=> Activates(j)
      /\ UnderWay(i)
  BY <1>1, NextStage
<1>3. /\ crt' = installs[i].cert /\ recent' = TRUE /\ seen' = seenNow
      /\ UNCHANGED <<uploaded, active, deleting, key, init, nginx, loaded, seenNow>>
  BY DEF WriteCrt, ToInstall, rowVars
<1>4. spoilt' \in BOOLEAN /\ (~spoilt' => installs[i].alone /\ ~seen')
  BY DEF WriteCrt
<1>5. installs[i].cert \in Certs
  BY <1>2 DEF CertInv, InstallsFit
<1>6. CertificatesTypeOK' /\ FileIsLoaded'
  <2>1. seen' \in BOOLEAN
    BY <1>3 DEF CertInv, CertificatesTypeOK
  <2>2. QED
    BY <1>2, <1>3, <1>4, <1>5, <2>1 DEF CertInv, CertificatesTypeOK, FileIsLoaded
<1>7. InstallsFit'
  BY <1>2, <1>3 DEF CertInv, InstallsFit
<1>8. AloneMeansAlone'
  BY <1>2, <1>3 DEF CertInv, AloneMeansAlone
<1>9. ASSUME ~spoilt' PROVE Committed' \/ Committing'
  <2>1. /\ \A j \in Installs \ {i} : UnderWay(j) => ~Activates(i) /\ ~Activates(j)
        /\ active \subseteq (IF Activates(i) THEN installs[i].others ELSE {installs[i].cert})
    BY <1>2, <1>4, <1>9 DEF CertInv, AloneMeansAlone
  <2>2. CASE Activates(i)
    <3>1. \A j \in Installs \ {i} : ~InFiles(j)'
      BY <1>2, <2>1, <2>2 DEF UnderWay, InFiles
    <3>2. InFiles(i)'
      BY <1>2 DEF InFiles
    <3>3. Committing'
      BY <1>2, <1>3, <2>1, <2>2, <3>1, <3>2 DEF Committing
    <3>4. QED
      BY <3>3
  <2>3. CASE ~Activates(i)
    <3>1. \A j \in Installs : ~Activates(j)
      BY <2>1, <2>3 DEF Activates
    <3>2. Committed'
      BY <1>2, <1>3, <2>1, <2>3, <3>1 DEF Committed
    <3>3. QED
      BY <3>2
  <2>4. QED
    BY <2>2, <2>3
<1>10. QED
  BY <1>6, <1>7, <1>8, <1>9 DEF CertInv, FileIsActive

LEMMA WriteKeyStep ==
  ASSUME CertInv, NEW i \in Installs, WriteKey(i)
  PROVE  CertInv'
<1>1. AtStage(i, "half", "written")
  BY DEF WriteKey
<1>2. /\ installs' \in [Installs -> InstallRecords]
      /\ installs[i].stage = "half" /\ installs'[i].stage = "written"
      /\ \A j \in Installs :
           /\ j # i => installs'[j] = installs[j]
           /\ installs'[j].cert = installs[j].cert /\ installs'[j].others = installs[j].others
           /\ installs'[j].alone = installs[j].alone
           /\ UnderWay(j)' <=> UnderWay(j)
           /\ Activates(j)' <=> Activates(j)
      /\ UnderWay(i)
  BY <1>1, NextStage
<1>3. /\ key' = installs[i].cert
      /\ UNCHANGED <<uploaded, active, deleting, crt, recent, init, nginx, loaded, seen, seenNow,
                     spoilt>>
  BY DEF WriteKey, ToInstall, rowVars, nginxVars
<1>4. installs[i].cert \in Certs
  BY <1>2 DEF CertInv, InstallsFit
<1>5. CertificatesTypeOK' /\ FileIsLoaded'
  BY <1>2, <1>3, <1>4 DEF CertInv, CertificatesTypeOK, FileIsLoaded
<1>6. InstallsFit'
  BY <1>2, <1>3 DEF CertInv, InstallsFit
<1>7. AloneMeansAlone'
  BY <1>2, <1>3 DEF CertInv, AloneMeansAlone
<1>8. \A j \in Installs : InFiles(j)' <=> InFiles(j)
  BY <1>2 DEF InFiles
<1>9. FileIsActive'
  BY <1>2, <1>3, <1>8 DEF CertInv, FileIsActive, Committed, Committing
<1>10. QED
  BY <1>5, <1>6, <1>7, <1>9 DEF CertInv

LEMMA EndInstallStep ==
  ASSUME CertInv, NEW i \in Installs, CommitInstall(i) \/ FailInstall(i)
  PROVE  CertInv'
<1>1. /\ installs' = [installs EXCEPT ![i] = NoInstall] /\ UnderWay(i)
      /\ UNCHANGED <<uploaded, deleting, crt, key, recent, init, nginx, loaded, seen, seenNow>>
  BY DEF CommitInstall, FailInstall, UnderWay, rowVars, fileVars, nginxVars
<1>2. installs \in [Installs -> InstallRecords] /\ NoInstall \in InstallRecords /\ NoInstall.stage = "idle"
  BY DEF CertInv, CertificatesTypeOK, NoInstall, InstallRecords
<1>3. /\ installs' \in [Installs -> InstallRecords] /\ installs'[i].stage = "idle"
      /\ \A j \in Installs \ {i} : installs'[j] = installs[j]
  BY <1>1, <1>2
<1>4. /\ ~UnderWay(i)' /\ ~Activates(i)' /\ ~InFiles(i)'
      /\ \A j \in Installs \ {i} :
           /\ UnderWay(j)' <=> UnderWay(j)
           /\ Activates(j)' <=> Activates(j)
           /\ InFiles(j)' <=> InFiles(j)
  BY <1>3 DEF UnderWay, Activates, InFiles
<1>5. \/ UNCHANGED active
      \/ /\ Activates(i) /\ InFiles(i)
         /\ active' = (active \ installs[i].others) \cup {installs[i].cert}
  BY <1>2 DEF CommitInstall, FailInstall, Activates, UnderWay, InFiles, InstallRecords, rowVars
<1>6. /\ spoilt' \in BOOLEAN /\ (spoilt => spoilt')
      /\ FailInstall(i) /\ InFiles(i) => spoilt'
      /\ CommitInstall(i) => InFiles(i)
  <2>1. spoilt \in BOOLEAN
    BY DEF CertInv, CertificatesTypeOK
  <2>2. CASE CommitInstall(i)
    BY <2>1, <2>2 DEF CommitInstall, FailInstall, InFiles
  <2>3. CASE FailInstall(i)
    <3>1. spoilt' = (spoilt \/ installs[i].stage \notin {"read", "flushed"})
      BY <2>3 DEF FailInstall
    <3>2. InFiles(i) => installs[i].stage \notin {"read", "flushed"}
      BY DEF InFiles
    <3>3. ~CommitInstall(i) \/ InFiles(i)
      BY DEF CommitInstall, InFiles
    <3>4. QED
      BY <2>1, <3>1, <3>2, <3>3
  <2>4. QED
    BY <2>2, <2>3
<1>7. active' \subseteq uploaded
  BY <1>5 DEF InFiles, CertInv, InstallsFit, CertificatesTypeOK
<1>8. CertificatesTypeOK' /\ FileIsLoaded'
  BY <1>1, <1>3, <1>6, <1>7 DEF CertInv, CertificatesTypeOK, FileIsLoaded
<1>9. InstallsFit'
  BY <1>1, <1>3, <1>4 DEF CertInv, InstallsFit
<1>10. AloneMeansAlone'
  <2> SUFFICES ASSUME NEW j \in Installs, UnderWay(j)', installs'[j].alone
               PROVE  /\ \A k \in Installs \ {j} : UnderWay(k)' => ~Activates(j)' /\ ~Activates(k)'
                      /\ active' \subseteq (IF Activates(j)' THEN installs'[j].others
                                           ELSE {installs'[j].cert})
    BY DEF AloneMeansAlone
  <2>1. j # i /\ UnderWay(j) /\ installs[j].alone
    BY <1>3, <1>4
  <2>2. /\ \A k \in Installs \ {j} : UnderWay(k) => ~Activates(j) /\ ~Activates(k)
        /\ active \subseteq (IF Activates(j) THEN installs[j].others ELSE {installs[j].cert})
    BY <2>1 DEF CertInv, AloneMeansAlone
  <2>3. UNCHANGED active
    BY <1>1, <1>5, <2>1, <2>2
  <2>4. QED
    BY <1>3, <1>4, <2>1, <2>2, <2>3
<1>11. ASSUME ~spoilt', crt' # Missing PROVE Committed' \/ Committing'
  <2>1. ~spoilt /\ crt # Missing
    BY <1>1, <1>6, <1>11
  <2>2. CASE Committed
    <3>1. UNCHANGED active
      BY <1>5, <2>2 DEF Committed
    <3>2. Committed'
      BY <1>1, <1>4, <2>2, <3>1 DEF Committed
    <3>3. QED
      BY <3>2
  <2>3. CASE Committing
    <3>1. PICK k \in Installs :
            /\ Activates(k) /\ InFiles(k) /\ crt = installs[k].cert /\ active \subseteq installs[k].others
            /\ \A j \in Installs \ {k} : ~InFiles(j)
      BY <2>3 DEF Committing
    <3>2. CASE k = i
      <4>1. CommitInstall(i)
        BY <1>6, <1>11, <3>1, <3>2
      <4>2. active' = (active \ installs[i].others) \cup {installs[i].cert}
        BY <3>1, <3>2, <4>1 DEF CommitInstall, Activates
      <4>3. active' \subseteq {crt'}
        BY <1>1, <3>1, <3>2, <4>2
      <4>4. Committed'
        BY <1>4, <3>1, <3>2, <4>3 DEF Committed
      <4>5. QED
        BY <4>4
    <3>3. CASE k # i
      <4>1. UNCHANGED active
        BY <1>5, <3>1, <3>3
      <4>2. Committing'
        BY <1>1, <1>3, <1>4, <3>1, <3>3, <4>1 DEF Committing
      <4>3. QED
        BY <4>2
    <3>4. QED
      BY <3>2, <3>3
  <2>4. QED
    BY <2>1, <2>2, <2>3 DEF CertInv, FileIsActive
<1>12. QED
  BY <1>8, <1>9, <1>10, <1>11 DEF CertInv, FileIsActive

\* What ssl_init does spares the rows, and the claims about the file end when it writes over
\* a certificate.
LEMMA InitStep ==
  ASSUME CertInv, InitCheck \/ InitWriteKey \/ InitWriteCrt \/ InitDies
  PROVE  CertInv'
<1>1. /\ UNCHANGED <<uploaded, active, deleting, installs, nginx, loaded, seenNow>>
      /\ init' \in {"idle", "making", "half"}
      /\ key' \in {key, SelfSigned}
  BY DEF InitCheck, InitWriteKey, InitWriteCrt, InitDies, rowVars, fileVars, nginxVars
<1>2. CASE ~InitWriteCrt
  <2>1. UNCHANGED <<crt, recent, seen, spoilt>>
    BY <1>2 DEF InitCheck, InitWriteKey, InitDies, fileVars, nginxVars
  <2>2. InstallsFit' /\ AloneMeansAlone' /\ FileIsActive'
    BY <1>1, <2>1, InstallsStay
  <2>3. CertificatesTypeOK' /\ FileIsLoaded'
    BY <1>1, <2>1 DEF CertInv, CertificatesTypeOK, FileIsLoaded
  <2>4. QED
    BY <2>2, <2>3 DEF CertInv
<1>3. CASE InitWriteCrt
  <2>1. /\ crt' = SelfSigned /\ recent' = TRUE /\ seen' = seenNow
        /\ spoilt' \in BOOLEAN
        /\ ~spoilt' => ~seenNow /\ active = {} /\ \A i \in Installs : ~InFiles(i)
    BY <1>3 DEF InitWriteCrt, InFiles
  <2>2. \A i \in Installs : (UnderWay(i)' <=> UnderWay(i)) /\ (Activates(i)' <=> Activates(i))
                           /\ (InFiles(i)' <=> InFiles(i))
    BY <1>1 DEF UnderWay, Activates, InFiles
  <2>3. CertificatesTypeOK' /\ FileIsLoaded'
    BY <1>1, <2>1 DEF CertInv, CertificatesTypeOK, FileIsLoaded
  <2>4. InstallsFit' /\ AloneMeansAlone'
    BY <1>1, <2>2 DEF CertInv, InstallsFit, AloneMeansAlone
  <2>5. FileIsActive'
    BY <1>1, <2>1, <2>2 DEF FileIsActive, Committed
  <2>6. QED
    BY <2>3, <2>4, <2>5 DEF CertInv
<1>4. QED
  BY <1>2, <1>3

\* A restored database may have another certificate active, which ends the claims.
LEMMA RestoreStep ==
  ASSUME CertInv, NEW rows \in SUBSET Certs, NEW on \in SUBSET rows, RestoreDatabase(rows, on)
  PROVE  CertInv'
<1>1. /\ uploaded' = rows /\ active' = on
      /\ spoilt' \in BOOLEAN /\ (~spoilt' => ~spoilt /\ active' \subseteq active)
      /\ UNCHANGED <<deleting, installs, crt, key, recent, init, nginx, loaded, seen, seenNow>>
  BY DEF RestoreDatabase, fileVars, nginxVars, CertInv, CertificatesTypeOK
<1>2. \A i \in Installs : /\ ~UnderWay(i) /\ ~Activates(i) /\ ~InFiles(i)
                          /\ ~UnderWay(i)' /\ ~Activates(i)' /\ ~InFiles(i)'
  BY <1>1 DEF RestoreDatabase, UnderWay, Activates, InFiles
<1>3. CertificatesTypeOK' /\ FileIsLoaded'
  BY <1>1 DEF CertInv, CertificatesTypeOK, FileIsLoaded
<1>4. InstallsFit' /\ AloneMeansAlone'
  BY <1>2 DEF InstallsFit, AloneMeansAlone
<1>5. FileIsActive'
  BY <1>1, <1>2 DEF CertInv, FileIsActive, Committed, Committing
<1>6. QED
  BY <1>3, <1>4, <1>5 DEF CertInv

LEMMA CertStep == CertInv /\ [CertNext]_certVars => CertInv'
<1>1. CASE UNCHANGED certVars
  BY <1>1 DEF certVars, CertInv, CertificatesTypeOK, InstallsFit, AloneMeansAlone, FileIsActive,
              FileIsLoaded, Committed, Committing, UnderWay, Activates, InFiles
<1>2. QED
  BY <1>1, RowStep, BeginInstallStep, FlushStep, WriteCrtStep, WriteKeyStep, EndInstallStep, NginxStep,
     InitStep, RestoreStep
  DEF CertNext

\* The rows, the files and the installs keep their form; only certificates of the database
\* are active.
THEOREM CertificatesTypeCorrect == CertificatesSpec => []CertificatesTypeOK
<1>1. CertInv => CertificatesTypeOK
  BY DEF CertInv
<1>2. QED
  BY <1>1, CertInitInv, CertStep, PTL DEF CertificatesSpec

\* However installs, deletions, reloads and restarts of nginx interleave, nginx serves the
\* active certificate when all is quiet, but for the exceptions that the property names,
\* also when ssl_init runs or the database is restored meanwhile (activate_certificate,
\* sync_active_certificate, reload-watcher.sh, init-ssl.sh, restore_backup).
THEOREM ActiveIsServedHolds == CertificatesSpec => []ActiveIsServed
<1>1. CertInv => ActiveIsServed
  <2> SUFFICES ASSUME CertInv, nginx = "polling", crt # Missing, seen,
                      \A i \in Installs : installs[i].stage = "idle", ~spoilt,
                      NEW c \in Certs, active = {c}
               PROVE  loaded = c
    BY DEF ActiveIsServed
  <2>1. ~Committing
    BY DEF Committing, InFiles
  <2>2. crt = c
    BY <2>1 DEF CertInv, FileIsActive, Committed
  <2>3. QED
    BY <2>2 DEF CertInv, FileIsLoaded
<1>2. QED
  BY <1>1, CertInitInv, CertStep, PTL DEF CertificatesSpec

(***************************************************************************)
(* The parts together                                                      *)
(***************************************************************************)
\* A behaviour of the administration is one of the schedules and one of the certificates, so
\* that every theorem about these holds of the specification that TLC checks.
THEOREM AdministrationIsParts == AdministrationSpec => DueSpec /\ CertificatesSpec
<1>1. AdministrationInit => DueInit /\ CertInit
  BY DEF AdministrationInit
<1>2. [AdministrationNext]_AdministrationVars => [DueNext]_dueVars /\ [CertNext]_certVars
  BY DEF AdministrationNext, AdministrationVars
<1>3. QED
  BY <1>1, <1>2, PTL DEF AdministrationSpec, DueSpec, CertificatesSpec

\* The organisation that has been set up satisfies the invariant of Membership too.
LEMMA StaffedInitInv == StaffedInit => MembershipInv
<1> SUFFICES ASSUME StaffedInit PROVE MembershipInv
  OBVIOUS
<1> USE AdministrationAssumption, MembershipAssumption
<1>1. users \in [Users -> User] /\ NoChange \in ChangeRecords
  BY DEF StaffedInit, NewUser, NoChange, User, Roles, ChangeRecords
<1>2. MembershipTypeOK
  BY <1>1 DEF StaffedInit, MembershipTypeOK
<1>3. Snapshots
  BY DEF StaffedInit, Snapshots, NoChange, WellBegun, SeesUser, SeesHeir, SeesTeams,
         UserOps, MemberOps, TeamOps
<1>4. NoTeamNoManager /\ DeletedUsersManageNothing
  BY DEF StaffedInit, NoTeamNoManager, DeletedUsersManageNothing
<1>5. PrimaryIsMembership
  BY DEF StaffedInit, PrimaryIsMembership
<1>6. QED
  BY <1>2, <1>3, <1>4, <1>5 DEF MembershipInv

LEMMA AdministrationKeepsMembership == AdministrationSpec => []MembershipInv
<1>1. AdministrationInit => MembershipInv
  BY MembershipInitInv, StaffedInitInv DEF AdministrationInit
<1>2. [AdministrationNext]_AdministrationVars => [MembershipNext]_memberVars
  BY DEF AdministrationNext, AdministrationVars
<1>3. QED
  BY <1>1, <1>2, MembershipStep, PTL DEF AdministrationSpec

\* The rules of Membership hold from a staffed organisation too (user_service.py,
\* team_service.py).
THEOREM MembershipHoldsWhenStaffed ==
  AdministrationSpec =>
    [](PrimaryIsMembership /\ DeletedUsersManageNothing) /\ LastSuperadminGoes
<1>1. MembershipInv => PrimaryIsMembership /\ DeletedUsersManageNothing
  BY DEF MembershipInv
<1>2. [AdministrationNext]_AdministrationVars => [MembershipNext]_memberVars
  BY DEF AdministrationNext, AdministrationVars
<1>3. QED
  BY <1>1, <1>2, AdministrationKeepsMembership, StepSparesSuperadmins, PTL
  DEF AdministrationSpec, LastSuperadminGoes, LastGoes

\* The records of schedules, users, teams and of the requests about them keep their form,
\* and only a certificate of the database is active.
THEOREM AdministrationTypeCorrect == AdministrationSpec => []AdministrationTypeOK
<1>1. MembershipInv => MembershipTypeOK
  BY DEF MembershipInv
<1>2. QED
  BY <1>1, AdministrationIsParts, AdministrationKeepsMembership, DueSchedulesTypeCorrect,
     CertificatesTypeCorrect, PTL DEF AdministrationTypeOK
=============================================================================
