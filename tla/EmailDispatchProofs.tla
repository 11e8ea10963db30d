------------------------- MODULE EmailDispatchProofs -------------------------
(***************************************************************************)
(* Theorems of EmailDispatch, for any number of uvicorn and Celery workers *)
(* and of mails, any hours, any offset of local time and any clock.        *)
(***************************************************************************)
EXTENDS EmailDispatch, TLAPS

USE EmailConstants

(***************************************************************************)
(* The inductive invariant                                                 *)
(***************************************************************************)
\* A row that keeps a notice from being sent.
Blocks(row) == row.mail \in Notices /\ Counts(row)

\* What holds of a job at each of its steps: it keeps to its own mails, it has a row
\* for the mail it hands over, and the rows of notices it has yet to commit are of
\* mails that were taken or are the one at hand.
JobInv(a) ==
  run[a] # Idle =>
    /\ run[a].todo \subseteq JobMails(run[a].name)
    /\ run[a].step = "clear" => run[a].mail \in JobMails(run[a].name) /\ run[a].began # None
    /\ run[a].step = "recorded" =>
         /\ run[a].mail \in JobMails(run[a].name)
         /\ run[a].id \in Ids
         /\ Seen(a, run[a].id) # None
    /\ \A x \in Ids : run[a].own[x] # None /\ Blocks(run[a].own[x]) =>
         inbox[x] # None \/ (run[a].step = "recorded" /\ run[a].id = x)

IInv ==
  /\ TypeOK
  /\ \A a \in Runners : JobInv(a)
  /\ NoticesBlockedOnlyByDelivery

LEMMA NoRowsTable == NoRows \in Table
  BY DEF NoRows, Table

LEMMA InitIInv == Init => IInv
<1> SUFFICES ASSUME Init PROVE IInv
  OBVIOUS
<1>1. TypeOK
  <2>1. now \in 0 .. MaxTime /\ logs \in Table
    BY NoRowsTable DEF Init
  <2>2. inbox \in [Ids -> Taken \cup {None}] /\ run \in [Runners -> Job \cup {Idle}]
    BY DEF Init
  <2>3. QED
    BY <2>1, <2>2 DEF TypeOK
<1>2. \A a \in Runners : JobInv(a)
  BY DEF Init, JobInv
<1>3. NoticesBlockedOnlyByDelivery
  BY DEF Init, NoRows, NoticesBlockedOnlyByDelivery
<1>4. QED
  BY <1>1, <1>2, <1>3 DEF IInv

\* The fields of a job.
LEMMA JobFields ==
  ASSUME TypeOK, NEW a \in Runners, run[a].step # "idle"
  PROVE  /\ run[a] # Idle
         /\ run[a] \in Job
         /\ run[a].own \in Table /\ run[a].todo \subseteq Mails
         /\ run[a].name \in {"workflows", "reminders"}
<1>1. run[a] \in Job \cup {Idle} /\ run[a] # Idle
  BY DEF TypeOK, Idle
<1>2. QED
  BY <1>1 DEF Job

\* What a transaction sees of a row is a row.
LEMMA SeenRow ==
  ASSUME TypeOK, NEW a \in Runners, run[a].step # "idle", NEW x \in Ids
  PROVE  Seen(a, x) \in Row \cup {None}
<1>1. run[a].own \in Table
  BY JobFields
<1>2. QED
  BY <1>1 DEF Seen, Table, TypeOK

LEMMA JobMailsOfName ==
  ASSUME NEW name \in {"workflows", "reminders"}
  PROVE  JobMails(name) \subseteq Mails
  BY DEF JobMails, Mails

\* A step of runner a that leaves the committed rows alone and takes no mail back.
LEMMA LocalStep ==
  ASSUME IInv, NEW a \in Runners, NEW STATE job,
         run' = [run EXCEPT ![a] = job], job \in Job \cup {Idle},
         logs' = logs, now' = now,
         inbox' \in [Ids -> Taken \cup {None}],
         \A x \in Ids : inbox[x] # None => inbox'[x] # None,
         JobInv(a)'
  PROVE  IInv'
<1>1. TypeOK'
  BY DEF IInv, TypeOK
<1>2. ASSUME NEW b \in Runners PROVE JobInv(b)'
  <2>1. CASE b = a
    BY <2>1
  <2>2. CASE b # a
    <3>1. run'[b] = run[b] /\ JobInv(b)
      BY <2>2 DEF IInv, TypeOK
    <3>2. QED
      BY <3>1 DEF JobInv, Seen, Blocks, Counts
  <2>3. QED
    BY <2>1, <2>2
<1>3. NoticesBlockedOnlyByDelivery'
  BY DEF IInv, NoticesBlockedOnlyByDelivery, Counts
<1>4. QED
  BY <1>1, <1>2, <1>3 DEF IInv

(***************************************************************************)
(* The steps of a job                                                      *)
(***************************************************************************)
LEMMA StartStep ==
  ASSUME IInv, NEW a \in Runners, NEW name \in {"workflows", "reminders"}, Start(a, name)
  PROVE  IInv'
<1> DEFINE job == [step |-> "ready", name |-> name, today |-> LocalDay(now), began |-> now,
                   todo |-> {m \in JobMails(name) : LocalHour(now) \in Hours[m]},
                   mail |-> None, id |-> None, own |-> NoRows]
<1>1. now \in Nat /\ LocalDay(now) \in Nat
  <2>1. now \in Nat
    BY DEF IInv, TypeOK
  <2>2. now + Offset \in Nat /\ DayLength \in Nat \ {0}
    BY <2>1
  <2>3. QED
    BY <2>1, <2>2, SMT DEF LocalDay
<1>2. job.todo \subseteq Mails
  BY JobMailsOfName
<1>3. job \in Job
  BY <1>1, <1>2, NoRowsTable DEF Job
<1>4. run' = [run EXCEPT ![a] = job] /\ run'[a] = job
  BY DEF Start, IInv, TypeOK
<1>5. JobInv(a)'
  <2>1. \A x \in Ids : job.own[x] = None
    BY DEF NoRows
  <2>2. job.todo \subseteq JobMails(job.name) /\ job.step = "ready"
    OBVIOUS
  <2> HIDE DEF job
  <2>3. QED
    BY <1>4, <2>1, <2>2 DEF JobInv
<1> HIDE DEF job
<1>6. QED
  BY <1>3, <1>4, <1>5, LocalStep DEF Start, IInv, TypeOK

LEMMA CheckStep ==
  ASSUME IInv, NEW a \in Runners, NEW m \in Mails, Check(a, m) \/ Skip(a, m)
  PROVE  IInv'
<1>1. TypeOK /\ JobInv(a) /\ run[a].step = "ready" /\ m \in run[a].todo
  BY DEF IInv, Check, Skip
<1>2. /\ run[a] # Idle /\ run[a] \in Job
      /\ run[a].own \in Table /\ run[a].todo \subseteq Mails
      /\ run[a].name \in {"workflows", "reminders"}
  BY <1>1, JobFields
<1>3. CASE run' = [run EXCEPT ![a].todo = @ \ {m}]
  <2> DEFINE job == [run[a] EXCEPT !.todo = @ \ {m}]
  <2>1. /\ job \in Job /\ job.step = "ready" /\ job.name = run[a].name
        /\ job.own = run[a].own /\ job.todo \subseteq run[a].todo
    BY <1>1, <1>2 DEF Job
  <2>2. run' = [run EXCEPT ![a] = job] /\ run'[a] = job
    BY <1>1, <1>3 DEF TypeOK
  <2>3. logs' = logs /\ now' = now /\ inbox' = inbox
    BY DEF Check, Skip
  <2> HIDE DEF job
  <2>4. JobInv(a)'
    BY <1>1, <1>2, <2>1, <2>2, <2>3 DEF JobInv, Blocks, Counts
  <2>5. QED
    BY <1>1, <2>1, <2>2, <2>3, <2>4, LocalStep DEF TypeOK
<1>4. CASE run' = [run EXCEPT ![a].step = "clear", ![a].mail = m,
                              ![a].began = IF @ = None THEN now ELSE @]
  <2> DEFINE job == [run[a] EXCEPT !.step = "clear", !.mail = m,
                                   !.began = IF @ = None THEN now ELSE @]
  <2>1. now \in Nat
    BY <1>1 DEF TypeOK
  <2>2. /\ job \in Job /\ job.step = "clear" /\ job.name = run[a].name
        /\ job.own = run[a].own /\ job.todo = run[a].todo
        /\ job.mail = m /\ job.began # None
    BY <1>1, <1>2, <2>1 DEF Job
  <2>3. run' = [run EXCEPT ![a] = job] /\ run'[a] = job
    BY <1>1, <1>4 DEF TypeOK
  <2>4. logs' = logs /\ now' = now /\ inbox' = inbox
    BY DEF Check, Skip
  <2> HIDE DEF job
  <2>5. JobInv(a)'
    BY <1>1, <1>2, <2>2, <2>3, <2>4 DEF JobInv, Blocks, Counts
  <2>6. QED
    BY <1>1, <2>2, <2>3, <2>4, <2>5, LocalStep DEF TypeOK
<1>5. QED
  BY <1>3, <1>4 DEF Check, Skip

LEMMA RecordStep ==
  ASSUME IInv, NEW a \in Runners, NEW x \in Ids, Record(a, x)
  PROVE  IInv'
<1> DEFINE row == [mail |-> run[a].mail, status |-> "pending", created |-> run[a].began]
<1>1. TypeOK /\ JobInv(a) /\ run[a].step = "clear" /\ logs[x] = None
  BY DEF IInv, Record, Fresh
<1>2. /\ run[a] # Idle /\ run[a] \in Job
      /\ run[a].own \in Table /\ run[a].todo \subseteq Mails
      /\ run[a].name \in {"workflows", "reminders"}
  BY <1>1, JobFields
<1>3. /\ run[a].mail \in JobMails(run[a].name) /\ run[a].mail \in Mails
      /\ run[a].began \in Nat
  BY <1>1, <1>2, JobMailsOfName DEF JobInv, Job
<1>4. row \in Row /\ row # None
  BY <1>3 DEF Row
<1>5. CASE run[a].name = "reminders"
  <2> DEFINE job == [run[a] EXCEPT !.step = "recorded", !.id = x, !.began = None]
  <2>1. logs' = [logs EXCEPT ![x] = row] /\ inbox' = inbox /\ now' = now
    BY <1>5 DEF Record
  <2>2. /\ job \in Job /\ job.step = "recorded" /\ job.name = run[a].name
        /\ job.own = run[a].own /\ job.todo = run[a].todo
        /\ job.mail = run[a].mail /\ job.id = x
    BY <1>1, <1>2, <1>3 DEF Job
  <2>3. run' = [run EXCEPT ![a] = job] /\ run'[a] = job
    BY <1>1, <1>5 DEF Record, TypeOK
  <2>4. row.mail \notin Notices
    BY <1>3, <1>5 DEF JobMails
  <2>5. logs' \in Table /\ logs'[x] = row /\ \A y \in Ids \ {x} : logs'[y] = logs[y]
    BY <1>1, <1>4, <2>1 DEF TypeOK, Table
  <2> HIDE DEF row, job
  <2>6. TypeOK'
    BY <1>1, <2>1, <2>2, <2>3, <2>5 DEF TypeOK
  <2>7. \A y \in Ids : logs[y] # None => logs'[y] # None
    BY <1>1, <2>5
  <2>8. ASSUME NEW b \in Runners PROVE JobInv(b)'
    <3>1. CASE b = a
      <4>1. Seen(a, x)' # None
        BY <1>4, <2>3, <2>5 DEF Seen
      <4>2. QED
        BY <1>1, <1>2, <1>3, <2>1, <2>2, <2>3, <3>1, <4>1 DEF JobInv, Blocks, Counts
    <3>2. CASE b # a
      <4>1. run'[b] = run[b] /\ JobInv(b)
        BY <2>3, <3>2 DEF IInv, TypeOK
      <4>2. run[b] # Idle /\ run[b].step = "recorded" => Seen(b, run[b].id)' # None
        BY <2>7, <4>1 DEF JobInv, Seen
      <4>3. QED
        BY <2>1, <4>1, <4>2 DEF JobInv, Blocks, Counts
    <3>3. QED
      BY <3>1, <3>2
  <2>9. NoticesBlockedOnlyByDelivery'
    BY <2>1, <2>4, <2>5 DEF IInv, NoticesBlockedOnlyByDelivery, Counts
  <2>10. QED
    BY <2>6, <2>8, <2>9 DEF IInv
<1>6. CASE run[a].name # "reminders"
  <2> DEFINE job == [run[a] EXCEPT !.step = "recorded", !.id = x,
                                   !.own = [run[a].own EXCEPT ![x] = row]]
  <2>1. [run[a].own EXCEPT ![x] = row] \in Table
    BY <1>2, <1>4 DEF Table
  <2>2. /\ job \in Job /\ job.step = "recorded" /\ job.name = run[a].name
        /\ job.todo = run[a].todo /\ job.mail = run[a].mail /\ job.id = x
        /\ job.own = [run[a].own EXCEPT ![x] = row]
    BY <1>1, <1>2, <1>3, <2>1 DEF Job
  <2>3. run' = [run EXCEPT ![a] = job] /\ run'[a] = job
    <3>1. run' = [run EXCEPT ![a] = job]
      BY <1>6 DEF Record
    <3>2. QED
      BY <1>1, <3>1 DEF TypeOK
  <2>4. logs' = logs /\ now' = now /\ inbox' = inbox
    BY <1>6 DEF Record
  <2>5. job.own[x] = row /\ \A y \in Ids \ {x} : job.own[y] = run[a].own[y]
    BY <1>2, <2>2 DEF Table
  <2> HIDE DEF row, job
  <2>6. Seen(a, x)' # None
    BY <1>4, <2>3, <2>5 DEF Seen
  <2>7. ASSUME NEW y \in Ids, job.own[y] # None, Blocks(job.own[y]), y # x
        PROVE  inbox[y] # None
    <3>1. run[a].own[y] # None /\ Blocks(run[a].own[y])
      BY <2>5, <2>7
    <3>2. QED
      BY <1>1, <1>2, <3>1 DEF JobInv
  <2>8. JobInv(a)'
    <3>1. Seen(a, run[a].id)' # None
      BY <2>2, <2>3, <2>6 DEF Seen
    <3>2. \A y \in Ids : run'[a].own[y] # None /\ Blocks(run'[a].own[y])
                         => inbox'[y] # None \/ run'[a].id = y
      BY <2>2, <2>3, <2>4, <2>7
    <3>3. /\ run'[a].todo \subseteq JobMails(run'[a].name)
          /\ run'[a].mail \in JobMails(run'[a].name)
          /\ run'[a].step = "recorded" /\ run'[a].id \in Ids
      BY <1>1, <1>2, <1>3, <2>2, <2>3 DEF JobInv
    <3>4. QED
      BY <3>1, <3>2, <3>3 DEF JobInv, Blocks, Counts
  <2>9. QED
    BY <1>1, <2>2, <2>3, <2>4, <2>8, LocalStep DEF TypeOK
<1>7. QED
  BY <1>5, <1>6

LEMMA DispatchStep ==
  ASSUME IInv, NEW a \in Runners, NEW taken \in BOOLEAN, NEW reported \in BOOLEAN,
         Dispatch(a, taken, reported)
  PROVE  IInv'
<1>1. TypeOK /\ JobInv(a) /\ run[a].step = "recorded" /\ (reported => taken)
  BY DEF IInv, Dispatch
<1>2. /\ run[a] # Idle /\ run[a] \in Job
      /\ run[a].own \in Table /\ run[a].todo \subseteq Mails
      /\ run[a].name \in {"workflows", "reminders"}
  BY <1>1, JobFields
<1>3. PICK x \in Ids : x = run[a].id
  BY <1>1, <1>2 DEF JobInv
<1>4. PICK row : row = Outcome(Seen(a, x), reported)
  OBVIOUS
<1>5. row \in Row /\ (~reported => row.status = "failed")
  <2>1. Seen(a, x) \in Row
    BY <1>1, <1>2, <1>3, SeenRow DEF JobInv
  <2>2. QED
    BY <1>4, <2>1 DEF Outcome, Row
<1>6. run[a].mail \in Mails
  BY <1>1, <1>2, JobMailsOfName DEF JobInv
<1>7. PICK step \in {"ready", "answered"} :
        step = IF run[a].name = "reminders" THEN "answered" ELSE "ready"
  OBVIOUS
<1> DEFINE job == [run[a] EXCEPT !.step = step, !.todo = @ \ {run[a].mail}, !.mail = None,
                                 !.id = None, !.own = [run[a].own EXCEPT ![x] = row]]
<1>8. [run[a].own EXCEPT ![x] = row] \in Table
  BY <1>2, <1>5 DEF Table
<1>9. /\ job \in Job /\ job.step = step /\ job.name = run[a].name
      /\ job.todo \subseteq run[a].todo /\ job.own = [run[a].own EXCEPT ![x] = row]
  BY <1>2, <1>7, <1>8 DEF Job
<1>10. run' = [run EXCEPT ![a] = job] /\ run'[a] = job
  <2>1. run' = [run EXCEPT ![a] = job]
    BY <1>3, <1>4, <1>7 DEF Dispatch
  <2>2. QED
    BY <1>1, <2>1 DEF TypeOK
<1>11. logs' = logs /\ now' = now
  BY DEF Dispatch
<1>12. PICK late \in BOOLEAN : late = Late(a, Seen(a, x))
  BY DEF Late
<1>13. inbox' = IF ~taken THEN inbox
                ELSE [inbox EXCEPT ![x] = [mail |-> run[a].mail, late |-> late]]
  BY <1>3, <1>12 DEF Dispatch
<1>14. [mail |-> run[a].mail, late |-> late] \in Taken
  BY <1>6 DEF Taken
<1>15. [mail |-> run[a].mail, late |-> late] # None
  BY <1>14 DEF Taken
<1>16. /\ inbox' \in [Ids -> Taken \cup {None}]
       /\ \A y \in Ids : inbox[y] # None => inbox'[y] # None
       /\ taken => inbox'[x] # None
  BY <1>1, <1>13, <1>14, <1>15 DEF TypeOK
<1>17. job.own[x] = row /\ \A y \in Ids \ {x} : job.own[y] = run[a].own[y]
  BY <1>2, <1>9 DEF Table
<1> HIDE DEF job
<1>18. ASSUME NEW y \in Ids, job.own[y] # None, Blocks(job.own[y])
       PROVE  inbox'[y] # None
  <2>1. CASE y = x
    <3>1. row.mail \in Notices /\ row.status # "failed"
      BY <1>17, <1>18, <2>1 DEF Blocks, Counts
    <3>2. QED
      BY <1>1, <1>5, <1>16, <2>1, <3>1
  <2>2. CASE y # x
    <3>1. run[a].own[y] # None /\ Blocks(run[a].own[y])
      BY <1>17, <1>18, <2>2
    <3>2. inbox[y] # None
      BY <1>1, <1>2, <1>3, <2>2, <3>1 DEF JobInv
    <3>3. QED
      BY <1>16, <3>2
  <2>3. QED
    BY <2>1, <2>2
<1>19. JobInv(a)'
  <2>1. run'[a].todo \subseteq JobMails(run'[a].name) /\ run'[a].step \in {"ready", "answered"}
    BY <1>1, <1>2, <1>9, <1>10 DEF JobInv
  <2>2. \A y \in Ids : run'[a].own[y] # None /\ Blocks(run'[a].own[y]) => inbox'[y] # None
    BY <1>10, <1>18
  <2>3. QED
    BY <2>1, <2>2 DEF JobInv, Blocks, Counts
<1>20. QED
  BY <1>9, <1>10, <1>11, <1>16, <1>19, LocalStep

LEMMA CommitStep ==
  ASSUME IInv, NEW a \in Runners, Commit(a)
  PROVE  IInv'
<1>1. TypeOK /\ JobInv(a) /\ run[a].step \in {"answered", "ready"} /\ inbox' = inbox /\ now' = now
  BY DEF IInv, Commit
<1>2. /\ run[a] # Idle /\ run[a] \in Job
      /\ run[a].own \in Table /\ run[a].todo \subseteq Mails
      /\ run[a].name \in {"workflows", "reminders"}
  BY <1>1, JobFields
<1>3. PICK job : job = IF run[a].todo = {} THEN Idle
                       ELSE [run[a] EXCEPT !.step = "ready", !.began = None, !.own = NoRows]
  OBVIOUS
<1>4. run' = [run EXCEPT ![a] = job] /\ run'[a] = job
  <2>1. run' = [run EXCEPT ![a] = job]
    BY <1>3 DEF Commit
  <2>2. QED
    BY <1>1, <2>1 DEF TypeOK
<1>5. /\ job \in Job \cup {Idle}
      /\ job = Idle \/ (/\ job.step = "ready" /\ job.name = run[a].name
                        /\ job.todo = run[a].todo /\ job.own = NoRows)
  BY <1>2, <1>3, NoRowsTable DEF Job
<1>6. logs' = [x \in Ids |-> Seen(a, x)]
  BY DEF Commit
<1>7. logs' \in Table
  <2>1. \A x \in Ids : Seen(a, x) \in Row \cup {None}
    BY <1>1, SeenRow
  <2>2. QED
    BY <1>6, <2>1 DEF Table
<1>8. TypeOK'
  BY <1>1, <1>4, <1>5, <1>7 DEF TypeOK
<1>9. \A x \in Ids : logs[x] # None => logs'[x] # None
  BY <1>6 DEF Seen
<1>10. ASSUME NEW b \in Runners PROVE JobInv(b)'
  <2>1. CASE b = a
    <3>1. \A x \in Ids : NoRows[x] = None
      BY DEF NoRows
    <3>2. run'[a] = Idle \/ (/\ run'[a].step = "ready"
                             /\ run'[a].todo \subseteq JobMails(run'[a].name)
                             /\ \A x \in Ids : run'[a].own[x] = None)
      BY <1>1, <1>2, <1>4, <1>5, <3>1 DEF JobInv
    <3>3. QED
      BY <2>1, <3>2 DEF JobInv
  <2>2. CASE b # a
    <3>1. run'[b] = run[b] /\ JobInv(b)
      BY <1>1, <1>4, <2>2 DEF IInv, TypeOK
    <3>2. run[b] # Idle /\ run[b].step = "recorded" => Seen(b, run[b].id)' # None
      BY <1>9, <3>1 DEF JobInv, Seen
    <3>3. QED
      BY <1>1, <3>1, <3>2 DEF JobInv, Blocks, Counts
  <2>3. QED
    BY <2>1, <2>2
<1>11. NoticesBlockedOnlyByDelivery'
  <2> SUFFICES ASSUME NEW x \in Ids, logs'[x] # None, Blocks(logs'[x]) PROVE inbox'[x] # None
    BY DEF NoticesBlockedOnlyByDelivery, Blocks, Counts
  <2>1. CASE run[a].own[x] # None
    <3>1. Blocks(run[a].own[x])
      BY <1>6, <2>1 DEF Seen
    <3>2. QED
      BY <1>1, <1>2, <2>1, <3>1 DEF JobInv
  <2>2. CASE run[a].own[x] = None
    <3>1. logs'[x] = logs[x]
      BY <1>6, <2>2 DEF Seen
    <3>2. QED
      BY <1>1, <3>1 DEF IInv, NoticesBlockedOnlyByDelivery, Blocks
  <2>3. QED
    BY <2>1, <2>2
<1>12. QED
  BY <1>8, <1>10, <1>11 DEF IInv

LEMMA CrashStep ==
  ASSUME IInv, NEW a \in Runners, Crash(a)
  PROVE  IInv'
<1>1. run' = [run EXCEPT ![a] = Idle] /\ run'[a] = Idle
  BY DEF Crash, IInv, TypeOK
<1>2. JobInv(a)'
  BY <1>1 DEF JobInv
<1>3. QED
  BY <1>1, <1>2, LocalStep DEF Crash, IInv, TypeOK

LEMMA QuietStep == IInv /\ (Tick \/ UNCHANGED vars) => IInv'
<1> SUFFICES ASSUME IInv, Tick \/ UNCHANGED vars PROVE IInv'
  OBVIOUS
<1>1. UNCHANGED <<logs, inbox, run>> /\ now' \in 0 .. MaxTime
  BY DEF Tick, vars, IInv, TypeOK
<1>2. TypeOK'
  BY <1>1 DEF IInv, TypeOK
<1>3. \A a \in Runners : JobInv(a)'
  BY <1>1 DEF IInv, JobInv, Seen, Blocks, Counts
<1>4. NoticesBlockedOnlyByDelivery'
  BY <1>1 DEF IInv, NoticesBlockedOnlyByDelivery, Counts
<1>5. QED
  BY <1>2, <1>3, <1>4 DEF IInv

LEMMA NextIInv == IInv /\ [Next]_vars => IInv'
  BY QuietStep, StartStep, CheckStep, RecordStep, DispatchStep, CommitStep, CrashStep
  DEF Next

\* Every variable always has its type, whatever the constants are.
THEOREM TypeCorrect == Spec => []TypeOK
<1>1. IInv => TypeOK
  BY DEF IInv
<1>2. QED
  BY <1>1, InitIInv, NextIInv, PTL DEF Spec

\* However many runners overlap, with or without a lock, and wherever they crash: what
\* keeps a notice from being sent again is a delivery, not an attempt.
THEOREM NoticesBlockedOnlyByDeliveryHolds == Spec => []NoticesBlockedOnlyByDelivery
<1>1. IInv => NoticesBlockedOnlyByDelivery
  BY DEF IInv
<1>2. QED
  BY <1>1, InitIInv, NextIInv, PTL DEF Spec

(***************************************************************************)
(* One mail a day, with the loops alone                                    *)
(***************************************************************************)
\* No Celery worker runs the jobs, so that all runners share the lock.
LoopsOnly == Workers = {}

\* Reminders are due at local hours that belong to the same day in UTC.
RemindersByDay == \A m \in Reminders : \A h \in Hours[m] : h >= Offset

OneJob == \A a, b \in Runners : run[a] # Idle /\ run[b] # Idle => a = b

\* The rows as the transaction of runner a sees them.
View(a) == [x \in Ids |-> Seen(a, x)]

SameDay(row, other) ==
  IF row.mail \in Notices THEN UtcDay(row.created) = UtcDay(other.created)
                          ELSE LocalDay(row.created) = LocalDay(other.created)

BeforeDay(row) == row.mail \notin Notices /\ row.created < DayLength * LocalDay(row.created)

\* x is a row of a mail that was taken and is not known to have failed.
Standing(table, box, x) == table[x] # None /\ box[x] # None /\ table[x].status # "failed"

\* The three facts about a table of rows that make it free of duplicates.
Apart(table, box) ==
  \A x, y \in Ids :
    /\ Standing(table, box, x) /\ Standing(table, box, y)
    /\ table[x].mail = table[y].mail /\ SameDay(table[x], table[y])
    => x = y \/ box[x].late \/ box[y].late \/ BeforeDay(table[x]) \/ BeforeDay(table[y])

SentIsTaken(table, box) ==
  \A x \in Ids : table[x] # None /\ table[x].status = "sent" => box[x] # None

RemindersInDay(table, box) ==
  RemindersByDay => \A x \in Ids :
    table[x] # None /\ table[x].mail \in Reminders /\ box[x] # None
    => box[x].late \/ ~BeforeDay(table[x])

Orderly(table, box) ==
  Apart(table, box) /\ SentIsTaken(table, box) /\ RemindersInDay(table, box)

\* None of these rows keeps the mail at hand from being sent.
Unblocked(a, others) ==
  \A x \in others :
    Seen(a, x) # None /\ Seen(a, x).mail = run[a].mail /\ Counts(Seen(a, x))
    => Seen(a, x).created < DayStart(a, run[a].mail)

Onward(a) ==
  run[a] # Idle =>
    /\ run[a].step # "answered" => \A x \in Ids : run[a].own[x] = None \/ logs[x] = None
    /\ run[a].step \in {"clear", "recorded"} => run[a].mail \in run[a].todo
    /\ run[a].step = "clear" => Unblocked(a, Ids)
    /\ run[a].step = "recorded" =>
         /\ Unblocked(a, Ids \ {run[a].id}) /\ Seen(a, run[a].id).mail = run[a].mail
         /\ inbox[run[a].id] = None
         /\ run[a].name = "workflows" => logs[run[a].id] = None
    /\ RemindersByDay /\ run[a].name = "reminders" /\ run[a].todo # {} =>
         /\ DayLength * run[a].today <= now
         /\ run[a].began # None => DayLength * run[a].today <= run[a].began
         /\ run[a].step = "recorded" => DayLength * run[a].today <= Seen(a, run[a].id).created

MailInv ==
  /\ OneJob
  /\ Orderly(logs, inbox)
  /\ \A a \in Runners : Onward(a)
  /\ \A a \in Runners : run[a] # Idle => Orderly(View(a), inbox)

LEMMA DayBegins ==
  ASSUME NEW t \in Nat
  PROVE  UtcDay(t) \in Nat /\ LocalDay(t) \in Nat /\ DayLength * UtcDay(t) <= t
<1>1. DayLength \in Nat \ {0} /\ t + Offset \in Nat
  OBVIOUS
<1>2. UtcDay(t) \in Nat /\ LocalDay(t) \in Nat
  BY <1>1, SMT DEF UtcDay, LocalDay
<1>3. DayLength * (t \div DayLength) <= t
  BY <1>1, SMT
<1>4. QED
  BY <1>2, <1>3 DEF UtcDay

LEMMA DaysGoOn ==
  ASSUME NEW t \in Nat
  PROVE  DayLength * UtcDay(t) <= DayLength * UtcDay(t + 1)
<1>1. DayLength \in Nat \ {0}
  OBVIOUS
<1>2. t \div DayLength <= (t + 1) \div DayLength
  BY <1>1, SMT
<1>3. t \div DayLength \in Nat /\ (t + 1) \div DayLength \in Nat
  BY <1>1, SMT
<1>4. \A i, j \in Nat : i <= j => DayLength * i <= DayLength * j
  BY <1>1, SMT
<1>5. QED
  BY <1>2, <1>3, <1>4 DEF UtcDay

LEMMA InTheDay ==
  ASSUME NEW t \in Nat, LocalHour(t) >= Offset
  PROVE  DayLength * LocalDay(t) <= t
<1>1. DayLength \in Nat \ {0} /\ t + Offset \in Nat
  OBVIOUS
<1>9. \A s \in Nat : DayLength * (s \div DayLength) + (s % DayLength) = s
  BY <1>1, SMT
<1>2. DayLength * ((t + Offset) \div DayLength) + ((t + Offset) % DayLength) = t + Offset
  BY <1>1, <1>9
<1>3. (t + Offset) \div DayLength \in Nat /\ (t + Offset) % DayLength \in Nat
  BY <1>1, SMT
<1>4. PICK d \in Nat : d = (t + Offset) \div DayLength
  BY <1>3
<1>5. PICK p \in Nat : p = DayLength * d
  BY <1>1, SMT
<1>6. p + ((t + Offset) % DayLength) = t + Offset
  BY <1>2, <1>4, <1>5
<1>7. p <= t
  BY <1>3, <1>6 DEF LocalHour
<1>8. QED
  BY <1>4, <1>5, <1>7 DEF LocalDay

(***************************************************************************)
(* Tables of rows                                                          *)
(***************************************************************************)
LEMMA InitMailInv == Init => MailInv
  BY DEF Init, NoRows, MailInv, OneJob, Orderly, Apart, Standing, SentIsTaken, RemindersInDay, Onward

\* A row that nobody has taken yet disturbs nothing.
LEMMA NewRow ==
  ASSUME NEW table, NEW next, NEW box, NEW y \in Ids, Orderly(table, box),
         box[y] = None, next[y].status # "sent",
         \A x \in Ids \ {y} : next[x] = table[x]
  PROVE  Orderly(next, box)
<1>1. Apart(next, box)
  BY DEF Orderly, Apart, Standing
<1>2. SentIsTaken(next, box) /\ RemindersInDay(next, box)
  BY DEF Orderly, SentIsTaken, RemindersInDay
<1>3. QED
  BY <1>1, <1>2 DEF Orderly

LEMMA SameDayIsSymmetric ==
  ASSUME NEW row, NEW other, row.mail = other.mail
  PROVE  SameDay(row, other) <=> SameDay(other, row)
  BY DEF SameDay

\* Row y gets its outcome.
LEMMA AnsweredRow ==
  ASSUME NEW table, NEW next, NEW box, NEW after, NEW y \in Ids, Orderly(table, box),
         next[y] # None,
         next[y].status = "sent" => after[y] # None,
         \A x \in Ids \ {y} : next[x] = table[x] /\ after[x] = box[x],
         \A x \in Ids \ {y} :
           /\ after[y] # None
           /\ Standing(table, box, x) /\ table[x].mail = next[y].mail
           /\ SameDay(table[x], next[y])
           => after[y].late \/ BeforeDay(table[x]),
         RemindersByDay /\ next[y].mail \in Reminders
           => after[y] = None \/ after[y].late \/ ~BeforeDay(next[y])
  PROVE  Orderly(next, after)
<1>1. \A x \in Ids \ {y} : Standing(next, after, x) <=> Standing(table, box, x)
  BY DEF Standing
<1>2. Apart(next, after)
  <2> SUFFICES ASSUME NEW x \in Ids, NEW z \in Ids, x # z,
                      Standing(next, after, x), Standing(next, after, z),
                      next[x].mail = next[z].mail, SameDay(next[x], next[z])
               PROVE  after[x].late \/ after[z].late \/ BeforeDay(next[x]) \/ BeforeDay(next[z])
    BY DEF Apart
  <2>1. CASE x # y /\ z # y
    BY <1>1, <2>1 DEF Orderly, Apart
  <2>2. CASE z = y
    BY <1>1, <2>2 DEF Standing
  <2>3. CASE x = y
    <3>1. SameDay(next[z], next[x])
      BY SameDayIsSymmetric
    <3>2. QED
      BY <1>1, <2>3, <3>1 DEF Standing
  <2>4. QED
    BY <2>1, <2>2, <2>3
<1>3. SentIsTaken(next, after)
  BY DEF Orderly, SentIsTaken
<1>4. RemindersInDay(next, after)
  BY DEF Orderly, RemindersInDay
<1>5. QED
  BY <1>2, <1>3, <1>4 DEF Orderly

\* When a runner has made a step, the others are idle.
LEMMA AloneStep ==
  ASSUME IInv, MailInv, LoopsOnly, NEW a \in Runners, NEW STATE job,
         run' = [run EXCEPT ![a] = job],
         run[a] # Idle \/ LockFree(a),
         Orderly(logs', inbox'), Onward(a)', run'[a] # Idle => Orderly(View(a)', inbox')
  PROVE  MailInv'
<1>1. \A b \in Runners \ {a} : run'[b] = Idle
  <2>1. \A b \in Runners \ {a} : run'[b] = run[b]
    BY DEF IInv, TypeOK
  <2>2. a \in Loops /\ Runners = Loops
    BY DEF LoopsOnly, Runners
  <2>3. \A b \in Runners \ {a} : run[b] = Idle
    BY <2>2 DEF MailInv, OneJob, LockFree
  <2>4. QED
    BY <2>1, <2>3
<1>2. OneJob'
  BY <1>1 DEF OneJob
<1>3. \A b \in Runners : Onward(b)'
  <2>1. \A b \in Runners \ {a} : Onward(b)'
    BY <1>1 DEF Onward
  <2>2. QED
    BY <2>1
<1>4. ASSUME NEW b \in Runners, run'[b] # Idle
      PROVE  Orderly(View(b)', inbox')
  BY <1>1, <1>4
<1>5. QED
  BY <1>2, <1>3, <1>4 DEF MailInv

(***************************************************************************)
(* The steps of a job on its own                                           *)
(***************************************************************************)
LEMMA MailQuiet ==
  ASSUME IInv, MailInv, Tick \/ UNCHANGED vars
  PROVE  MailInv'
<1>1. UNCHANGED <<logs, inbox, run>> /\ (now' = now \/ now' = now + 1) /\ now \in Nat
  BY DEF Tick, vars, IInv, TypeOK
<1>2. \A a \in Runners : View(a)' = View(a)
  BY <1>1 DEF View, Seen
<1>3. ASSUME NEW a \in Runners, run[a] # Idle
      PROVE  Onward(a)'
  <2>1. Onward(a) /\ now <= now' /\ TypeOK
    BY <1>1 DEF MailInv, IInv
  <2>2. CASE run[a].step \in {"clear", "recorded"}
    <3>1. /\ run[a] \in Job /\ run[a].today \in Nat
          /\ \A x \in Ids : Seen(a, x) \in Row \cup {None}
      BY <2>1, <2>2, JobFields, SeenRow DEF Job
    <3>2. DayLength * UtcDay(now) <= DayLength * UtcDay(now')
      <4>1. UtcDay(now) \in Nat
        BY <1>1, DayBegins
      <4>2. CASE now' = now
        BY <4>1, <4>2
      <4>3. CASE now' = now + 1
        BY <1>1, <4>3, DaysGoOn
      <4>4. QED
        BY <1>1, <4>2, <4>3
    <3>3. \A m \in Mails : /\ DayStart(a, m) \in Int /\ DayStart(a, m)' \in Int
                           /\ DayStart(a, m) <= DayStart(a, m)'
      <4>1. UtcDay(now) \in Nat /\ UtcDay(now') \in Nat
        BY <1>1, DayBegins
      <4>2. \A m \in Mails :
              \/ DayStart(a, m) = DayLength * UtcDay(now)
                   /\ DayStart(a, m)' = DayLength * UtcDay(now')
              \/ DayStart(a, m) = DayLength * run[a].today /\ DayStart(a, m)' = DayStart(a, m)
        BY <1>1 DEF DayStart, UtcDay
      <4>3. \A i \in Nat : DayLength * i \in Int
        OBVIOUS
      <4>4. QED
        BY <3>1, <3>2, <4>1, <4>2, <4>3
    <3>4. run[a].mail \in Mails
      BY <1>3, <2>1, <2>2, JobFields DEF Onward
    <3>5. ASSUME NEW others \in SUBSET Ids, Unblocked(a, others)
          PROVE  Unblocked(a, others)'
      <4> SUFFICES ASSUME NEW x \in others, Seen(a, x) # None,
                          Seen(a, x).mail = run[a].mail, Counts(Seen(a, x))
                   PROVE  Seen(a, x).created < DayStart(a, run[a].mail)'
        BY <1>1 DEF Unblocked, Seen, Counts, DayStart
      <4>1. Seen(a, x).created < DayStart(a, run[a].mail) /\ Seen(a, x).created \in Nat
        BY <3>1, <3>5 DEF Unblocked, Row
      <4>2. PICK m \in Mails : m = run[a].mail
        BY <3>4
      <4>3. DayStart(a, run[a].mail)' = DayStart(a, m)'
        BY <1>1, <4>2 DEF DayStart
      <4>4. QED
        BY <3>3, <4>1, <4>2, <4>3
    <3>6. run[a].step = "clear" => Unblocked(a, Ids)'
      BY <1>3, <2>1, <3>5 DEF Onward
    <3>7. run[a].step = "recorded" => Unblocked(a, Ids \ {run[a].id})'
      <4>1. PICK others \in SUBSET Ids : others = Ids \ {run[a].id}
        OBVIOUS
      <4>2. run[a].step = "recorded" => Unblocked(a, others)'
        BY <1>3, <2>1, <3>5, <4>1 DEF Onward
      <4>3. QED
        BY <1>1, <4>1, <4>2 DEF Unblocked
    <3>8. DayLength * run[a].today \in Int
      BY <3>1
    <3>9. DayLength * run[a].today <= now => DayLength * run[a].today <= now'
      BY <1>1, <3>8
    <3>10. QED
      BY <1>1, <1>3, <2>1, <3>6, <3>7, <3>9 DEF Onward, Seen
  <2>3. CASE run[a].step \notin {"clear", "recorded"}
    <3>1. CASE run[a].step = "idle"
      <4>1. run[a] \notin Job /\ Job = Job
        BY <3>1 DEF Job
      <4>2. QED
        BY <1>3, <2>1, <4>1 DEF TypeOK
    <3>2. CASE run[a].step # "idle"
      <4>1. run[a].today \in Nat
        BY <2>1, <3>2, JobFields DEF Job
      <4>2. DayLength * run[a].today \in Int
        BY <4>1
      <4>3. DayLength * run[a].today <= now => DayLength * run[a].today <= now'
        BY <1>1, <4>2
      <4>4. QED
        BY <1>1, <1>3, <2>1, <2>3, <4>3 DEF Onward, Seen
    <3>3. QED
      BY <3>1, <3>2
  <2>4. QED
    BY <2>2, <2>3
<1>4. \A a \in Runners : Onward(a)'
  BY <1>1, <1>3 DEF Onward
<1>5. QED
  BY <1>1, <1>2, <1>4 DEF MailInv, OneJob

LEMMA MailStart ==
  ASSUME IInv, MailInv, LoopsOnly,
         NEW a \in Runners, NEW name \in {"workflows", "reminders"}, Start(a, name)
  PROVE  MailInv'
<1> DEFINE job == [step |-> "ready", name |-> name, today |-> LocalDay(now), began |-> now,
                   todo |-> {m \in JobMails(name) : LocalHour(now) \in Hours[m]},
                   mail |-> None, id |-> None, own |-> NoRows]
<1>1. /\ run' = [run EXCEPT ![a] = job] /\ run'[a] = job /\ LockFree(a)
      /\ logs' = logs /\ inbox' = inbox /\ now' = now /\ now \in Nat
  BY DEF Start, IInv, TypeOK
<1>2. /\ job.step = "ready" /\ job.name = name /\ job.today = LocalDay(now) /\ job.began = now
      /\ job.todo = {m \in JobMails(name) : LocalHour(now) \in Hours[m]}
      /\ \A x \in Ids : job.own[x] = None
  BY DEF NoRows
<1>3. ASSUME RemindersByDay, name = "reminders", job.todo # {}
      PROVE  DayLength * job.today <= now
  <2>1. PICK m \in Reminders : LocalHour(now) \in Hours[m]
    BY <1>2, <1>3 DEF JobMails
  <2>2. LocalHour(now) >= Offset
    BY <1>3, <2>1 DEF RemindersByDay
  <2>3. QED
    BY <1>1, <1>2, <2>2, InTheDay
<1> HIDE DEF job
<1>4. Onward(a)'
  BY <1>1, <1>2, <1>3 DEF Onward
<1>5. Orderly(View(a)', inbox')
  <2>1. \A x \in Ids : View(a)'[x] = logs[x]
    BY <1>1, <1>2 DEF View, Seen
  <2>2. QED
    BY <1>1, <2>1 DEF MailInv, Orderly, Apart, Standing, SentIsTaken, RemindersInDay
<1>6. QED
  BY <1>1, <1>4, <1>5, AloneStep DEF MailInv

\* Looking at a mail, or leaving it out, or dying: no row changes.
LEMMA MailCheck ==
  ASSUME IInv, MailInv, LoopsOnly, NEW a \in Runners, NEW m \in Mails, Check(a, m) \/ Skip(a, m)
  PROVE  MailInv'
<1>1. /\ TypeOK /\ Onward(a) /\ run[a].step = "ready" /\ m \in run[a].todo
      /\ logs' = logs /\ inbox' = inbox /\ now' = now /\ now \in Nat
  BY DEF IInv, MailInv, Check, Skip, TypeOK
<1>2. run[a] # Idle /\ run[a] \in Job
  BY <1>1, JobFields
<1>3. PICK job : /\ run' = [run EXCEPT ![a] = job] /\ run'[a] = job
                 /\ job.own = run[a].own /\ job.name = run[a].name /\ job.today = run[a].today
                 /\ \/ /\ job.step = "ready" /\ job.todo = run[a].todo \ {m}
                       /\ job.began = run[a].began
                    \/ /\ job.step = "clear" /\ job.mail = m /\ job.todo = run[a].todo
                       /\ job.began = IF run[a].began = None THEN now ELSE run[a].began
                       /\ ~AlreadySent(a, m)
  <2>1. CASE run' = [run EXCEPT ![a].todo = @ \ {m}]
    <3> DEFINE job == [run[a] EXCEPT !.todo = @ \ {m}]
    <3>1. run' = [run EXCEPT ![a] = job] /\ run'[a] = job
      BY <1>1, <2>1 DEF TypeOK
    <3>2. /\ job.own = run[a].own /\ job.name = run[a].name /\ job.today = run[a].today
          /\ job.step = "ready" /\ job.todo = run[a].todo \ {m} /\ job.began = run[a].began
      BY <1>1, <1>2 DEF Job
    <3> HIDE DEF job
    <3>3. QED
      BY <3>1, <3>2
  <2>2. CASE /\ run' = [run EXCEPT ![a].step = "clear", ![a].mail = m,
                                   ![a].began = IF @ = None THEN now ELSE @]
             /\ ~AlreadySent(a, m)
    <3> DEFINE job == [run[a] EXCEPT !.step = "clear", !.mail = m,
                                     !.began = IF @ = None THEN now ELSE @]
    <3>1. run' = [run EXCEPT ![a] = job] /\ run'[a] = job
      BY <1>1, <2>2 DEF TypeOK
    <3>2. /\ job.own = run[a].own /\ job.name = run[a].name /\ job.today = run[a].today
          /\ job.step = "clear" /\ job.mail = m /\ job.todo = run[a].todo
          /\ job.began = IF run[a].began = None THEN now ELSE run[a].began
      BY <1>1, <1>2 DEF Job
    <3> HIDE DEF job
    <3>3. QED
      BY <2>2, <3>1, <3>2
  <2>3. QED
    BY <2>1, <2>2 DEF Check, Skip
<1>4. \A x \in Ids : Seen(a, x)' = Seen(a, x)
  BY <1>1, <1>3 DEF Seen
<1>5. job.step = "clear" => Unblocked(a, Ids)'
  <2> SUFFICES ASSUME job.step = "clear", NEW x \in Ids, Seen(a, x) # None,
                      Seen(a, x).mail = m, Counts(Seen(a, x))
               PROVE  Seen(a, x).created < DayStart(a, m)
    <3>1. job.step = "clear" => DayStart(a, run[a].mail)' = DayStart(a, m)
      BY <1>1, <1>3 DEF DayStart
    <3>2. QED
      BY <1>1, <1>3, <1>4, <3>1 DEF Unblocked, Seen, Counts
  <2>1. ~(Seen(a, x).created >= DayStart(a, m))
    BY <1>3 DEF AlreadySent
  <2>2. Seen(a, x).created \in Nat
    BY <1>1, SeenRow DEF Row
  <2>3. DayStart(a, m) \in Int
    <3>1. UtcDay(now) \in Nat /\ run[a].today \in Nat
      BY <1>1, <1>2, DayBegins DEF Job
    <3>2. \A i \in Nat : DayLength * i \in Int
      OBVIOUS
    <3>3. QED
      BY <3>1, <3>2 DEF DayStart
  <2>4. QED
    BY <2>1, <2>2, <2>3
<1>6. RemindersByDay /\ run[a].name = "reminders" =>
        /\ DayLength * run[a].today <= now
        /\ run[a].began # None => DayLength * run[a].today <= run[a].began
  BY <1>1, <1>2 DEF Onward
<1>7. Onward(a)'
  <2>1. \A x \in Ids : job.own[x] = None \/ logs[x] = None
    BY <1>1, <1>2, <1>3 DEF Onward
  <2>2. job.step \in {"clear", "recorded"} => job.mail \in job.todo
    BY <1>1, <1>3
  <2>3. RemindersByDay /\ job.name = "reminders" =>
          /\ DayLength * job.today <= now
          /\ job.began # None => DayLength * job.today <= job.began
    BY <1>3, <1>6
  <2>4. job.step # "recorded"
    BY <1>3
  <2>5. QED
    BY <1>1, <1>3, <1>5, <2>1, <2>2, <2>3, <2>4 DEF Onward
<1>8. Orderly(View(a)', inbox')
  <2>1. View(a)' = View(a)
    BY <1>4 DEF View
  <2>2. QED
    BY <1>1, <1>2, <2>1 DEF MailInv
<1>9. QED
  BY <1>1, <1>2, <1>3, <1>7, <1>8, AloneStep DEF MailInv

LEMMA MailCrash ==
  ASSUME IInv, MailInv, LoopsOnly, NEW a \in Runners, Crash(a)
  PROVE  MailInv'
<1>1. /\ run' = [run EXCEPT ![a] = Idle] /\ run'[a] = Idle /\ run[a] # Idle
      /\ logs' = logs /\ inbox' = inbox
  BY DEF Crash, IInv, TypeOK
<1>2. Onward(a)'
  BY <1>1 DEF Onward
<1>3. QED
  BY <1>1, <1>2, AloneStep DEF MailInv

(***************************************************************************)
(* The steps of a job that write rows                                      *)
(***************************************************************************)
LEMMA MailRecord ==
  ASSUME IInv, MailInv, LoopsOnly, NEW a \in Runners, NEW y \in Ids, Record(a, y)
  PROVE  MailInv'
<1> DEFINE row == [mail |-> run[a].mail, status |-> "pending", created |-> run[a].began]
<1>1. /\ TypeOK /\ JobInv(a) /\ Onward(a) /\ run[a].step = "clear"
      /\ inbox' = inbox /\ now' = now /\ logs[y] = None /\ inbox[y] = None
  BY DEF IInv, MailInv, Record, Fresh
<1>2. /\ run[a] # Idle /\ run[a] \in Job /\ run[a].own \in Table
      /\ run[a].name \in {"workflows", "reminders"} /\ run[a].own[y] = None
  BY <1>1, JobFields DEF Record, Fresh
<1>3. run[a].mail \in Mails /\ run[a].began \in Nat
  BY <1>1, <1>2, JobMailsOfName DEF JobInv, Job
<1>4. row \in Row /\ row # None /\ row.mail = run[a].mail
      /\ row.status = "pending" /\ row.created = run[a].began
  BY <1>3 DEF Row
<1>5. /\ run[a].mail \in run[a].todo /\ Unblocked(a, Ids)
      /\ \A x \in Ids : run[a].own[x] = None \/ logs[x] = None
      /\ RemindersByDay /\ run[a].name = "reminders" =>
           DayLength * run[a].today <= now /\ DayLength * run[a].today <= run[a].began
  BY <1>1, <1>2, <1>3 DEF Onward
<1>6. PICK job : /\ run' = [run EXCEPT ![a] = job] /\ run'[a] = job
                 /\ job.step = "recorded" /\ job.id = y /\ job.mail = run[a].mail
                 /\ job.name = run[a].name /\ job.today = run[a].today
                 /\ job.todo = run[a].todo
                 /\ \/ /\ job.own = run[a].own /\ logs' = [logs EXCEPT ![y] = row]
                       /\ job.began = None /\ job.name = "reminders"
                    \/ /\ job.own = [run[a].own EXCEPT ![y] = row] /\ logs' = logs
                       /\ job.began = run[a].began /\ job.name # "reminders"
  <2> HIDE DEF row
  <2>1. CASE run[a].name = "reminders"
    <3> DEFINE job == [run[a] EXCEPT !.step = "recorded", !.id = y, !.began = None]
    <3>1. run' = [run EXCEPT ![a] = job] /\ run'[a] = job
      BY <1>1, <2>1 DEF Record, TypeOK
    <3>2. /\ job.step = "recorded" /\ job.id = y /\ job.mail = run[a].mail
          /\ job.name = run[a].name /\ job.today = run[a].today /\ job.todo = run[a].todo
          /\ job.own = run[a].own /\ job.began = None
      BY <1>2 DEF Job
    <3>3. logs' = [logs EXCEPT ![y] = row]
      BY <2>1 DEF Record, row
    <3> HIDE DEF job
    <3>4. QED
      BY <2>1, <3>1, <3>2, <3>3
  <2>2. CASE run[a].name # "reminders"
    <3> DEFINE job == [run[a] EXCEPT !.step = "recorded", !.id = y,
                                     !.own = [run[a].own EXCEPT ![y] = row]]
    <3>1. run' = [run EXCEPT ![a] = job] /\ run'[a] = job
      <4>1. run' = [run EXCEPT ![a] = job]
        BY <2>2 DEF Record, row
      <4>2. QED
        BY <1>1, <4>1 DEF TypeOK
    <3>2. /\ job.step = "recorded" /\ job.id = y /\ job.mail = run[a].mail
          /\ job.name = run[a].name /\ job.today = run[a].today /\ job.todo = run[a].todo
          /\ job.own = [run[a].own EXCEPT ![y] = row] /\ job.began = run[a].began
      BY <1>2 DEF Job
    <3>3. logs' = logs
      BY <2>2 DEF Record
    <3> HIDE DEF job
    <3>4. QED
      BY <2>2, <3>1, <3>2, <3>3
  <2>3. QED
    BY <2>1, <2>2
<1> HIDE DEF row
<1>7. /\ Seen(a, y)' = row
      /\ \A x \in Ids \ {y} : Seen(a, x)' = Seen(a, x) /\ logs'[x] = logs[x]
      /\ logs'[y] \in {None, row}
  <2>1. CASE job.own = run[a].own /\ logs' = [logs EXCEPT ![y] = row]
    BY <1>1, <1>2, <1>6, <2>1 DEF Seen, TypeOK, Table
  <2>2. CASE job.own = [run[a].own EXCEPT ![y] = row] /\ logs' = logs
    BY <1>1, <1>2, <1>4, <1>6, <2>2 DEF Seen, TypeOK, Table
  <2>3. QED
    BY <1>6, <2>1, <2>2
<1>8. Onward(a)'
  <2>1. \A x \in Ids : job.own[x] = None \/ logs'[x] = None
    <3>1. CASE job.own = run[a].own /\ logs' = [logs EXCEPT ![y] = row]
      BY <1>1, <1>2, <1>5, <1>7, <3>1
    <3>2. CASE job.own = [run[a].own EXCEPT ![y] = row] /\ logs' = logs
      BY <1>1, <1>2, <1>5, <3>2 DEF Table
    <3>3. QED
      BY <1>6, <3>1, <3>2
  <2>2. Unblocked(a, Ids \ {y})'
    <3>1. DayStart(a, run[a].mail)' = DayStart(a, run[a].mail)
      BY <1>1, <1>6 DEF DayStart
    <3>2. \A x \in Ids \ {y} : Counts(Seen(a, x)') <=> Counts(Seen(a, x))
      BY <1>7
    <3>3. \A x \in Ids \ {y} :
            Seen(a, x)' # None /\ Seen(a, x)'.mail = run'[a].mail /\ Counts(Seen(a, x)')
            => Seen(a, x)'.created < DayStart(a, run[a].mail)
      BY <1>5, <1>6, <1>7 DEF Unblocked
    <3>4. QED
      BY <3>1, <3>3 DEF Unblocked, Counts
  <2>3. Seen(a, y)'.mail = job.mail
    BY <1>4, <1>6, <1>7
  <2>4. RemindersByDay /\ job.name = "reminders" =>
          /\ DayLength * job.today <= now
          /\ job.began = None
          /\ DayLength * job.today <= Seen(a, y)'.created
    BY <1>4, <1>5, <1>6, <1>7
  <2>5. job.mail \in job.todo
    BY <1>5, <1>6
  <2>6. job.name = "workflows" => logs'[y] = None
    BY <1>1, <1>6
  <2>7. QED
    BY <1>1, <1>6, <2>1, <2>2, <2>3, <2>4, <2>5, <2>6 DEF Onward
<1>9. Orderly(logs', inbox')
  <2>1. CASE logs'[y] = None
    <3>1. \A x \in Ids : logs'[x] = logs[x]
      BY <1>1, <1>7, <2>1
    <3>2. QED
      BY <1>1, <3>1 DEF MailInv, Orderly, Apart, Standing, SentIsTaken, RemindersInDay
  <2>2. CASE logs'[y] = row
    BY <1>1, <1>4, <1>7, <2>2, NewRow DEF MailInv
  <2>3. QED
    BY <1>7, <2>1, <2>2
<1>10. Orderly(View(a)', inbox')
  <2>1. View(a)'[y] = row /\ \A x \in Ids \ {y} : View(a)'[x] = View(a)[x]
    BY <1>7 DEF View
  <2>2. Orderly(View(a), inbox)
    BY <1>2 DEF MailInv
  <2>3. QED
    BY <1>1, <1>4, <2>1, <2>2, NewRow
<1>11. QED
  BY <1>2, <1>6, <1>8, <1>9, <1>10, AloneStep

\* The mail at hand is answered: it is late, or the other rows of its day do not count.
LEMMA MailLate ==
  ASSUME IInv, MailInv, NEW a \in Runners, run[a].step = "recorded", NEW y \in Ids,
         y = run[a].id
  PROVE  /\ \A x \in Ids \ {y} :
              /\ Standing(View(a), inbox, x) /\ Seen(a, x).mail = Seen(a, y).mail
              /\ SameDay(Seen(a, x), Seen(a, y))
              => Late(a, Seen(a, y)) \/ BeforeDay(Seen(a, x))
         /\ RemindersByDay /\ Seen(a, y).mail \in Reminders => Late(a, Seen(a, y)) \/ ~BeforeDay(Seen(a, y))
<1>1. /\ TypeOK /\ JobInv(a) /\ Onward(a) /\ now \in Nat
  BY DEF IInv, MailInv, TypeOK
<1>2. /\ run[a] # Idle /\ run[a] \in Job /\ run[a].todo \subseteq Mails
      /\ run[a].name \in {"workflows", "reminders"} /\ run[a].today \in Nat
  BY <1>1, JobFields DEF Job
<1>3. /\ Unblocked(a, Ids \ {y}) /\ Seen(a, y).mail = run[a].mail
      /\ run[a].mail \in run[a].todo /\ Seen(a, y) # None
  BY <1>1, <1>2 DEF Onward, JobInv
<1>4. Seen(a, y) \in Row /\ Seen(a, y).created \in Nat
  BY <1>1, <1>3, SeenRow DEF Row
<1>5. ASSUME NEW x \in Ids \ {y},
             Standing(View(a), inbox, x), Seen(a, x).mail = Seen(a, y).mail,
             SameDay(Seen(a, x), Seen(a, y))
      PROVE  Late(a, Seen(a, y)) \/ BeforeDay(Seen(a, x))
  <2>1. Seen(a, x) # None /\ Seen(a, x).status # "failed"
    BY <1>5 DEF Standing, View
  <2>2. Seen(a, x) \in Row /\ Seen(a, x).created \in Nat
    BY <1>1, <2>1, SeenRow DEF Row
  <2>3. Counts(Seen(a, x))
    BY <2>1, <2>2 DEF Counts, Row
  <2>4. Seen(a, x).created < DayStart(a, run[a].mail)
    BY <1>3, <1>5, <2>1, <2>3 DEF Unblocked
  <2>5. CASE run[a].mail \in Notices
    <3>1. Seen(a, x).created < DayLength * UtcDay(now)
      BY <2>4, <2>5 DEF DayStart
    <3>2. /\ UtcDay(now) \in Nat /\ UtcDay(Seen(a, x).created) \in Nat
          /\ DayLength * UtcDay(Seen(a, x).created) <= Seen(a, x).created
      BY <1>1, <2>2, DayBegins
    <3>3. DayLength * UtcDay(Seen(a, x).created) \in Int /\ DayLength * UtcDay(now) \in Int
      BY <3>2
    <3>4. UtcDay(Seen(a, x).created) # UtcDay(now)
      BY <2>2, <3>1, <3>2, <3>3
    <3>5. UtcDay(Seen(a, x).created) = UtcDay(Seen(a, y).created)
      BY <1>3, <1>5, <2>5 DEF SameDay
    <3>6. QED
      BY <1>3, <2>5, <3>4, <3>5 DEF Late
  <2>6. CASE run[a].mail \notin Notices
    <3>1. Seen(a, x).created < DayLength * run[a].today
      BY <2>4, <2>6 DEF DayStart
    <3>2. LocalDay(Seen(a, x).created) = LocalDay(Seen(a, y).created)
      BY <1>3, <1>5, <2>6 DEF SameDay
    <3>3. CASE LocalDay(Seen(a, y).created) = run[a].today
      BY <1>3, <1>5, <2>6, <3>1, <3>2, <3>3 DEF BeforeDay
    <3>4. CASE LocalDay(Seen(a, y).created) # run[a].today
      BY <1>3, <2>6, <3>4 DEF Late
    <3>5. QED
      BY <3>3, <3>4
  <2>7. QED
    BY <2>5, <2>6
<1>6. ASSUME RemindersByDay, Seen(a, y).mail \in Reminders
      PROVE  Late(a, Seen(a, y)) \/ ~BeforeDay(Seen(a, y))
  <2>1. run[a].mail \notin Notices /\ run[a].name = "reminders"
    BY <1>1, <1>2, <1>3, <1>6 DEF JobInv, JobMails
  <2>2. DayLength * run[a].today <= Seen(a, y).created
    BY <1>1, <1>2, <1>3, <1>6, <2>1 DEF Onward
  <2>3. DayLength * run[a].today \in Int
    BY <1>2
  <2>4. CASE LocalDay(Seen(a, y).created) = run[a].today
    BY <1>4, <2>2, <2>3, <2>4 DEF BeforeDay
  <2>5. CASE LocalDay(Seen(a, y).created) # run[a].today
    BY <1>3, <2>1, <2>5 DEF Late
  <2>6. QED
    BY <2>4, <2>5
<1>7. QED
  BY <1>5, <1>6

LEMMA MailDispatch ==
  ASSUME IInv, MailInv, LoopsOnly, NEW a \in Runners,
         NEW taken \in BOOLEAN, NEW reported \in BOOLEAN, Dispatch(a, taken, reported)
  PROVE  MailInv'
<1>1. /\ TypeOK /\ JobInv(a) /\ Onward(a) /\ run[a].step = "recorded" /\ (reported => taken)
      /\ logs' = logs /\ now' = now
  BY DEF IInv, MailInv, Dispatch
<1>2. /\ run[a] # Idle /\ run[a] \in Job /\ run[a].own \in Table
      /\ run[a].name \in {"workflows", "reminders"}
  BY <1>1, JobFields
<1>3. PICK y \in Ids : y = run[a].id
  BY <1>1, <1>2 DEF JobInv
<1>4. PICK row : row = Outcome(Seen(a, y), reported)
  OBVIOUS
<1>5. /\ Seen(a, y) \in Row /\ row \in Row /\ row # None
      /\ row.mail = Seen(a, y).mail /\ row.created = Seen(a, y).created
      /\ row.status = "sent" => taken
  <2>1. Seen(a, y) \in Row
    BY <1>1, <1>2, <1>3, SeenRow DEF JobInv
  <2>2. QED
    BY <1>1, <1>4, <2>1 DEF Outcome, Row
<1>6. PICK late \in BOOLEAN : late = Late(a, Seen(a, y))
  BY DEF Late
<1>7. inbox' = IF ~taken THEN inbox
               ELSE [inbox EXCEPT ![y] = [mail |-> run[a].mail, late |-> late]]
  BY <1>3, <1>6 DEF Dispatch
<1>8. /\ \A x \in Ids \ {y} : inbox'[x] = inbox[x]
      /\ taken => inbox'[y] # None /\ inbox'[y].late = late
      /\ ~taken => inbox' = inbox
  <2>1. run[a].mail \in Mails
    BY <1>1, <1>2, JobMailsOfName DEF JobInv
  <2>2. [mail |-> run[a].mail, late |-> late] \in Taken
    BY <2>1 DEF Taken
  <2>3. [mail |-> run[a].mail, late |-> late] # None
    BY <2>2 DEF Taken
  <2>4. QED
    BY <1>1, <1>7, <2>3 DEF TypeOK
<1>9. PICK job : /\ run' = [run EXCEPT ![a] = job] /\ run'[a] = job
                 /\ job.name = run[a].name /\ job.today = run[a].today
                 /\ job.step = IF run[a].name = "reminders" THEN "answered" ELSE "ready"
                 /\ job.todo = run[a].todo \ {run[a].mail} /\ job.began = run[a].began
                 /\ job.own = [run[a].own EXCEPT ![y] = row]
  <2> DEFINE job == [run[a] EXCEPT !.step = IF run[a].name = "reminders" THEN "answered"
                                            ELSE "ready",
                                   !.todo = @ \ {run[a].mail}, !.mail = None, !.id = None,
                                   !.own = [run[a].own EXCEPT ![y] = row]]
  <2>1. run' = [run EXCEPT ![a] = job] /\ run'[a] = job
    <3>1. run' = [run EXCEPT ![a] = job]
      BY <1>3, <1>4 DEF Dispatch
    <3>2. QED
      BY <1>1, <3>1 DEF TypeOK
  <2>2. /\ job.name = run[a].name /\ job.today = run[a].today
        /\ job.step = IF run[a].name = "reminders" THEN "answered" ELSE "ready"
        /\ job.todo = run[a].todo \ {run[a].mail} /\ job.began = run[a].began
        /\ job.own = [run[a].own EXCEPT ![y] = row]
    BY <1>2 DEF Job
  <2> HIDE DEF job
  <2>3. QED
    BY <2>1, <2>2
<1>10. Seen(a, y)' = row /\ \A x \in Ids \ {y} : Seen(a, x)' = Seen(a, x)
  BY <1>1, <1>2, <1>5, <1>9 DEF Seen, Table
<1>11. /\ \A x \in Ids \ {y} :
            /\ Standing(View(a), inbox, x) /\ Seen(a, x).mail = row.mail
            /\ SameDay(Seen(a, x), row)
            => late \/ BeforeDay(Seen(a, x))
       /\ RemindersByDay /\ row.mail \in Reminders => late \/ ~BeforeDay(row)
  BY <1>1, <1>3, <1>5, <1>6, MailLate DEF SameDay, BeforeDay
<1>12. taken /\ late => inbox'[y].late
  <2>1. taken /\ late => inbox'[y].late = TRUE
    BY <1>8
  <2>2. QED
    BY <2>1
<1>13. Orderly(View(a)', inbox')
  <2>1. PICK next : next = View(a)'
    OBVIOUS
  <2>2. PICK table : table = View(a)
    OBVIOUS
  <2>3. next[y] = row /\ \A x \in Ids \ {y} : next[x] = table[x] /\ table[x] = Seen(a, x)
    BY <1>10, <2>1, <2>2 DEF View
  <2>4. Orderly(table, inbox) /\ table[y] = Seen(a, y)
    BY <1>2, <2>2 DEF MailInv, View
  <2>5. PICK after : after = inbox'
    OBVIOUS
  <2>6. next[y] # None /\ (next[y].status = "sent" => after[y] # None)
    BY <1>5, <1>8, <2>3, <2>5
  <2>7. \A x \in Ids \ {y} : next[x] = table[x] /\ after[x] = inbox[x]
    BY <1>8, <2>3, <2>5
  <2>8. after[y] # None => taken /\ (late => after[y].late)
    <3>1. inbox[y] = None
      BY <1>1, <1>2, <1>3 DEF Onward
    <3>2. QED
      BY <1>8, <1>12, <2>5, <3>1
  <2>9. \A x \in Ids \ {y} :
          /\ after[y] # None
          /\ Standing(table, inbox, x) /\ table[x].mail = next[y].mail
          /\ SameDay(table[x], next[y])
          => after[y].late \/ BeforeDay(table[x])
    BY <1>11, <2>2, <2>3, <2>8
  <2>10. RemindersByDay /\ next[y].mail \in Reminders
           => after[y] = None \/ after[y].late \/ ~BeforeDay(next[y])
    BY <1>11, <2>3, <2>8
  <2>11. Orderly(next, after)
    BY <2>4, <2>6, <2>7, <2>9, <2>10, AnsweredRow
  <2>12. QED
    BY <2>1, <2>5, <2>11
<1>14. Orderly(logs', inbox')
  <2>1. \A x \in Ids : logs[x] # None => Seen(a, x) = logs[x]
    BY <1>1, <1>2 DEF Onward, Seen
  <2>2. Orderly(logs, inbox) /\ (logs[y] # None => logs[y] = Seen(a, y))
    BY <2>1 DEF MailInv
  <2>3. CASE ~taken
    BY <1>1, <1>8, <2>2, <2>3
  <2>4. CASE taken /\ logs[y] = None
    BY <1>1, <1>8, <2>2, <2>4 DEF Orderly, Apart, Standing, SentIsTaken, RemindersInDay
  <2>5. CASE taken /\ logs[y] # None
    <3>1. \A x \in Ids \ {y} :
            /\ Standing(logs, inbox, x) /\ logs[x].mail = logs[y].mail
            /\ SameDay(logs[x], logs[y])
            => late \/ BeforeDay(logs[x])
      <4>1. \A x \in Ids : Standing(logs, inbox, x) => Standing(View(a), inbox, x)
        BY <2>1 DEF Standing, View
      <4>2. QED
        BY <1>5, <1>11, <2>1, <2>2, <2>5, <4>1 DEF SameDay, Standing
    <3>2. RemindersByDay /\ logs[y].mail \in Reminders => late \/ ~BeforeDay(logs[y])
      BY <1>5, <1>11, <2>2, <2>5 DEF BeforeDay
    <3>3. /\ \A x \in Ids \ {y} :
               /\ Standing(logs, inbox, x) /\ logs[x].mail = logs[y].mail
               /\ SameDay(logs[x], logs[y])
               => inbox'[y].late \/ BeforeDay(logs[x])
          /\ RemindersByDay /\ logs[y].mail \in Reminders => inbox'[y].late \/ ~BeforeDay(logs[y])
      BY <1>12, <2>5, <3>1, <3>2
    <3>4. Orderly(logs, inbox')
      <4>1. inbox'[y] # None /\ \A x \in Ids \ {y} : logs[x] = logs[x] /\ inbox'[x] = inbox[x]
        BY <1>8, <2>5
      <4>2. QED
        BY <2>2, <2>5, <3>3, <4>1, AnsweredRow
    <3>5. QED
      BY <1>1, <3>4
  <2>6. QED
    BY <2>3, <2>4, <2>5
<1>15. Onward(a)'
  <2>1. job.step # "answered" => \A x \in Ids : job.own[x] = None \/ logs[x] = None
    <3>1. run[a].name = "workflows" => logs[y] = None
      BY <1>1, <1>2, <1>3 DEF Onward
    <3>2. \A x \in Ids \ {y} : job.own[x] = run[a].own[x]
      BY <1>2, <1>9 DEF Table
    <3>3. \A x \in Ids : run[a].own[x] = None \/ logs[x] = None
      BY <1>1, <1>2 DEF Onward
    <3>4. QED
      BY <1>2, <1>9, <3>1, <3>2, <3>3
  <2>2. RemindersByDay /\ job.name = "reminders" /\ job.todo # {} =>
          /\ DayLength * job.today <= now
          /\ job.began # None => DayLength * job.today <= job.began
    BY <1>1, <1>2, <1>9 DEF Onward
  <2>3. job.step \in {"answered", "ready"}
    BY <1>9
  <2>4. QED
    BY <1>1, <1>9, <2>1, <2>2, <2>3 DEF Onward
<1>16. QED
  BY <1>2, <1>9, <1>13, <1>14, <1>15, AloneStep

LEMMA MailCommit ==
  ASSUME IInv, MailInv, LoopsOnly, NEW a \in Runners, Commit(a)
  PROVE  MailInv'
<1>1. /\ TypeOK /\ Onward(a) /\ run[a].step \in {"answered", "ready"}
      /\ inbox' = inbox /\ now' = now
  BY DEF IInv, MailInv, Commit
<1>2. run[a] # Idle /\ run[a] \in Job
  BY <1>1, JobFields
<1>3. PICK job : /\ run' = [run EXCEPT ![a] = job] /\ run'[a] = job
                 /\ \/ job = Idle
                    \/ /\ job.step = "ready" /\ job.own = NoRows /\ job.began = None
                       /\ job.name = run[a].name /\ job.today = run[a].today
                       /\ job.todo = run[a].todo
  <2> DEFINE next == [run[a] EXCEPT !.step = "ready", !.began = None, !.own = NoRows]
  <2>1. /\ next.step = "ready" /\ next.own = NoRows /\ next.began = None
        /\ next.name = run[a].name /\ next.today = run[a].today /\ next.todo = run[a].todo
    BY <1>2 DEF Job
  <2>2. PICK job : job = IF run[a].todo = {} THEN Idle ELSE next
    OBVIOUS
  <2>3. run' = [run EXCEPT ![a] = job]
    BY <2>2 DEF Commit
  <2>4. run'[a] = job
    BY <1>1, <2>3 DEF TypeOK
  <2> HIDE DEF next
  <2>5. QED
    BY <2>1, <2>2, <2>3, <2>4
<1>4. \A x \in Ids : logs'[x] = View(a)[x]
  BY DEF Commit, View
<1>5. Orderly(logs', inbox')
  <2>1. Orderly(View(a), inbox)
    BY <1>2 DEF MailInv
  <2>2. QED
    BY <1>1, <1>4, <2>1 DEF Orderly, Apart, Standing, SentIsTaken, RemindersInDay
<1>6. run'[a] # Idle => Orderly(View(a)', inbox')
  <2>1. run'[a] # Idle => \A x \in Ids : View(a)'[x] = logs'[x]
    BY <1>3 DEF View, Seen, NoRows
  <2>2. QED
    BY <1>5, <2>1 DEF Orderly, Apart, Standing, SentIsTaken, RemindersInDay
<1>7. Onward(a)'
  <2>1. CASE job = Idle
    BY <1>3, <2>1 DEF Onward
  <2>2. CASE job # Idle
    <3>1. RemindersByDay /\ job.name = "reminders" /\ job.todo # {} => DayLength * job.today <= now
      BY <1>1, <1>2, <1>3, <2>2 DEF Onward
    <3>2. \A x \in Ids : job.own[x] = None
      BY <1>3, <2>2 DEF NoRows
    <3>3. QED
      BY <1>1, <1>3, <2>2, <3>1, <3>2 DEF Onward
  <2>3. QED
    BY <2>1, <2>2
<1>8. QED
  BY <1>2, <1>3, <1>5, <1>6, <1>7, AloneStep

LEMMA NextMailInv ==
  ASSUME LoopsOnly, IInv, MailInv, [Next]_vars
  PROVE  MailInv'
  BY MailQuiet, MailStart, MailCheck, MailRecord, MailDispatch, MailCommit, MailCrash DEF Next

LEMMA AlwaysMailInv == LoopsOnly => (Spec => []MailInv)
<1> SUFFICES ASSUME LoopsOnly PROVE Spec => []MailInv
  OBVIOUS
<1>1. IInv /\ MailInv /\ [Next]_vars => MailInv'
  BY NextMailInv
<1>2. QED
  BY <1>1, InitIInv, NextIInv, InitMailInv, PTL DEF Spec

\* With the loops alone, any number of them, no mail is on record as sent twice for one day,
\* except by a job that runs past midnight, and except a report that is due before the
\* midnight of UTC.
THEOREM NoDuplicatesHolds == LoopsOnly => (Spec => []NoDuplicates)
<1> SUFFICES ASSUME LoopsOnly PROVE Spec => []NoDuplicates
  OBVIOUS
<1>1. MailInv => NoDuplicates
  <2> SUFFICES ASSUME MailInv, NEW x \in Ids, NEW y \in Ids, SameMail(x, y), x # y,
                      logs[x].status = "sent", logs[y].status = "sent"
               PROVE  PastMidnight(x) \/ PastMidnight(y) \/ Early(x) \/ Early(y)
    BY DEF NoDuplicates
  <2>1. Standing(logs, inbox, x) /\ Standing(logs, inbox, y)
    BY DEF MailInv, Orderly, SentIsTaken, Standing, SameMail
  <2>2. logs[x].mail = logs[y].mail /\ SameDay(logs[x], logs[y])
    BY DEF SameMail, SameDay
  <2>3. QED
    BY <2>1, <2>2 DEF MailInv, Orderly, Apart, PastMidnight, Early, BeforeDay
<1>2. QED
  BY <1>1, AlwaysMailInv, PTL

\* With the loops alone, the SMTP server gets a reminder at most once a day, wherever jobs
\* crash, unless one was reported failed or sent by a job that ran past midnight.
THEOREM RemindersAtMostOnceHolds == LoopsOnly /\ RemindersByDay => (Spec => []RemindersAtMostOnce)
<1> SUFFICES ASSUME LoopsOnly, RemindersByDay PROVE Spec => []RemindersAtMostOnce
  OBVIOUS
<1>1. MailInv => RemindersAtMostOnce
  <2> SUFFICES ASSUME MailInv, NEW x \in Ids, NEW y \in Ids, SameMail(x, y), x # y,
                      inbox[x] # None, inbox[y] # None, logs[x].mail \in Reminders,
                      logs[x].status # "failed", logs[y].status # "failed"
               PROVE  PastMidnight(x) \/ PastMidnight(y)
    BY DEF RemindersAtMostOnce
  <2>1. Standing(logs, inbox, x) /\ Standing(logs, inbox, y)
    BY DEF Standing, SameMail
  <2>2. logs[x].mail = logs[y].mail /\ SameDay(logs[x], logs[y])
    BY DEF SameMail, SameDay
  <2>3. /\ inbox[x].late \/ ~BeforeDay(logs[x])
        /\ inbox[y].late \/ ~BeforeDay(logs[y])
    BY <2>1, <2>2 DEF MailInv, Orderly, RemindersInDay, Standing
  <2>4. QED
    BY <2>1, <2>2, <2>3 DEF MailInv, Orderly, Apart, PastMidnight
<1>2. QED
  BY <1>1, AlwaysMailInv, PTL

(***************************************************************************)
(* The journal, whoever runs the jobs                                      *)
(***************************************************************************)
\* Runner a is at work on row x.
Holds(a, x) ==
  run[a] # Idle /\ (run[a].own[x] # None \/ (run[a].step = "recorded" /\ run[a].id = x))

\* A row that a transaction has written: new, of a mail that is not announced, or the
\* outcome of one that is.
Writes(a, x) ==
  IF run[a].name = "workflows"
  THEN logs[x] = None /\ run[a].own[x].mail \notin Reminders
  ELSE /\ run[a].step = "answered"
       /\ logs[x] # None /\ logs[x].status = "pending"
       /\ run[a].own[x] = [logs[x] EXCEPT !.status = run[a].own[x].status]

\* What it says is so, or is going to be known in the next step.
WritesTruth(a, x) ==
  /\ run[a].own[x].status = "sent" => inbox[x] # None /\ inbox[x].mail = run[a].own[x].mail
  /\ run[a].own[x].status = "pending" => run[a].step = "recorded" /\ run[a].id = x

\* The row of the mail that is handed over next.
AtHand(a, x) ==
  /\ inbox[x] = None
  /\ Seen(a, x) # None /\ Seen(a, x).status = "pending" /\ Seen(a, x).mail = run[a].mail
  /\ run[a].name = "workflows" <=> run[a].own[x] # None

JournalOf(a) ==
  run[a] # Idle =>
    /\ \A x \in Ids : run[a].own[x] # None => Writes(a, x) /\ WritesTruth(a, x)
    /\ run[a].step = "recorded" => AtHand(a, run[a].id)

\* No two jobs are at work on one row.
OneWriter == \A a, b \in Runners, x \in Ids : Holds(a, x) /\ Holds(b, x) => a = b

JournalInv == OneWriter /\ \A a \in Runners : JournalOf(a)

LEMMA InitJournalInv == Init => JournalInv
  BY DEF Init, JournalInv, OneWriter, Holds, JournalOf

\* A job is not disturbed by steps that leave its rows alone.
LEMMA UndisturbedJob ==
  ASSUME IInv, JournalInv, NEW b \in Runners, run'[b] = run[b],
         \A x \in Ids : Holds(b, x) => logs'[x] = logs[x] /\ inbox'[x] = inbox[x]
  PROVE  JournalOf(b)'
<1> SUFFICES ASSUME run[b] # Idle PROVE JournalOf(b)'
  BY DEF JournalOf
<1>1. JournalOf(b) /\ JobInv(b)
  BY DEF JournalInv, IInv
<1>2. ASSUME NEW x \in Ids, run'[b].own[x] # None
      PROVE  Writes(b, x)' /\ WritesTruth(b, x)'
  <2>1. logs'[x] = logs[x] /\ inbox'[x] = inbox[x] /\ Writes(b, x) /\ WritesTruth(b, x)
    BY <1>1, <1>2 DEF Holds, JournalOf
  <2>2. QED
    BY <2>1 DEF Writes, WritesTruth
<1>3. ASSUME run'[b].step = "recorded" PROVE AtHand(b, run[b].id)'
  <2>1. PICK x \in Ids : x = run[b].id
    BY <1>1, <1>3 DEF JobInv
  <2>2. logs'[x] = logs[x] /\ inbox'[x] = inbox[x] /\ AtHand(b, x)
    BY <1>1, <1>3, <2>1 DEF Holds, JournalOf
  <2>3. QED
    BY <2>1, <2>2 DEF AtHand, Seen
<1>4. QED
  BY <1>2, <1>3 DEF JournalOf

\* A step of runner a that takes hold only of rows nobody holds, and writes only its own.
LEMMA HoldingStep ==
  ASSUME IInv, JournalInv, NEW a \in Runners, NEW STATE job,
         run' = [run EXCEPT ![a] = job], JournalOf(a)',
         \A x \in Ids : Holds(a, x)' \/ logs'[x] # logs[x] \/ inbox'[x] # inbox[x]
                        => \A b \in Runners \ {a} : ~Holds(b, x)
  PROVE  JournalInv'
<1>1. \A b \in Runners \ {a} : run'[b] = run[b]
  BY DEF IInv, TypeOK
<1>2. \A b \in Runners \ {a}, x \in Ids : Holds(b, x)' <=> Holds(b, x)
  BY <1>1 DEF Holds
<1>3. OneWriter'
  <2> SUFFICES ASSUME NEW b \in Runners, NEW c \in Runners, NEW x \in Ids,
                      Holds(b, x)', Holds(c, x)', b # c
               PROVE  FALSE
    BY DEF OneWriter
  <2>1. CASE b = a \/ c = a
    BY <1>2, <2>1
  <2>2. CASE b # a /\ c # a
    BY <1>2, <2>2 DEF JournalInv, OneWriter
  <2>3. QED
    BY <2>1, <2>2
<1>4. \A b \in Runners \ {a} : JournalOf(b)'
  BY <1>1, UndisturbedJob
<1>5. QED
  BY <1>3, <1>4 DEF JournalInv

LEMMA HeldByOne ==
  ASSUME JournalInv, NEW a \in Runners, NEW x \in Ids, Holds(a, x)
  PROVE  \A b \in Runners \ {a} : ~Holds(b, x)
  BY DEF JournalInv, OneWriter

\* Nobody holds a row whose identifier is fresh.
LEMMA FreshIsFree ==
  ASSUME IInv, JournalInv, NEW x \in Ids, Fresh(x), NEW b \in Runners
  PROVE  ~Holds(b, x)
<1> SUFFICES ASSUME run[b] # Idle, run[b].step = "recorded", run[b].id = x PROVE FALSE
  BY DEF Holds, Fresh
<1>1. AtHand(b, x) /\ run[b].own[x] = None /\ logs[x] = None
  BY DEF JournalInv, JournalOf, Fresh
<1>2. QED
  BY <1>1 DEF AtHand, Seen

LEMMA JournalQuiet ==
  ASSUME IInv, JournalInv, UNCHANGED <<logs, inbox, run>>
  PROVE  JournalInv'
<1>1. \A a \in Runners : JournalOf(a)'
  BY UndisturbedJob
<1>2. OneWriter'
  BY DEF JournalInv, OneWriter, Holds
<1>3. QED
  BY <1>1, <1>2 DEF JournalInv

\* A step that writes nothing and after which the job holds what it held, or nothing.
LEMMA JournalLocal ==
  ASSUME IInv, JournalInv, NEW a \in Runners, NEW STATE job,
         run' = [run EXCEPT ![a] = job], UNCHANGED <<logs, inbox>>,
         \/ job = Idle
         \/ job.own = NoRows /\ job.step # "recorded"
         \/ /\ run[a].step = "ready" /\ job.step \in {"ready", "clear"}
            /\ job.own = run[a].own /\ job.name = run[a].name
  PROVE  JournalInv'
<1>1. run'[a] = job
  BY DEF IInv, TypeOK
<1>2. CASE job = Idle
  <2>1. ~run'[a] # Idle
    BY <1>1, <1>2
  <2>2. JournalOf(a)' /\ \A x \in Ids : ~Holds(a, x)'
    BY <2>1 DEF JournalOf, Holds
  <2>3. QED
    BY <2>2, HoldingStep
<1>3. CASE job.own = NoRows /\ job.step # "recorded"
  <2>1. \A x \in Ids : run'[a].own[x] = None
    BY <1>1, <1>3 DEF NoRows
  <2>2. JournalOf(a)' /\ \A x \in Ids : ~Holds(a, x)'
    BY <1>1, <1>3, <2>1 DEF JournalOf, Holds
  <2>3. QED
    BY <2>2, HoldingStep
<1>4. CASE /\ run[a].step = "ready" /\ job.step \in {"ready", "clear"}
           /\ job.own = run[a].own /\ job.name = run[a].name
  <2>1. run[a] # Idle /\ JournalOf(a)
    BY <1>4 DEF Idle, JournalInv
  <2>2. ASSUME NEW x \in Ids, run'[a].own[x] # None
        PROVE  Writes(a, x)' /\ WritesTruth(a, x)'
    <3>1. Writes(a, x) /\ WritesTruth(a, x) /\ run'[a].own[x] = run[a].own[x]
      BY <1>1, <1>4, <2>1, <2>2 DEF JournalOf
    <3>2. QED
      BY <1>1, <1>4, <3>1 DEF Writes, WritesTruth
  <2>3. JournalOf(a)'
    BY <1>1, <1>4, <2>2 DEF JournalOf
  <2>4. \A x \in Ids : Holds(a, x)' => Holds(a, x)
    BY <1>1, <1>4, <2>1 DEF Holds
  <2>5. QED
    BY <2>3, <2>4, HeldByOne, HoldingStep
<1>5. QED
  BY <1>2, <1>3, <1>4

LEMMA JournalStart ==
  ASSUME IInv, JournalInv, NEW a \in Runners, NEW name \in {"workflows", "reminders"},
         Start(a, name)
  PROVE  JournalInv'
<1> DEFINE job == [step |-> "ready", name |-> name, today |-> LocalDay(now), began |-> now,
                   todo |-> {m \in JobMails(name) : LocalHour(now) \in Hours[m]},
                   mail |-> None, id |-> None, own |-> NoRows]
<1>1. run' = [run EXCEPT ![a] = job] /\ UNCHANGED <<logs, inbox>>
  BY DEF Start
<1>2. job.own = NoRows /\ job.step # "recorded"
  OBVIOUS
<1> HIDE DEF job
<1>3. QED
  BY <1>1, <1>2, JournalLocal

LEMMA JournalCheck ==
  ASSUME IInv, JournalInv, NEW a \in Runners, NEW m \in Mails, Check(a, m) \/ Skip(a, m)
  PROVE  JournalInv'
<1>1. run[a].step = "ready" /\ UNCHANGED <<logs, inbox>> /\ TypeOK
  BY DEF Check, Skip, IInv
<1>2. run[a] \in Job
  BY <1>1, JobFields
<1>3. CASE run' = [run EXCEPT ![a].todo = @ \ {m}]
  <2> DEFINE job == [run[a] EXCEPT !.todo = @ \ {m}]
  <2>1. job.step = "ready" /\ job.own = run[a].own /\ job.name = run[a].name
    BY <1>1, <1>2 DEF Job
  <2>2. run' = [run EXCEPT ![a] = job]
    BY <1>1, <1>3 DEF TypeOK
  <2> HIDE DEF job
  <2>3. QED
    BY <1>1, <2>1, <2>2, JournalLocal
<1>4. CASE run' = [run EXCEPT ![a].step = "clear", ![a].mail = m,
                              ![a].began = IF @ = None THEN now ELSE @]
  <2> DEFINE job == [run[a] EXCEPT !.step = "clear", !.mail = m,
                                   !.began = IF @ = None THEN now ELSE @]
  <2>1. job.step = "clear" /\ job.own = run[a].own /\ job.name = run[a].name
    BY <1>1, <1>2 DEF Job
  <2>2. run' = [run EXCEPT ![a] = job]
    BY <1>1, <1>4 DEF TypeOK
  <2> HIDE DEF job
  <2>3. QED
    BY <1>1, <2>1, <2>2, JournalLocal
<1>5. QED
  BY <1>3, <1>4 DEF Check, Skip

LEMMA JournalCrash ==
  ASSUME IInv, JournalInv, NEW a \in Runners, Crash(a)
  PROVE  JournalInv'
  BY JournalLocal DEF Crash

\* A pending row: of a reminder in the table, of another mail in the transaction.
LEMMA JournalRecord ==
  ASSUME IInv, JournalInv, NEW a \in Runners, NEW x \in Ids, Record(a, x)
  PROVE  JournalInv' /\ (logs' = logs \/ Journal!Announce(x)) /\ inbox' = inbox
<1> DEFINE row == [mail |-> run[a].mail, status |-> "pending", created |-> run[a].began]
<1>1. TypeOK /\ JobInv(a) /\ JournalOf(a) /\ run[a].step = "clear" /\ inbox' = inbox
  BY DEF IInv, JournalInv, Record
<1>2. /\ run[a] # Idle /\ run[a] \in Job /\ run[a].own \in Table
      /\ run[a].name \in {"workflows", "reminders"}
      /\ logs[x] = None /\ inbox[x] = None /\ run[a].own[x] = None
  BY <1>1, JobFields DEF Record, Fresh
<1>3. run[a].mail \in JobMails(run[a].name) /\ run[a].mail \in Mails /\ run[a].began \in Nat
  BY <1>1, <1>2, JobMailsOfName DEF JobInv, Job
<1>4. row # None /\ row.mail = run[a].mail /\ row.status = "pending"
  <2>1. row \in Row
    BY <1>3 DEF Row
  <2>2. QED
    BY <2>1
<1>5. \A b \in Runners : ~Holds(b, x)
  BY FreshIsFree DEF Record
<1>6. CASE run[a].name = "reminders"
  <2> DEFINE job == [run[a] EXCEPT !.step = "recorded", !.id = x, !.began = None]
  <2>1. run' = [run EXCEPT ![a] = job] /\ run'[a] = job
    BY <1>1, <1>6 DEF Record, TypeOK
  <2>2. /\ job.step = "recorded" /\ job.id = x /\ job.mail = run[a].mail
        /\ job.own = run[a].own /\ job.name = "reminders"
    BY <1>2, <1>6 DEF Job
  <2>3. logs' = [logs EXCEPT ![x] = row]
    BY <1>6 DEF Record
  <2> HIDE DEF row, job
  <2>4. logs'[x] = row /\ \A y \in Ids \ {x} : logs'[y] = logs[y]
    BY <1>1, <2>3 DEF TypeOK, Table
  <2>5. \A y \in Ids : run[a].own[y] = None
    BY <1>1, <1>2, <1>6 DEF JournalOf, Writes
  <2>6. AtHand(a, x)'
    BY <1>1, <1>2, <1>4, <2>1, <2>2, <2>4 DEF AtHand, Seen
  <2>7. JournalOf(a)'
    BY <2>1, <2>2, <2>5, <2>6 DEF JournalOf
  <2>8. \A y \in Ids : Holds(a, y)' => y = x
    BY <2>1, <2>2, <2>5 DEF Holds
  <2>9. JournalInv'
    BY <1>1, <1>5, <2>1, <2>4, <2>7, <2>8, HoldingStep
  <2>10. run[a].mail \in Reminders
    BY <1>3, <1>6 DEF JobMails
  <2>11. Journal!Announce(x)
    BY <1>1, <1>2, <1>4, <2>3, <2>4, <2>10 DEF Journal!Announce
  <2>12. QED
    BY <1>1, <2>9, <2>11
<1>7. CASE run[a].name = "workflows"
  <2> DEFINE job == [run[a] EXCEPT !.step = "recorded", !.id = x,
                                   !.own = [run[a].own EXCEPT ![x] = row]]
  <2>1. run' = [run EXCEPT ![a] = job] /\ run'[a] = job
    <3>1. run' = [run EXCEPT ![a] = job]
      BY <1>7 DEF Record
    <3>2. QED
      BY <1>1, <3>1 DEF TypeOK
  <2>2. /\ job.step = "recorded" /\ job.id = x /\ job.mail = run[a].mail
        /\ job.own = [run[a].own EXCEPT ![x] = row] /\ job.name = "workflows"
    BY <1>2, <1>7 DEF Job
  <2>3. logs' = logs
    BY <1>7 DEF Record
  <2> HIDE DEF row, job
  <2>4. job.own[x] = row /\ \A y \in Ids \ {x} : job.own[y] = run[a].own[y]
    BY <1>2, <2>2 DEF Table
  <2>5. run[a].mail \notin Reminders
    BY <1>3, <1>7 DEF JobMails
  <2>6. Writes(a, x)' /\ WritesTruth(a, x)'
    BY <1>2, <1>4, <2>1, <2>2, <2>3, <2>4, <2>5 DEF Writes, WritesTruth
  <2>7. ASSUME NEW y \in Ids \ {x}, run'[a].own[y] # None
        PROVE  Writes(a, y)' /\ WritesTruth(a, y)'
    <3>1. run'[a].own[y] = run[a].own[y] /\ Writes(a, y) /\ WritesTruth(a, y)
      BY <1>1, <1>2, <2>1, <2>4, <2>7 DEF JournalOf
    <3>2. QED
      BY <1>1, <1>7, <2>1, <2>2, <2>3, <3>1 DEF Writes, WritesTruth
  <2>8. AtHand(a, x)'
    BY <1>1, <1>2, <1>4, <2>1, <2>2, <2>4 DEF AtHand, Seen
  <2>9. JournalOf(a)'
    BY <2>1, <2>2, <2>6, <2>7, <2>8 DEF JournalOf
  <2>10. \A y \in Ids : Holds(a, y)' => y = x \/ Holds(a, y)
    <3>1. ASSUME NEW y \in Ids \ {x}, Holds(a, y)' PROVE Holds(a, y)
      <4>1. run'[a].own[y] # None
        BY <2>1, <2>2, <3>1 DEF Holds
      <4>2. QED
        BY <1>2, <2>1, <2>4, <4>1 DEF Holds
    <3>2. QED
      BY <3>1
  <2>11. JournalInv'
    BY <1>1, <1>5, <2>1, <2>3, <2>9, <2>10, HeldByOne, HoldingStep
  <2>12. QED
    BY <1>1, <2>3, <2>11
<1>8. QED
  BY <1>2, <1>6, <1>7

\* What the SMTP server took, as the journal sees it.
TakenMails == [x \in Ids |-> IF inbox[x] = None THEN None ELSE inbox[x].mail]

LEMMA JournalDispatch ==
  ASSUME IInv, JournalInv, NEW a \in Runners, NEW taken \in BOOLEAN, NEW reported \in BOOLEAN,
         Dispatch(a, taken, reported)
  PROVE  /\ JournalInv' /\ logs' = logs
         /\ inbox' = inbox \/ \E x \in Ids, m \in Mails : Journal!HandOver(x, m)
<1>1. /\ TypeOK /\ JobInv(a) /\ JournalOf(a) /\ run[a].step = "recorded"
      /\ logs' = logs /\ (reported => taken)
  BY DEF IInv, JournalInv, Dispatch
<1>2. /\ run[a] # Idle /\ run[a] \in Job /\ run[a].own \in Table
      /\ run[a].name \in {"workflows", "reminders"}
  BY <1>1, JobFields
<1>3. PICK x \in Ids : x = run[a].id
  BY <1>1, <1>2 DEF JobInv
<1>4. AtHand(a, x) /\ Holds(a, x) /\ Seen(a, x) \in Row
  BY <1>1, <1>2, <1>3, SeenRow DEF JournalOf, Holds, AtHand
<1>5. PICK row : row = Outcome(Seen(a, x), reported)
  OBVIOUS
<1>6. /\ row # None /\ row.mail = run[a].mail
      /\ row.status = IF reported THEN "sent" ELSE "failed"
      /\ row = [Seen(a, x) EXCEPT !.status = row.status]
  <2>1. /\ row = [Seen(a, x) EXCEPT !.status = IF reported THEN "sent" ELSE "failed"]
        /\ Seen(a, x).mail = run[a].mail
    BY <1>4, <1>5 DEF AtHand, Outcome
  <2>2. row \in Row
    BY <1>4, <2>1 DEF Row
  <2>3. QED
    BY <1>4, <2>1, <2>2 DEF Row
<1>7. PICK step \in {"ready", "answered"} :
        step = IF run[a].name = "reminders" THEN "answered" ELSE "ready"
  OBVIOUS
<1> DEFINE job == [run[a] EXCEPT !.step = step, !.todo = @ \ {run[a].mail}, !.mail = None,
                                 !.id = None, !.own = [run[a].own EXCEPT ![x] = row]]
<1>8. job.step = step /\ job.name = run[a].name /\ job.own = [run[a].own EXCEPT ![x] = row]
  BY <1>2 DEF Job
<1>9. run' = [run EXCEPT ![a] = job] /\ run'[a] = job
  <2>1. run' = [run EXCEPT ![a] = job]
    BY <1>3, <1>5, <1>7 DEF Dispatch
  <2>2. QED
    BY <1>1, <2>1 DEF TypeOK
<1> HIDE DEF job
<1>10. job.own[x] = row /\ \A y \in Ids \ {x} : job.own[y] = run[a].own[y]
  BY <1>2, <1>8 DEF Table
<1>11. run[a].mail \in Mails /\ (run[a].mail \in Reminders <=> run[a].name = "reminders")
  BY <1>1, <1>2, JobMailsOfName DEF JobInv, JobMails
<1>12. PICK late \in BOOLEAN : late = Late(a, Seen(a, x))
  BY DEF Late
<1>13. PICK mail : mail = [mail |-> run[a].mail, late |-> late]
  OBVIOUS
<1>14. mail # None /\ mail.mail = run[a].mail
  <2>1. mail \in Taken
    BY <1>11, <1>13 DEF Taken
  <2>2. QED
    BY <1>13, <2>1 DEF Taken
<1>15. inbox' = IF ~taken THEN inbox ELSE [inbox EXCEPT ![x] = mail]
  BY <1>3, <1>12, <1>13 DEF Dispatch
<1>16. /\ \A y \in Ids \ {x} : inbox'[y] = inbox[y]
       /\ taken => inbox'[x] = mail
  BY <1>1, <1>15 DEF TypeOK
<1>17. Writes(a, x)' /\ WritesTruth(a, x)'
  <2>1. WritesTruth(a, x)'
    BY <1>1, <1>6, <1>9, <1>10, <1>14, <1>16 DEF WritesTruth
  <2>2. CASE run[a].name = "workflows"
    <3>1. run[a].own[x] # None /\ Writes(a, x)
      BY <1>1, <1>2, <1>4, <2>2 DEF AtHand, JournalOf
    <3>2. logs[x] = None
      BY <2>2, <3>1 DEF Writes
    <3>3. QED
      BY <1>1, <1>6, <1>8, <1>9, <1>10, <1>11, <2>1, <2>2, <3>2 DEF Writes
  <2>3. CASE run[a].name = "reminders"
    <3>1. Seen(a, x) = logs[x]
      BY <1>4, <2>3 DEF AtHand, Seen
    <3>2. job.step = "answered" /\ job.name = "reminders"
      BY <1>7, <1>8, <2>3
    <3>3. QED
      BY <1>1, <1>4, <1>6, <1>9, <1>10, <2>1, <3>1, <3>2 DEF Writes, AtHand
  <2>4. QED
    BY <1>2, <2>2, <2>3
<1>18. ASSUME NEW y \in Ids \ {x}, run'[a].own[y] # None
       PROVE  Writes(a, y)' /\ WritesTruth(a, y)'
  <2>1. /\ run'[a].own[y] = run[a].own[y] /\ inbox'[y] = inbox[y]
        /\ Writes(a, y) /\ WritesTruth(a, y)
    BY <1>1, <1>2, <1>9, <1>10, <1>16, <1>18 DEF JournalOf
  <2>2. run[a].name = "workflows" /\ run[a].own[y].status # "pending"
    BY <1>1, <1>2, <1>3, <2>1 DEF Writes, WritesTruth
  <2>3. QED
    BY <1>1, <1>8, <1>9, <2>1, <2>2 DEF Writes, WritesTruth
<1>19. JournalOf(a)'
  BY <1>7, <1>8, <1>9, <1>17, <1>18 DEF JournalOf
<1>20. \A y \in Ids : Holds(a, y)' => Holds(a, y)
  <2>1. ASSUME NEW y \in Ids \ {x}, Holds(a, y)' PROVE Holds(a, y)
    <3>1. run'[a].own[y] # None
      BY <1>7, <1>8, <1>9, <2>1 DEF Holds
    <3>2. QED
      BY <1>2, <1>9, <1>10, <3>1 DEF Holds
  <2>2. QED
    BY <1>4, <2>1
<1>21. JournalInv'
  BY <1>1, <1>4, <1>9, <1>16, <1>19, <1>20, HeldByOne, HoldingStep
<1>22. PICK m \in Mails : m = run[a].mail
  BY <1>11
<1>23. ASSUME taken PROVE Journal!HandOver(x, m)
  <2>1. TakenMails' = [TakenMails EXCEPT ![x] = m]
    BY <1>14, <1>16, <1>22, <1>23 DEF TakenMails
  <2>2. inbox[x] = None
    BY <1>4 DEF AtHand
  <2>3. CASE run[a].name = "reminders"
    <3>1. m \in Reminders /\ run[a].own[x] = None
      BY <1>4, <1>11, <1>22, <2>3 DEF AtHand
    <3>2. logs[x] # None /\ logs[x].mail = m /\ logs[x].status = "pending"
      BY <1>4, <1>22, <3>1 DEF AtHand, Seen
    <3>3. QED
      BY <1>1, <2>1, <2>2, <3>1, <3>2 DEF Journal!HandOver, TakenMails
  <2>4. CASE run[a].name = "workflows"
    <3>1. run[a].own[x] # None /\ Writes(a, x)
      BY <1>1, <1>2, <1>4, <2>4 DEF AtHand, JournalOf
    <3>2. m \notin Reminders /\ logs[x] = None
      BY <1>11, <1>22, <2>4, <3>1 DEF Writes
    <3>3. QED
      BY <1>1, <2>1, <2>2, <3>2 DEF Journal!HandOver, TakenMails
  <2>5. QED
    BY <1>2, <2>3, <2>4
<1>24. inbox' = inbox \/ \E y \in Ids, mine \in Mails : Journal!HandOver(y, mine)
  <2>1. CASE taken
    BY <1>23, <2>1
  <2>2. CASE ~taken
    BY <1>15, <2>2
  <2>3. QED
    BY <2>1, <2>2
<1>25. QED
  BY <1>1, <1>21, <1>24

LEMMA JournalCommit ==
  ASSUME IInv, JournalInv, NEW a \in Runners, Commit(a)
  PROVE  JournalInv' /\ Journal!Settle /\ inbox' = inbox
<1>1. /\ TypeOK /\ JournalOf(a) /\ run[a].step \in {"answered", "ready"} /\ inbox' = inbox
      /\ logs' = [x \in Ids |-> Seen(a, x)]
  BY DEF IInv, JournalInv, Commit
<1>2. /\ run[a] # Idle /\ run[a] \in Job /\ run[a].own \in Table
      /\ run[a].name \in {"workflows", "reminders"}
  BY <1>1, JobFields
<1>3. PICK job : job = IF run[a].todo = {} THEN Idle
                       ELSE [run[a] EXCEPT !.step = "ready", !.began = None, !.own = NoRows]
  OBVIOUS
<1>4. run' = [run EXCEPT ![a] = job] /\ run'[a] = job
  <2>1. run' = [run EXCEPT ![a] = job]
    BY <1>3 DEF Commit
  <2>2. QED
    BY <1>1, <2>1 DEF TypeOK
<1>5. job = Idle \/ (job.step = "ready" /\ \A x \in Ids : job.own[x] = None)
  BY <1>2, <1>3 DEF Job, NoRows
<1>6. JournalOf(a)' /\ \A x \in Ids : ~Holds(a, x)'
  BY <1>4, <1>5 DEF JournalOf, Holds
<1>7. \A x \in Ids : logs'[x] # logs[x] => Holds(a, x)
  BY <1>1, <1>2 DEF Seen, Holds
<1>8. JournalInv'
  BY <1>1, <1>4, <1>6, <1>7, HeldByOne, HoldingStep
<1>9. ASSUME NEW x \in Ids, logs'[x] # logs[x] PROVE Journal!Settled(x)
  <2>1. run[a].own[x] # None /\ logs'[x] = run[a].own[x] /\ logs'[x] \in Row
    BY <1>1, <1>2, <1>9 DEF Seen, Table
  <2>2. Writes(a, x) /\ WritesTruth(a, x)
    BY <1>1, <1>2, <2>1 DEF JournalOf
  <2>3. /\ logs'[x].status \in {"sent", "failed"} /\ logs'[x].mail \in Mails
        /\ logs'[x].status = "sent" => TakenMails[x] = logs'[x].mail
    BY <1>1, <2>1, <2>2 DEF WritesTruth, Row, TakenMails
  <2>4. \/ logs[x] = None /\ logs'[x].mail \in Mails \ Reminders
        \/ /\ logs[x] # None /\ logs[x].status = "pending"
           /\ logs'[x] = [logs[x] EXCEPT !.status = logs'[x].status]
    BY <1>2, <2>1, <2>2, <2>3 DEF Writes
  <2>5. QED
    BY <2>1, <2>3, <2>4 DEF Journal!Settled, TakenMails
<1>10. Journal!Settle
  <2>1. logs' = [x \in Ids |-> logs'[x]]
    BY <1>1
  <2>2. QED
    BY <1>1, <1>9, <2>1 DEF Journal!Settle
<1>11. QED
  BY <1>1, <1>8, <1>10

LEMMA StepKeepsJournal ==
  ASSUME IInv, JournalInv, [Next]_vars
  PROVE  JournalInv' /\ [Journal!Next]_<<logs, TakenMails>>
<1>1. CASE UNCHANGED <<logs, inbox>> /\ JournalInv'
  BY <1>1 DEF TakenMails
<1>2. CASE Tick \/ UNCHANGED vars
  <2>1. UNCHANGED <<logs, inbox, run>>
    BY <1>2 DEF Tick, vars
  <2>2. QED
    BY <1>1, <2>1, JournalQuiet
<1>3. ASSUME NEW a \in Runners, NEW name \in {"workflows", "reminders"}, Start(a, name)
      PROVE  JournalInv' /\ [Journal!Next]_<<logs, TakenMails>>
  BY <1>1, <1>3, JournalStart DEF Start
<1>4. ASSUME NEW a \in Runners, NEW m \in Mails, Check(a, m) \/ Skip(a, m)
      PROVE  JournalInv' /\ [Journal!Next]_<<logs, TakenMails>>
  BY <1>1, <1>4, JournalCheck DEF Check, Skip
<1>5. ASSUME NEW a \in Runners, NEW x \in Ids, Record(a, x)
      PROVE  JournalInv' /\ [Journal!Next]_<<logs, TakenMails>>
  BY <1>1, <1>5, JournalRecord DEF Journal!Next
<1>6. ASSUME NEW a \in Runners, NEW taken \in BOOLEAN, NEW reported \in BOOLEAN,
             Dispatch(a, taken, reported)
      PROVE  JournalInv' /\ [Journal!Next]_<<logs, TakenMails>>
  BY <1>1, <1>6, JournalDispatch DEF Journal!Next
<1>7. ASSUME NEW a \in Runners, Commit(a)
      PROVE  JournalInv' /\ [Journal!Next]_<<logs, TakenMails>>
  BY <1>7, JournalCommit DEF Journal!Next
<1>8. ASSUME NEW a \in Runners, Crash(a)
      PROVE  JournalInv' /\ [Journal!Next]_<<logs, TakenMails>>
  BY <1>1, <1>8, JournalCrash DEF Crash
<1>9. QED
  BY <1>2, <1>3, <1>4, <1>5, <1>6, <1>7, <1>8 DEF Next

\* The rows of email_logs are a journal that a reader can trust, with any number of loops
\* and Celery workers, which need no lock for this, and wherever they die.
THEOREM JournalIsKeptHolds == Spec => JournalIsKept
<1>1. Init => Journal!Init
  BY DEF Init, NoRows, Journal!Init
<1>2. Journal!journalVars = <<logs, TakenMails>>
  BY DEF Journal!journalVars, TakenMails
<1>3. IInv /\ JournalInv /\ [Next]_vars => JournalInv' /\ [Journal!Next]_(Journal!journalVars)
  BY <1>2, StepKeepsJournal DEF TakenMails, Journal!journalVars
<1>4. QED
  BY <1>1, <1>3, InitIInv, InitJournalInv, NextIInv, PTL DEF Spec, JournalIsKept, Journal!Spec
=============================================================================
