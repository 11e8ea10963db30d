------------------------ MODULE BackupSchedulerProofs ------------------------
(***************************************************************************)
(* Theorems of BackupScheduler: type correctness, that no scheduled backup *)
(* is made twice, and that pruning spares the newest ones, for any number  *)
(* of runners, requests and identifiers, any length of the day and any     *)
(* clock.                                                                  *)
(***************************************************************************)
EXTENDS BackupScheduler, FiniteSetTheorems, TLAPS

(***************************************************************************)
(* Type correctness                                                        *)
(***************************************************************************)
LEMMA DumpIsContent ==
  ASSUME TypeOK
  PROVE  Dump \in Content
  BY DEF Dump, Content, TypeOK

LEMMA TodayRunIsInt ==
  ASSUME TypeOK
  PROVE  TodayRun \in Int
  BY BackupConstants DEF TodayRun, Today, TypeOK, Schedule, Time

\* The initial states are well typed.
LEMMA InitTypeOK == Init => TypeOK
  BY BackupConstants
  DEF Init, TypeOK, Time, Table, Actors, Runners, Job, Idle

\* The clock and the start of a backup.
LEMMA TypeOKClock ==
  ASSUME TypeOK,
         \/ Tick
         \/ \E a \in Runners : StartScheduled(a)
         \/ \E a \in Clients : StartManual(a)
  PROVE  TypeOK'
<1>1. CASE Tick
  BY <1>1, BackupConstants DEF Tick, TypeOK, Time, Job, Dumping, Flushed, Row, Table
<1>2. CASE \E a \in Runners : StartScheduled(a)
  <2>1. PICK a \in Runners : StartScheduled(a)
    BY <1>2
  <2>2. [stage |-> "dump", due |-> TodayRun, content |-> Dump] \in Job
    BY DumpIsContent, TodayRunIsInt DEF Job, Dumping
  <2>3. QED
    BY <2>1, <2>2 DEF StartScheduled, TypeOK
<1>3. CASE \E a \in Clients : StartManual(a)
  <2>1. PICK a \in Clients : StartManual(a)
    BY <1>3
  <2>2. [stage |-> "dump", due |-> None, content |-> Dump] \in Job
    BY DumpIsContent DEF Job, Dumping
  <2>3. QED
    BY <2>1, <2>2 DEF StartManual, TypeOK
<1>4. QED
  BY <1>1, <1>2, <1>3

LEMMA TypeOKFlush ==
  ASSUME TypeOK, NEW a \in Actors, NEW x \in Ids, Flush(a, x)
  PROVE  TypeOK'
<1>1. job[a] \in Dumping
  BY DEF Flush, TypeOK, Job, Dumping, Flushed, Idle, Failed
<1>2. PICK kept \in SUBSET (Rows(rows) \cup {x}) :
        LET dropped == (Rows(rows) \cup {x}) \ kept IN
        /\ files' = [y \in Ids |-> IF y \in dropped THEN None
                                   ELSE IF y = x THEN job[a].content ELSE files[y]]
        /\ job' = [job EXCEPT ![a] =
             [stage |-> "flushed", due |-> job[a].due, id |-> x, dropped |-> dropped,
              row |-> [kind |-> IF IsScheduled(a) THEN "scheduled" ELSE "manual",
                       completed |-> TRUE, created |-> now]]]
  BY DEF Flush
<1> DEFINE dropped == (Rows(rows) \cup {x}) \ kept
           row == [kind |-> IF IsScheduled(a) THEN "scheduled" ELSE "manual",
                   completed |-> TRUE, created |-> now]
<1>3. row \in Row
  BY DEF Row, TypeOK
<1>4. dropped \in SUBSET Ids
  BY DEF Rows
<1>5. [stage |-> "flushed", due |-> job[a].due, id |-> x, dropped |-> dropped,
       row |-> row] \in Job
  BY <1>1, <1>3, <1>4 DEF Job, Flushed, Dumping
<1>6. job' \in [Actors -> Job]
  BY <1>2, <1>5 DEF TypeOK
<1>7. files' \in [Ids -> Content \cup {None}]
  BY <1>1, <1>2 DEF Dumping, TypeOK
<1>8. QED
  BY <1>6, <1>7 DEF Flush, TypeOK

\* The end of a transaction.
LEMMA TypeOKEnd ==
  ASSUME TypeOK, NEW a \in Actors, Commit(a) \/ Fail(a) \/ GiveUp(a)
  PROVE  TypeOK'
<1>1. CASE Commit(a)
  <2>1. job[a] \in Flushed
    BY <1>1 DEF Commit, TypeOK, Job, Dumping, Flushed, Idle, Failed
  <2>2. rows' \in Table
    BY <1>1, <2>1 DEF Commit, TypeOK, Table, Flushed
  <2>3. QED
    BY <1>1, <2>2 DEF Commit, TypeOK, Job
<1>2. CASE Fail(a) \/ GiveUp(a)
  BY <1>2 DEF Fail, GiveUp, TypeOK, Job
<1>3. QED
  BY <1>1, <1>2

LEMMA TypeOKRows ==
  ASSUME TypeOK, NEW x \in Ids, NEW a \in Actors, SaveFailed(a, x)
  PROVE  TypeOK'
<1>1. [kind |-> "scheduled", completed |-> FALSE, created |-> now] \in Row
  BY DEF Row, TypeOK
<1>2. QED
  BY <1>1 DEF SaveFailed, TypeOK, Table, Job

LEMMA TypeOKDelete ==
  ASSUME TypeOK, NEW x \in Ids, NEW committed \in BOOLEAN, DeleteBackup(x, committed)
  PROVE  TypeOK'
  BY DEF DeleteBackup, TypeOK, Table

LEMMA TypeOKUpload ==
  ASSUME TypeOK, NEW x \in Ids, NEW y \in Ids, NEW committed \in BOOLEAN,
         UploadBackup(x, y, committed)
  PROVE  TypeOK'
<1>1. [kind |-> "uploaded", completed |-> TRUE, created |-> now] \in Row
  BY DEF Row, TypeOK
<1>2. QED
  BY <1>1 DEF UploadBackup, TypeOK, Table

LEMMA TypeOKSettings ==
  ASSUME TypeOK,
         \/ \E x \in Ids : RestoreBackup(x)
         \/ \E time \in 0 .. DayLength - 1 : SaveSchedule(time)
  PROVE  TypeOK'
<1>1. CASE \E x \in Ids : RestoreBackup(x)
  <2>1. PICK x \in Ids : RestoreBackup(x)
    BY <1>1
  <2>2. files[x] \in Content
    BY <2>1 DEF RestoreBackup, OnDisk, TypeOK
  <2>3. QED
    BY <2>1, <2>2 DEF RestoreBackup, TypeOK, Content
<1>2. CASE \E time \in 0 .. DayLength - 1 : SaveSchedule(time)
  BY <1>2 DEF SaveSchedule, TypeOK, Schedule
<1>3. QED
  BY <1>1, <1>2

\* Every step keeps the types.
LEMMA NextTypeOK == TypeOK /\ [Next]_vars => TypeOK'
<1> SUFFICES ASSUME TypeOK, [Next]_vars PROVE TypeOK'
  OBVIOUS
<1>1. CASE UNCHANGED vars
  BY <1>1 DEF vars, TypeOK
<1>2. CASE Next
  <2>1. CASE \/ Tick
             \/ \E a \in Runners : StartScheduled(a)
             \/ \E a \in Clients : StartManual(a)
    BY <2>1, TypeOKClock
  <2>2. CASE \E a \in Actors, x \in Ids : Flush(a, x)
    BY <2>2, TypeOKFlush
  <2>3. CASE \E a \in Actors : Commit(a) \/ Fail(a) \/ GiveUp(a)
    BY <2>3, TypeOKEnd
  <2>4. CASE \E a \in Actors, x \in Ids : SaveFailed(a, x)
    BY <2>4, TypeOKRows
  <2>5. CASE \E x \in Ids, committed \in BOOLEAN : DeleteBackup(x, committed)
    BY <2>5, TypeOKDelete
  <2>6. CASE \E x, y \in Ids, committed \in BOOLEAN : UploadBackup(x, y, committed)
    BY <2>6, TypeOKUpload
  <2>7. CASE \/ \E x \in Ids : RestoreBackup(x)
             \/ \E time \in 0 .. DayLength - 1 : SaveSchedule(time)
    BY <2>7, TypeOKSettings
  <2>8. QED
    BY <1>2, <2>1, <2>2, <2>3, <2>4, <2>5, <2>6, <2>7 DEF Next, Actors
<1>3. QED
  BY <1>1, <1>2

\* Every variable always has its type, whatever the constants are.
THEOREM TypeCorrect == Spec => []TypeOK
  BY InitTypeOK, NextTypeOK, PTL DEF Spec

(***************************************************************************)
(* No scheduled backup is made twice                                       *)
(***************************************************************************)
\* The advisory lock: only one runner is in its transaction.
OneRunner == \A a, b \in Runners : InTransaction(a) /\ InTransaction(b) => a = b

\* Only a runner makes a backup of kind "scheduled".
ClientsAreManual ==
  \A a \in Clients :
    /\ InTransaction(a) => job[a].due = None
    /\ job[a].stage = "flushed" => job[a].row.kind = "manual"

IInv == TypeOK /\ OneRunner /\ ClientsAreManual /\ NotMadeTwice

LEMMA InitIInv == Init => IInv
  BY InitTypeOK
  DEF Init, IInv, OneRunner, ClientsAreManual, NotMadeTwice, IsScheduled, InTransaction,
      Idle, Actors, Runners

\* A step that starts no transaction and leaves those in progress as they are cannot
\* break the invariant unless it adds a completed scheduled row.
LEMMA QuietStep ==
  ASSUME IInv, TypeOK',
         \A a \in Actors : job'[a].stage \in {"dump", "flushed"} => job'[a] = job[a],
         \A x \in Ids : rows'[x] = None \/ rows'[x] = rows[x]
                          \/ rows'[x].kind # "scheduled" \/ ~rows'[x].completed
  PROVE  IInv'
<1>1. OneRunner'
  BY DEF IInv, OneRunner, InTransaction, Actors
<1>2. ClientsAreManual'
  BY DEF IInv, ClientsAreManual, InTransaction, Actors
<1>3. NotMadeTwice'
  <2> SUFFICES ASSUME NEW a \in Runners, IsScheduled(a)', NEW x \in Rows(rows)',
                      Done(rows[x], job[a].due)'
               PROVE  FALSE
    BY DEF NotMadeTwice
  <2>1. job'[a] = job[a] /\ IsScheduled(a)
    BY DEF IsScheduled, InTransaction, Actors
  <2>2. x \in Ids /\ rows'[x] = rows[x] /\ x \in Rows(rows)
    BY DEF Rows, Done
  <2>3. QED
    BY <2>1, <2>2 DEF IInv, NotMadeTwice, Done
<1>4. QED
  BY <1>1, <1>2, <1>3 DEF IInv

\* Starting a scheduled backup: the lock was free, and the deduplication query found
\* nothing since the run time it is started for.
LEMMA StartStep ==
  ASSUME IInv, TypeOK', NEW a \in Runners, StartScheduled(a)
  PROVE  IInv'
<1>1. /\ job'[a] = [stage |-> "dump", due |-> TodayRun, content |-> Dump]
      /\ \A b \in Actors \ {a} : job'[b] = job[b]
      /\ rows' = rows
  BY DEF StartScheduled, IInv, TypeOK, Actors
<1>2. \A b \in Runners : InTransaction(b)' => b = a
  BY <1>1 DEF StartScheduled, LockFree, InTransaction, Actors
<1>3. a \notin Clients
  BY BackupConstants
<1>4. ClientsAreManual'
  BY <1>1, <1>3 DEF IInv, ClientsAreManual, InTransaction, Actors
<1>5. NotMadeTwice'
  BY <1>1, <1>2 DEF NotMadeTwice, IsScheduled, StartScheduled, Due, Rows, Done
<1>6. QED
  BY <1>2, <1>4, <1>5 DEF IInv, OneRunner

LEMMA StartManualStep ==
  ASSUME IInv, TypeOK', NEW a \in Clients, StartManual(a)
  PROVE  IInv'
<1>1. /\ job'[a] = [stage |-> "dump", due |-> None, content |-> Dump]
      /\ \A b \in Actors \ {a} : job'[b] = job[b]
      /\ rows' = rows
  BY DEF StartManual, IInv, TypeOK, Actors
<1>2. a \notin Runners
  BY BackupConstants
<1>3. OneRunner'
  BY <1>1, <1>2 DEF IInv, OneRunner, InTransaction, Actors
<1>4. ClientsAreManual'
  BY <1>1 DEF IInv, ClientsAreManual, InTransaction, Actors
<1>5. NotMadeTwice'
  BY <1>1, <1>2 DEF IInv, NotMadeTwice, IsScheduled, InTransaction, Rows, Done, Actors
<1>6. QED
  BY <1>3, <1>4, <1>5 DEF IInv

LEMMA FlushStep ==
  ASSUME IInv, TypeOK', NEW a \in Actors, NEW x \in Ids, Flush(a, x)
  PROVE  IInv'
<1>1. PICK dropped :
        job' = [job EXCEPT ![a] =
          [stage |-> "flushed", due |-> job[a].due, id |-> x, dropped |-> dropped,
           row |-> [kind |-> IF IsScheduled(a) THEN "scheduled" ELSE "manual",
                    completed |-> TRUE, created |-> now]]]
  BY DEF Flush
<1>2. /\ job[a].stage = "dump" /\ job'[a].stage = "flushed" /\ job'[a].due = job[a].due
      /\ job'[a].row.kind = IF IsScheduled(a) THEN "scheduled" ELSE "manual"
      /\ \A b \in Actors \ {a} : job'[b] = job[b]
      /\ rows' = rows
  BY <1>1 DEF Flush, IInv, TypeOK
<1>3. OneRunner'
  BY <1>2 DEF IInv, OneRunner, InTransaction, Actors
<1>4. ClientsAreManual'
  BY <1>2 DEF IInv, ClientsAreManual, InTransaction, IsScheduled, Actors
<1>5. NotMadeTwice'
  BY <1>2 DEF IInv, NotMadeTwice, IsScheduled, InTransaction, Rows, Done, Actors
<1>6. QED
  BY <1>3, <1>4, <1>5 DEF IInv

\* A runner that commits was the only one in a transaction; a client adds a manual row.
LEMMA CommitStep ==
  ASSUME IInv, TypeOK', NEW a \in Actors, Commit(a)
  PROVE  IInv'
<1>1. /\ job[a].stage = "flushed" /\ job'[a] = Idle
      /\ \A b \in Actors \ {a} : job'[b] = job[b]
      /\ \A y \in Ids : rows'[y] = None \/ rows'[y] = rows[y] \/ rows'[y] = job[a].row
  BY DEF Commit, IInv, TypeOK
<1>2. CASE a \in Clients
  <2>1. job[a].row.kind # "scheduled"
    BY <1>1, <1>2 DEF IInv, ClientsAreManual
  <2>2. QED
    BY <1>1, <2>1, QuietStep DEF Idle
<1>3. CASE a \in Runners
  <2>1. \A b \in Runners : ~InTransaction(b)'
    BY <1>1, <1>3 DEF IInv, OneRunner, InTransaction, Idle, Actors
  <2>2. ClientsAreManual'
    BY <1>1 DEF IInv, ClientsAreManual, InTransaction, Idle, Actors
  <2>3. QED
    BY <2>1, <2>2 DEF IInv, OneRunner, NotMadeTwice, IsScheduled
<1>4. QED
  BY <1>2, <1>3 DEF Actors

LEMMA NextIInv == IInv /\ [Next]_vars => IInv'
<1> SUFFICES ASSUME IInv, [Next]_vars PROVE IInv'
  OBVIOUS
<1>1. TypeOK'
  BY NextTypeOK DEF IInv
<1>2. CASE UNCHANGED vars \/ Tick \/ \E time \in 0 .. DayLength - 1 : SaveSchedule(time)
  BY <1>1, <1>2, QuietStep DEF vars, Tick, SaveSchedule
<1>3. CASE \E a \in Runners : StartScheduled(a)
  BY <1>1, <1>3, StartStep
<1>4. CASE \E a \in Clients : StartManual(a)
  BY <1>1, <1>4, StartManualStep
<1>5. CASE \E a \in Actors, x \in Ids : Flush(a, x)
  BY <1>1, <1>5, FlushStep
<1>6. CASE \E a \in Actors : Commit(a)
  BY <1>1, <1>6, CommitStep
<1>7. ASSUME NEW a \in Actors, Fail(a) \/ GiveUp(a)
      PROVE  IInv'
  <2>1. job'[a] \in {Idle, Failed} /\ \A b \in Actors \ {a} : job'[b] = job[b]
    BY <1>7 DEF Fail, GiveUp, IInv, TypeOK
  <2>2. QED
    BY <1>1, <1>7, <2>1, QuietStep DEF Fail, GiveUp, Idle, Failed
<1>8. ASSUME NEW a \in Actors, NEW x \in Ids, SaveFailed(a, x)
      PROVE  IInv'
  <2>1. job'[a] = Idle /\ \A b \in Actors \ {a} : job'[b] = job[b]
    BY <1>8 DEF SaveFailed, IInv, TypeOK
  <2>2. \A y \in Ids : rows'[y] = rows[y] \/ ~rows'[y].completed
    BY <1>8 DEF SaveFailed, IInv, TypeOK, Table
  <2>3. QED
    BY <1>1, <2>1, <2>2, QuietStep DEF Idle
<1>9. ASSUME NEW x \in Ids, NEW committed \in BOOLEAN, DeleteBackup(x, committed)
      PROVE  IInv'
  <2>1. \A y \in Ids : rows'[y] = rows[y] \/ rows'[y] = None
    BY <1>9 DEF DeleteBackup, IInv, TypeOK, Table
  <2>2. QED
    BY <1>1, <1>9, <2>1, QuietStep DEF DeleteBackup
<1>10. ASSUME NEW x \in Ids, NEW y \in Ids, NEW committed \in BOOLEAN,
              UploadBackup(x, y, committed)
       PROVE  IInv'
  <2>1. \A z \in Ids : rows'[z] = rows[z] \/ rows'[z].kind # "scheduled"
    BY <1>10 DEF UploadBackup, IInv, TypeOK, Table
  <2>2. QED
    BY <1>1, <1>10, <2>1, QuietStep DEF UploadBackup
<1>11. ASSUME NEW x \in Ids, RestoreBackup(x)
       PROVE  IInv'
  <2>1. job' = job /\ \A a \in Actors : ~InTransaction(a) /\ ~InTransaction(a)'
    BY <1>11 DEF RestoreBackup, InTransaction
  <2>2. QED
    BY <1>1, <2>1
    DEF IInv, OneRunner, ClientsAreManual, NotMadeTwice, IsScheduled, InTransaction, Actors
<1>12. QED
  BY <1>2, <1>3, <1>4, <1>5, <1>6, <1>7, <1>8, <1>9, <1>10, <1>11 DEF Next, Actors

\* While a runner makes a scheduled backup, no completed scheduled backup exists since
\* the run time it was started for: the advisory lock and the deduplication query
\* together make the check and the commit one step.
THEOREM NotMadeTwiceHolds == Spec => []NotMadeTwice
<1>1. IInv => NotMadeTwice
  BY DEF IInv
<1>2. QED
  BY <1>1, InitIInv, NextIInv, PTL DEF Spec

(***************************************************************************)
(* Pruning                                                                 *)
(***************************************************************************)
\* What is kept fills the retention count if a row is dropped, and but for the new
\* backup it is at least as new as that row.
LEMMA NewestFillsRetention ==
  ASSUME TypeOK, NEW new \in Ids, NEW n \in Nat, NEW kept, Newest(new, n, kept),
         NEW x \in Rows(rows) \ kept
  PROVE  Cardinality(AtLeastAsNew(x)) + 1 >= n
<1>1. IsFiniteSet(Ids) /\ kept \subseteq Ids /\ AtLeastAsNew(x) \subseteq Ids
  BY BackupConstants DEF Newest, Rows, AtLeastAsNew
<1>2. IsFiniteSet(kept) /\ IsFiniteSet(AtLeastAsNew(x))
  BY <1>1, FS_Subset
<1>3. Cardinality(kept) \in Nat /\ Cardinality(AtLeastAsNew(x)) \in Nat
  BY <1>2, FS_CardinalityType
<1>4. CASE n = 0
  BY <1>3, <1>4
<1>5. CASE n > 0
  <2>1. Cardinality(kept) = n
    BY <1>3 DEF Newest
  <2>2. new \in kept
    BY <1>5 DEF Newest
  <2>3. Cardinality(kept \ {new}) = n - 1
    BY <1>2, <2>1, <2>2, FS_RemoveElement
  <2>4. kept \ {new} \subseteq AtLeastAsNew(x)
    BY DEF Newest, AtLeastAsNew
  <2>5. Cardinality(kept \ {new}) <= Cardinality(AtLeastAsNew(x))
    BY <1>2, <2>4, FS_Subset
  <2>6. QED
    BY <1>3, <2>3, <2>5
<1>6. QED
  BY <1>4, <1>5

\* The end of pg_dump is the only step but a deletion that takes a file away.
LEMMA FilesAreLeft ==
  ASSUME TypeOK, [Next]_vars, NEW x \in Rows(rows), OnDisk(x), ~OnDisk(x)', ~Deletes(x)
  PROVE  \E a \in Actors, new \in Ids : Flush(a, new)
<1>1. x \in Ids /\ files[x] # None /\ files'[x] = None
  BY DEF OnDisk, Rows
<1>2. ~UNCHANGED files
  BY <1>1
<1>3. ASSUME NEW y \in Ids, NEW committed \in BOOLEAN, DeleteBackup(y, committed)
      PROVE  FALSE
  <2>1. files' = [files EXCEPT ![y] = None] /\ y # x
    BY <1>3 DEF DeleteBackup, Deletes
  <2>2. QED
    BY <1>1, <2>1 DEF TypeOK
<1>4. ASSUME NEW z \in Ids, NEW y \in Ids, NEW committed \in BOOLEAN,
             UploadBackup(z, y, committed)
      PROVE  FALSE
  BY <1>1, <1>4 DEF UploadBackup, OnDisk, TypeOK
<1>5. QED
  BY <1>2, <1>3, <1>4
  DEF Next, vars, Actors, Tick, StartScheduled, StartManual, Commit, GiveUp, Fail,
      SaveFailed, RestoreBackup, SaveSchedule

\* What PruningSparesNewest says of one step.
SparesNewest ==
  \A x \in Rows(rows) : OnDisk(x) /\ ~OnDisk(x)' =>
    Deletes(x) \/ Cardinality(AtLeastAsNew(x)) + 1 >= schedule.retention

LEMMA StepSparesNewest == TypeOK /\ [Next]_vars => [SparesNewest]_vars
<1> SUFFICES ASSUME TypeOK, [Next]_vars, NEW x \in Rows(rows),
                    OnDisk(x), ~OnDisk(x)', ~Deletes(x)
             PROVE  Cardinality(AtLeastAsNew(x)) + 1 >= schedule.retention
  BY DEF SparesNewest
<1>1. PICK a \in Actors, new \in Ids : Flush(a, new)
  BY FilesAreLeft
<1>2. PICK kept \in SUBSET (Rows(rows) \cup {new}) :
        /\ Newest(new, schedule.retention, kept)
        /\ files' = [y \in Ids |-> IF y \in (Rows(rows) \cup {new}) \ kept THEN None
                                  ELSE IF y = new THEN job[a].content ELSE files[y]]
  BY <1>1 DEF Flush
<1>3. x \in Ids /\ x # new /\ files[x] # None /\ files'[x] = None
  BY <1>1 DEF Flush, Unused, OnDisk, Rows
<1>4. x \in Rows(rows) \ kept
  BY <1>2, <1>3
<1>5. schedule.retention \in Nat
  BY DEF TypeOK, Schedule
<1>6. QED
  BY <1>2, <1>4, <1>5, NewestFillsRetention

\* A backup on record loses its file only by its deletion, or when as many others as
\* are to be kept are at least as new, although backups that prune at the same time do
\* not see each other's rows.
THEOREM PruningSparesNewestHolds == Spec => PruningSparesNewest
  BY InitTypeOK, NextTypeOK, StepSparesNewest, PTL
  DEF Spec, PruningSparesNewest, SparesNewest
=============================================================================
