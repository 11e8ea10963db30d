-------------------------- MODULE QueryCacheProofs --------------------------
(***************************************************************************)
(* The theorems about QueryCache, for every table of queries, mutations    *)
(* and places, any number of mutations in flight and every bound.          *)
(***************************************************************************)
EXTENDS QueryCache, TLAPS

LEMMA Bounds ==
  /\ MaxVersion \in Nat /\ MaxFailures \in Nat
  /\ 0 \in Versions /\ 0 \in 0..MaxFailures
  /\ NoData \notin Versions
  BY QueryCacheAssumption DEF Versions

LEMMA IdleIsARecord == Idle \in FetchRecords /\ Idle.stage = "idle"
  BY Bounds DEF Idle, FetchRecords

LEMMA RequestIsARecord ==
  ASSUME NEW awaiting \in SUBSET Slots
  PROVE  /\ Request(awaiting) \in FetchRecords
         /\ Request(awaiting).stage = "sent"
         /\ Request(awaiting).awaiting = awaiting
  BY Bounds DEF Request, FetchRecords

LEMMA NoMutationIsARecord ==
  NoMutation \in MutationRecords /\ NoMutation.stage = "none"
  BY Bounds DEF NoMutation, MutationRecords

LEMMA AwaitingIsASet ==
  ASSUME NEW s \in Slots
  PROVE  Awaiting(s) \in SUBSET Slots
  BY DEF Awaiting

LEMMA AfterIsARecord ==
  ASSUME TypeOK, NEW s \in Slots, NEW r \in MutationRecords
  PROVE  After(s, r) \in MutationRecords
<1>1. Owed(s) \in BOOLEAN
  BY DEF Owed, Mounted
<1>2. Settling(r.m, r.v, Owed(s)) \in MutationRecords
  BY <1>1 DEF Settling, MutationRecords
<1> QED
  BY <1>2, NoMutationIsARecord DEF After

LEMMA ReleaseIsTyped ==
  ASSUME TypeOK, NEW awaiting \in SUBSET Slots
  PROVE  Release(awaiting) \in [Slots -> MutationRecords]
  BY DEF Release, TypeOK, MutationRecords

-----------------------------------------------------------------------------
LEMMA InitTyped == Init => TypeOK
<1> SUFFICES ASSUME Init PROVE TypeOK
  OBVIOUS
<1>1. q \in DOMAIN Queries /\ place \in DOMAIN Places
  BY QueryCacheAssumption DEF Init, WatchedQueries
<1>2. fetch \in FetchRecords
  BY IdleIsARecord, RequestIsARecord DEF Init
<1>3. pending \in [Slots -> MutationRecords]
  BY NoMutationIsARecord DEF Init
<1> QED
  BY <1>1, <1>2, <1>3, Bounds DEF Init, TypeOK

LEMMA MoveTyped ==
  ASSUME TypeOK, q \in {pair[2] : pair \in Scenarios}, NEW p \in Stops[q], Move(p)
  PROVE  TypeOK'
<1>1. p \in DOMAIN Places
  BY QueryCacheAssumption
<1>2. /\ view' \in Versions \cup {NoData} /\ outdated' \in BOOLEAN
      /\ failed' \in BOOLEAN /\ fetch' \in FetchRecords
  BY IdleIsARecord, RequestIsARecord DEF Move, Leave, Stay, Mount, NoEntry, Join, TypeOK
<1> QED
  BY <1>1, <1>2 DEF Move, TypeOK

LEMMA EntryTyped ==
  ASSUME TypeOK,
         ChangeParameters \/ Age \/ HideTab \/ ShowTab \/ Poll \/ Read \/ Arrive \/ Fail \/ Retry
  PROVE  TypeOK'
<1>1. CASE ChangeParameters
  BY <1>1, RequestIsARecord DEF ChangeParameters, NewEntry, TypeOK
<1>2. CASE Age \/ HideTab
  BY <1>2 DEF Age, HideTab, TypeOK
<1>3. CASE ShowTab \/ Poll
  BY <1>3, RequestIsARecord DEF ShowTab, Poll, Join, TypeOK
<1>4. CASE Read
  BY <1>4 DEF Read, TypeOK, FetchRecords
<1>5. CASE Arrive
  BY <1>5, IdleIsARecord DEF Arrive, NoEntry, TypeOK, FetchRecords
<1>6. CASE Fail
  <2>1. failures' \in 0..MaxFailures
    BY <1>6, Bounds DEF Fail, TypeOK
  <2>2. [Request(fetch.awaiting) EXCEPT !.stage = "waiting"] \in FetchRecords
    BY RequestIsARecord DEF TypeOK, FetchRecords
  <2> QED
    BY <1>6, <2>1, <2>2, IdleIsARecord DEF Fail, NoEntry, TypeOK
<1>7. CASE Retry
  <2>1. [fetch EXCEPT !.stage = "sent", !.retried = TRUE] \in FetchRecords
    BY DEF TypeOK, FetchRecords
  <2> QED
    BY <1>7, <2>1, IdleIsARecord DEF Retry, NoEntry, TypeOK
<1> QED
  BY <1>1, <1>2, <1>3, <1>4, <1>5, <1>6, <1>7

LEMMA SendTyped ==
  ASSUME TypeOK, NEW s \in Slots, NEW m \in Offered, Send(s, m)
  PROVE  TypeOK'
<1>1. m \in DOMAIN Mutations
  BY QueryCacheAssumption DEF Offered, TypeOK
<1>2. Sent(m) \in MutationRecords
  BY <1>1, Bounds DEF Sent, MutationRecords
<1> QED
  BY <1>2 DEF Send, TypeOK

LEMMA AnswerTyped ==
  ASSUME TypeOK, NEW s \in Slots, Answer(s)
  PROVE  TypeOK'
<1>1. own' \in Versions
  BY DEF Answer, TypeOK, MutationRecords
<1>2. fetch.awaiting \in SUBSET Slots /\ Awaiting(s) \in SUBSET Slots
  BY AwaitingIsASet DEF TypeOK, FetchRecords
<1>3. fetch' \in FetchRecords /\ outdated' \in BOOLEAN
  <2>1. [fetch EXCEPT !.awaiting = @ \cup Awaiting(s)] \in FetchRecords
    BY <1>2 DEF TypeOK, FetchRecords
  <2>2. (view # NoData \/ outdated) \in BOOLEAN
    OBVIOUS
  <2> QED
    BY <1>2, <2>1, <2>2, RequestIsARecord DEF Answer, Refetch, Invalidate, Ignore, TypeOK
<1>4. pending' \in [Slots -> MutationRecords]
  <2> DEFINE cleared == Release(fetch.awaiting)
  <2>1. cleared \in [Slots -> MutationRecords] /\ pending \in [Slots -> MutationRecords]
    BY <1>2, ReleaseIsTyped DEF TypeOK
  <2>2. After(s, cleared[s]) \in MutationRecords /\ After(s, pending[s]) \in MutationRecords
    BY <2>1, AfterIsARecord
  <2>3. \/ pending' = [cleared EXCEPT ![s] = After(s, cleared[s])]
        \/ pending' = [pending EXCEPT ![s] = After(s, pending[s])]
    BY DEF Answer, Refetch, Invalidate, Ignore
  <2> HIDE DEF cleared
  <2> QED
    BY <2>1, <2>2, <2>3
<1> QED
  BY <1>1, <1>3, <1>4 DEF Answer, TypeOK

LEMMA MutationTyped ==
  ASSUME TypeOK, NEW s \in Slots, Commit(s) \/ Settle(s) \/ Refuse(s)
  PROVE  TypeOK'
<1>1. CASE Commit(s)
  <2>1. server + 1 \in Versions /\ server' = server + 1
    BY <1>1, Bounds DEF Commit, TypeOK, Versions
  <2>2. Done(pending[s].m, server + 1) \in MutationRecords
    BY <2>1 DEF TypeOK, MutationRecords, Done
  <2>3. pending' \in [Slots -> MutationRecords]
    BY <1>1, <2>1, <2>2 DEF Commit, TypeOK
  <2> QED
    BY <1>1, <2>1, <2>3 DEF Commit, TypeOK
<1>2. CASE Settle(s)
  BY <1>2, NoMutationIsARecord DEF Settle, TypeOK
<1>3. CASE Refuse(s)
  <2>1. failures' \in 0..MaxFailures
    BY <1>3, Bounds DEF Refuse, TypeOK
  <2> QED
    BY <1>3, <2>1, NoMutationIsARecord DEF Refuse, TypeOK
<1> QED
  BY <1>1, <1>2, <1>3

\* The query that is watched is one of a scenario, throughout.
Watched == q \in {pair[2] : pair \in Scenarios}

LEMMA StepWatched ==
  ASSUME [Next]_vars
  PROVE  q' = q
  BY DEF Next, vars, Move, ChangeParameters, Age, HideTab, ShowTab, Poll, Read, Arrive, Fail,
         Retry, Send, Commit, Answer, Settle, Refuse, OthersWrite

LEMMA StepTyped ==
  ASSUME TypeOK, Watched, [Next]_vars
  PROVE  TypeOK'
<1>2. CASE \E p \in Stops[q] : Move(p)
  BY <1>2, MoveTyped DEF Watched
<1>3. CASE ChangeParameters \/ Age \/ HideTab \/ ShowTab \/ Poll \/ Read \/ Arrive \/ Fail \/ Retry
  BY <1>3, EntryTyped
<1>4. CASE \E s \in Slots : \E m \in Offered : Send(s, m)
  BY <1>4, SendTyped
<1>5. CASE \E s \in Slots : Commit(s) \/ Answer(s) \/ Settle(s) \/ Refuse(s)
  BY <1>5, MutationTyped, AnswerTyped
<1>6. CASE OthersWrite
  BY <1>6, Bounds DEF OthersWrite, TypeOK, Versions
<1>7. CASE UNCHANGED vars
  BY <1>7 DEF vars, TypeOK
<1> QED
  BY <1>2, <1>3, <1>4, <1>5, <1>6, <1>7 DEF Next

\* Types are correct: the cache entry, its request and the mutations keep their shape.
THEOREM TypeCorrect == Spec => []TypeOK
<1>1. Init => TypeOK /\ Watched
  BY InitTyped DEF Init, Watched, WatchedQueries
<1>2. TypeOK /\ Watched /\ [Next]_vars => TypeOK' /\ Watched'
  BY StepTyped, StepWatched DEF Watched
<1> QED
  BY <1>1, <1>2, PTL DEF Spec
-----------------------------------------------------------------------------
(***************************************************************************)
(* The inductive invariant.  OwnWritesShown by itself is not inductive: an *)
(* answer that is on its way must not be older than the write it will hide *)
(* (EntryConsistent), and a mutation that still waits must be waited for   *)
(* by a request that is new enough (MutationConsistent).                   *)
(***************************************************************************)
EntryConsistent ==
  /\ own <= server
  /\ view # NoData => view <= server
  /\ fetch.stage = "read" =>
       /\ fetch.v <= server
       /\ fetch.v >= own
       /\ view # NoData => fetch.v >= view
  /\ view # NoData /\ view < own => fetch.stage # "idle" \/ failed

MutationConsistent(s) ==
  /\ pending[s].v <= server
  /\ pending[s].stage # "none" =>
       <<pending[s].m, q>> \in Scenarios /\ pending[s].m \in DOMAIN Mutations
  /\ pending[s].stage = "settling" /\ pending[s].due =>
       /\ fetch.stage = "read" => fetch.v >= pending[s].v
       /\ view # NoData /\ view < pending[s].v =>
            failed \/ (fetch.stage # "idle" /\ s \in fetch.awaiting)

Consistent == EntryConsistent /\ \A s \in Slots : MutationConsistent(s)

LEMMA InitConsistent == Init => Consistent
<1> SUFFICES ASSUME Init PROVE Consistent
  OBVIOUS
<1>1. fetch.stage # "read"
  BY IdleIsARecord, RequestIsARecord DEF Init
<1>2. EntryConsistent
  BY <1>1 DEF Init, EntryConsistent
<1>3. \A s \in Slots : MutationConsistent(s)
  BY DEF Init, MutationConsistent, NoMutation
<1> QED
  BY <1>2, <1>3 DEF Consistent

\* What a step leaves of the invariant when it touches neither the mutations nor the data
\* of the server: enough that the request is kept, or is a new one.
LEMMA EntryStep ==
  ASSUME TypeOK, Consistent, UNCHANGED <<q, server, pending, own>>,
         \/ UNCHANGED <<view, failed, fetch>>
         \/ UNCHANGED <<view, failed>> /\ fetch'.stage = "sent" /\ fetch.stage = "idle"
         \/ UNCHANGED <<view, failed>> /\ fetch'.stage \in {"sent", "waiting"}
              /\ fetch.stage # "idle" /\ fetch'.awaiting = fetch.awaiting
         \/ view' = NoData /\ fetch'.stage # "read"
         \/ view' = view /\ failed' /\ fetch'.stage = "idle"
  PROVE  Consistent'
<1>1. EntryConsistent'
  BY DEF Consistent, EntryConsistent
<1>2. ASSUME NEW s \in Slots PROVE MutationConsistent(s)'
  <2>1. MutationConsistent(s)
    BY DEF Consistent
  <2> QED
    BY <2>1 DEF MutationConsistent
<1> QED
  BY <1>1, <1>2 DEF Consistent

LEMMA MoveConsistent ==
  ASSUME TypeOK, Consistent, NEW p \in Stops[q], Move(p)
  PROVE  Consistent'
<1>1. Join => \/ fetch' = fetch
              \/ fetch'.stage = "sent" /\ fetch.stage = "idle"
  BY RequestIsARecord DEF Join
<1>2. NoEntry => view' = NoData /\ fetch'.stage # "read"
  BY IdleIsARecord DEF NoEntry
<1> QED
  BY <1>1, <1>2, EntryStep DEF Move, Leave, Stay, Mount

LEMMA ReadConsistent ==
  ASSUME TypeOK, Consistent, Read
  PROVE  Consistent'
<1>1. fetch'.stage = "read" /\ fetch'.v = server /\ fetch'.awaiting = fetch.awaiting
  BY DEF Read, TypeOK, FetchRecords
<1>2. EntryConsistent'
  BY <1>1 DEF Read, Consistent, EntryConsistent, TypeOK, Versions
<1>3. ASSUME NEW s \in Slots PROVE MutationConsistent(s)'
  BY <1>1 DEF Read, Consistent, MutationConsistent, TypeOK, Versions
<1> QED
  BY <1>2, <1>3 DEF Consistent

LEMMA ArriveConsistent ==
  ASSUME TypeOK, Consistent, Arrive
  PROVE  Consistent'
<1>1. CASE ~Mounted
  BY <1>1, IdleIsARecord, EntryStep DEF Arrive, NoEntry
<1>2. CASE Mounted
  <2>1. fetch.stage = "read" /\ view' = fetch.v /\ fetch' = Idle /\ fetch'.stage = "idle"
    BY <1>2, IdleIsARecord DEF Arrive
  <2>2. EntryConsistent'
    BY <2>1 DEF Arrive, Consistent, EntryConsistent, TypeOK, FetchRecords, Versions
  <2>3. ASSUME NEW s \in Slots PROVE MutationConsistent(s)'
    <3>1. MutationConsistent(s) /\ pending[s].v \in Versions
      BY DEF Consistent, TypeOK, MutationRecords
    <3> QED
      BY <2>1, <3>1 DEF Arrive, MutationConsistent, TypeOK, FetchRecords, Versions
  <2> QED
    BY <2>2, <2>3 DEF Consistent
<1> QED
  BY <1>1, <1>2

LEMMA FailConsistent ==
  ASSUME TypeOK, Consistent, Fail \/ Retry
  PROVE  Consistent'
<1>1. /\ [Request(fetch.awaiting) EXCEPT !.stage = "waiting"].stage = "waiting"
      /\ [Request(fetch.awaiting) EXCEPT !.stage = "waiting"].awaiting = fetch.awaiting
  BY DEF Request
<1>2. Idle.stage = "idle"
  BY IdleIsARecord
<1>3. /\ [fetch EXCEPT !.stage = "sent", !.retried = TRUE].stage = "sent"
      /\ [fetch EXCEPT !.stage = "sent", !.retried = TRUE].awaiting = fetch.awaiting
  BY DEF TypeOK, FetchRecords
<1>4. CASE Fail
  BY <1>1, <1>2, <1>4, EntryStep DEF Fail, NoEntry
<1>5. CASE Retry
  BY <1>2, <1>3, <1>5, EntryStep DEF Retry, NoEntry
<1> QED
  BY <1>4, <1>5

LEMMA EntryActionsConsistent ==
  ASSUME TypeOK, Consistent,
         ChangeParameters \/ Age \/ HideTab \/ ShowTab \/ Poll \/ Read \/ Arrive \/ Fail \/ Retry
  PROVE  Consistent'
<1>1. CASE ChangeParameters
  BY <1>1, RequestIsARecord, EntryStep DEF ChangeParameters, NewEntry
<1>2. CASE Age \/ HideTab
  BY <1>2, EntryStep DEF Age, HideTab
<1>3. CASE ShowTab \/ Poll
  BY <1>3, RequestIsARecord, EntryStep DEF ShowTab, Poll, Join
<1> QED
  BY <1>1, <1>2, <1>3, ReadConsistent, ArriveConsistent, FailConsistent

LEMMA OtherMutationsKept ==
  ASSUME TypeOK, Consistent, UNCHANGED <<q, view, fetch, failed>>,
         server' \in {server, server + 1}, NEW s \in Slots, pending'[s] = pending[s]
  PROVE  MutationConsistent(s)'
<1>1. MutationConsistent(s) /\ pending[s].v \in Int /\ server \in Int
  BY DEF Consistent, TypeOK, MutationRecords, Versions
<1> QED
  BY <1>1 DEF MutationConsistent

LEMMA MutationStep ==
  ASSUME TypeOK, Consistent, UNCHANGED <<q, view, fetch, failed, own>>,
         server' \in {server, server + 1},
         NEW s \in Slots, NEW r \in MutationRecords,
         pending' = [pending EXCEPT ![s] = r],
         r.v <= server',
         r.stage # "none" => <<r.m, q>> \in Scenarios /\ r.m \in DOMAIN Mutations,
         r.stage # "settling"
  PROVE  Consistent'
<1>1. EntryConsistent'
  BY DEF Consistent, EntryConsistent, TypeOK, FetchRecords, Versions
<1>2. ASSUME NEW t \in Slots PROVE MutationConsistent(t)'
  <2>1. CASE t = s
    BY <2>1 DEF TypeOK, MutationConsistent
  <2>2. CASE t # s
    BY <2>2, OtherMutationsKept DEF TypeOK
  <2> QED
    BY <2>1, <2>2
<1> QED
  BY <1>1, <1>2 DEF Consistent

LEMMA MutationActionsConsistent ==
  ASSUME TypeOK, Consistent, NEW s \in Slots,
         \/ \E m \in Offered : Send(s, m)
         \/ Commit(s) \/ Settle(s) \/ Refuse(s)
  PROVE  Consistent'
<1>1. server \in Nat /\ pending[s] \in MutationRecords /\ MutationConsistent(s)
  BY DEF TypeOK, Consistent, Versions
<1>2. ASSUME NEW m \in Offered, Send(s, m) PROVE Consistent'
  <2>1. m \in DOMAIN Mutations /\ <<m, q>> \in Scenarios
    BY QueryCacheAssumption DEF Offered, TypeOK
  <2>2. Sent(m) \in MutationRecords /\ Sent(m).v = 0 /\ Sent(m).m = m /\ Sent(m).stage = "sent"
    BY <2>1, Bounds DEF Sent, MutationRecords
  <2>3. /\ UNCHANGED <<q, view, fetch, failed, own>>
        /\ server' \in {server, server + 1}
        /\ pending' = [pending EXCEPT ![s] = Sent(m)]
    BY <1>2 DEF Send
  <2>4. 0 <= server'
    BY <1>1, <1>2 DEF Send
  <2> QED
    BY <2>1, <2>2, <2>3, <2>4, MutationStep
<1>3. CASE Commit(s)
  <2> DEFINE r == Done(pending[s].m, server + 1)
  <2>1. server + 1 \in Versions /\ server' = server + 1
    BY <1>3, Bounds DEF Commit, TypeOK, Versions
  <2>2. /\ r \in MutationRecords
        /\ r.v = server + 1 /\ r.stage = "done" /\ r.m = pending[s].m
    BY <1>1, <2>1 DEF Done, MutationRecords
  <2>3. pending' = [pending EXCEPT ![s] = r]
    BY <1>3 DEF Commit
  <2>4. <<r.m, q>> \in Scenarios /\ r.m \in DOMAIN Mutations
    BY <1>1, <1>3, <2>2 DEF Commit, MutationConsistent
  <2>5. UNCHANGED <<q, view, fetch, failed, own>>
    BY <1>3 DEF Commit
  <2>6. r.v <= server' /\ r.stage # "settling"
    BY <1>1, <2>1, <2>2
  <2> HIDE DEF r
  <2> QED
    BY <2>1, <2>2, <2>3, <2>4, <2>5, <2>6, MutationStep
<1>4. CASE Settle(s) \/ Refuse(s)
  <2>1. /\ UNCHANGED <<q, view, fetch, failed, own>>
        /\ server' \in {server, server + 1}
        /\ pending' = [pending EXCEPT ![s] = NoMutation]
    BY <1>4 DEF Settle, Refuse
  <2>2. NoMutation.v <= server'
    BY <1>1, <1>4 DEF NoMutation, Settle, Refuse
  <2> QED
    BY <2>1, <2>2, NoMutationIsARecord, MutationStep
<1> QED
  BY <1>2, <1>3, <1>4

LEMMA OthersWriteConsistent ==
  ASSUME TypeOK, Consistent, OthersWrite
  PROVE  Consistent'
<1>1. EntryConsistent'
  BY DEF OthersWrite, Consistent, EntryConsistent, TypeOK, FetchRecords, Versions
<1>2. ASSUME NEW s \in Slots PROVE MutationConsistent(s)'
  BY OtherMutationsKept DEF OthersWrite
<1> QED
  BY <1>1, <1>2 DEF Consistent

-----------------------------------------------------------------------------
\* The answer of a mutation.
LEMMA OwedIsInvalidated ==
  ASSUME TypeOK, Consistent, InvalidationComplete, NEW s \in Slots,
         pending[s].stage = "done", Owed(s)
  PROVE  Invalidates(pending[s].m) /\ Mounted /\ view # NoData
<1> DEFINE pair == <<pending[s].m, q>>
<1>1. pair \in Scenarios /\ pair[1] \in DOMAIN Mutations
  BY DEF Consistent, MutationConsistent
<1>2. pair \notin KnownGaps /\ SharesScreen(pair[1], pair[2])
  BY DEF Owed
<1>3. Matches(pair[1], pair[2])
  BY <1>1, <1>2 DEF InvalidationComplete
<1> QED
  BY <1>3 DEF Owed, Invalidates

\* Where the answer leaves its mutation: over, or waiting, and due only when the page owes
\* the write.
LEMMA AfterAnswer ==
  ASSUME TypeOK, Consistent, NEW s \in Slots, pending[s].stage = "done",
         NEW r \in MutationRecords, r.m = pending[s].m, r.v = pending[s].v
  PROVE  /\ After(s, r).v <= server
         /\ After(s, r).stage # "none" =>
              <<After(s, r).m, q>> \in Scenarios /\ After(s, r).m \in DOMAIN Mutations
         /\ After(s, r).stage = "settling" /\ After(s, r).due =>
              Owed(s) /\ Awaiting(s) = {s} /\ After(s, r).v = pending[s].v
<1>1. /\ pending[s].v <= server /\ server \in Nat
      /\ <<pending[s].m, q>> \in Scenarios /\ pending[s].m \in DOMAIN Mutations
  BY DEF Consistent, MutationConsistent, TypeOK, Versions
<1>2. CASE Mutations[r.m].returned
  <2>1. After(s, r) = Settling(r.m, r.v, Owed(s))
    BY <1>2 DEF After
  <2>2. /\ After(s, r).v = r.v /\ After(s, r).m = r.m
        /\ After(s, r).due = Owed(s)
    BY <2>1 DEF Settling
  <2>3. Awaiting(s) = {s}
    BY <1>2 DEF Awaiting
  <2> QED
    BY <1>1, <2>2, <2>3
<1>3. CASE ~Mutations[r.m].returned
  BY <1>1, <1>3 DEF After, NoMutation
<1> QED
  BY <1>2, <1>3
\* What the release of a cancelled request leaves of a mutation.
LEMMA Released ==
  ASSUME TypeOK, NEW awaiting \in SUBSET Slots, NEW t \in Slots
  PROVE  /\ Release(awaiting)[t] \in MutationRecords
         /\ Release(awaiting)[t].m = pending[t].m
         /\ Release(awaiting)[t].v = pending[t].v
         /\ Release(awaiting)[t].stage = pending[t].stage
         /\ t \in awaiting => ~Release(awaiting)[t].due
         /\ t \notin awaiting => Release(awaiting)[t] = pending[t]
<1>1. pending[t] \in MutationRecords
  BY DEF TypeOK
<1> QED
  BY <1>1 DEF Release, MutationRecords

\* An answer leaves the other mutations as they are, or as their cancelled request does.
LEMMA OthersAfterAnswer ==
  ASSUME TypeOK, Consistent, UNCHANGED <<q, server, view, failed>>,
         NEW t \in Slots,
         \/ /\ pending'[t] = Release(fetch.awaiting)[t]
            /\ fetch'.stage = "sent"
         \/ /\ pending'[t] = pending[t]
            /\ fetch'.stage = fetch.stage /\ fetch'.v = fetch.v
            /\ fetch.awaiting \subseteq fetch'.awaiting
         \/ /\ pending'[t] = pending[t]
            /\ fetch.stage = "idle" /\ fetch'.stage = "sent"
  PROVE  MutationConsistent(t)'
<1>1. MutationConsistent(t) /\ fetch.awaiting \in SUBSET Slots
  BY DEF Consistent, TypeOK, FetchRecords
<1>2. CASE pending'[t] = pending[t]
  BY <1>1, <1>2, Released DEF MutationConsistent
<1>3. CASE pending'[t] = Release(fetch.awaiting)[t] /\ fetch'.stage = "sent"
  <2>1. t \notin fetch.awaiting => pending'[t] = pending[t]
    BY <1>1, <1>3, Released
  <2>2. t \in fetch.awaiting =>
          ~pending'[t].due /\ pending'[t].v = pending[t].v
          /\ pending'[t].m = pending[t].m /\ pending'[t].stage = pending[t].stage
    BY <1>1, <1>3, Released
  <2> QED
    BY <1>1, <1>3, <2>1, <2>2 DEF MutationConsistent
<1> QED
  BY <1>2, <1>3

LEMMA AnswerConsistent ==
  ASSUME TypeOK, Consistent, InvalidationComplete, NEW s \in Slots, Answer(s)
  PROVE  Consistent'
<1> DEFINE cleared == Release(fetch.awaiting)
<1>1. /\ pending[s] \in MutationRecords /\ pending[s].stage = "done"
      /\ fetch.awaiting \in SUBSET Slots /\ Awaiting(s) \in SUBSET Slots
      /\ UNCHANGED <<q, server, view, failed>>
      /\ server \in Nat /\ own \in Nat /\ pending[s].v \in Nat /\ pending[s].v <= server
  <2>1. /\ pending[s] \in MutationRecords /\ pending[s].v \in Nat
        /\ fetch.awaiting \in SUBSET Slots /\ server \in Nat /\ own \in Nat
    BY DEF TypeOK, FetchRecords, MutationRecords, Versions
  <2>2. pending[s].v <= server
    BY DEF Consistent, MutationConsistent
  <2>3. pending[s].stage = "done" /\ UNCHANGED <<q, server, view, failed>>
    BY DEF Answer
  <2> QED
    BY <2>1, <2>2, <2>3, AwaitingIsASet
<1>2. /\ cleared[s] \in MutationRecords
      /\ cleared[s].m = pending[s].m /\ cleared[s].v = pending[s].v
      /\ cleared \in [Slots -> MutationRecords] /\ pending \in [Slots -> MutationRecords]
  BY <1>1, Released, ReleaseIsTyped DEF TypeOK
<1>3. Owed(s) => Invalidates(pending[s].m) /\ Mounted /\ view # NoData
  BY <1>1, OwedIsInvalidated
<1>4. \/ /\ fetch' = Request(Awaiting(s))
         /\ pending' = [cleared EXCEPT ![s] = After(s, cleared[s])]
      \/ /\ fetch' = [fetch EXCEPT !.awaiting = fetch.awaiting \cup Awaiting(s)]
         /\ pending' = [pending EXCEPT ![s] = After(s, pending[s])]
         /\ ~Owed(s)
      \/ /\ fetch' = fetch
         /\ pending' = [pending EXCEPT ![s] = After(s, pending[s])]
         /\ ~Owed(s)
  BY <1>3 DEF Answer, Refetch, Invalidate, Ignore
<1>5. \/ /\ fetch'.stage = "sent" /\ fetch'.awaiting = Awaiting(s)
         /\ \A t \in Slots \ {s} : pending'[t] = cleared[t]
      \/ /\ fetch'.stage = fetch.stage /\ fetch'.v = fetch.v
         /\ fetch.awaiting \subseteq fetch'.awaiting
         /\ \A t \in Slots \ {s} : pending'[t] = pending[t]
         /\ ~Owed(s)
  BY <1>1, <1>2, <1>4, RequestIsARecord DEF TypeOK, FetchRecords
<1>6. EntryConsistent'
  BY <1>1, <1>3, <1>5
  DEF Answer, Consistent, EntryConsistent, TypeOK, FetchRecords, Versions
<1>7. MutationConsistent(s)'
  <2>1. PICK r \in MutationRecords :
          /\ r.m = pending[s].m /\ r.v = pending[s].v
          /\ pending'[s] = After(s, r)
    BY <1>1, <1>2, <1>4
  <2>2. pending'[s].v <= server' /\
        (pending'[s].stage # "none" =>
           <<pending'[s].m, q'>> \in Scenarios /\ pending'[s].m \in DOMAIN Mutations)
    BY <1>1, <2>1, AfterAnswer
  <2>3. pending'[s].stage = "settling" /\ pending'[s].due =>
          Owed(s) /\ Awaiting(s) = {s}
    BY <1>1, <2>1, AfterAnswer
  <2> QED
    BY <1>5, <2>2, <2>3 DEF MutationConsistent
<1>8. ASSUME NEW t \in Slots \ {s} PROVE MutationConsistent(t)'
  BY <1>1, <1>5, <1>8, OthersAfterAnswer
<1> QED
  BY <1>6, <1>7, <1>8 DEF Consistent

LEMMA StepConsistent ==
  ASSUME TypeOK, Watched, Consistent, InvalidationComplete, [Next]_vars
  PROVE  Consistent'
<1>1. CASE \E p \in Stops[q] : Move(p)
  BY <1>1, MoveConsistent
<1>2. CASE ChangeParameters \/ Age \/ HideTab \/ ShowTab \/ Poll \/ Read \/ Arrive \/ Fail \/ Retry
  BY <1>2, EntryActionsConsistent
<1>3. CASE \E s \in Slots : \E m \in Offered : Send(s, m)
  BY <1>3, MutationActionsConsistent
<1>4. CASE \E s \in Slots : Commit(s) \/ Answer(s) \/ Settle(s) \/ Refuse(s)
  BY <1>4, MutationActionsConsistent, AnswerConsistent
<1>5. CASE OthersWrite
  BY <1>5, OthersWriteConsistent
<1>6. CASE UNCHANGED vars
  BY <1>6, EntryStep DEF vars
<1> QED
  BY <1>1, <1>2, <1>3, <1>4, <1>5, <1>6 DEF Next

LEMMA AlwaysConsistent ==
  InvalidationComplete => (Spec => [](TypeOK /\ Watched /\ Consistent))
<1> SUFFICES ASSUME InvalidationComplete
             PROVE  Spec => [](TypeOK /\ Watched /\ Consistent)
  OBVIOUS
<1>1. Init => TypeOK /\ Watched /\ Consistent
  BY InitTyped, InitConsistent DEF Init, Watched, WatchedQueries
<1>2. TypeOK /\ Watched /\ Consistent /\ [Next]_vars => TypeOK' /\ Watched' /\ Consistent'
  BY StepTyped, StepWatched, StepConsistent DEF Watched
<1> QED
  BY <1>1, <1>2, PTL DEF Spec

\* A write that the server has acknowledged is on the screen, on its way, or its refetch
\* has failed: provided the tables of api/*.ts invalidate what they owe.
THEOREM WritesAreShown == InvalidationComplete => (Spec => []OwnWritesShown)
<1>1. Consistent => OwnWritesShown
  BY DEF Consistent, EntryConsistent, OwnWritesShown
<1> QED
  BY <1>1, AlwaysConsistent, PTL

\* The data of a page never goes back while the user stays: an answer that arrives was
\* read after the one that is shown.
THEOREM ViewIsMonotone == InvalidationComplete => (Spec => ViewNeverGoesBack)
<1>1. ASSUME TypeOK, Consistent, [Next]_vars
      PROVE  [view # NoData /\ view' # NoData => view' >= view]_vars
  <2>1. CASE view' = view
    BY <1>1, <2>1 DEF TypeOK, Versions
  <2>2. CASE Arrive
    BY <1>1, <2>2
    DEF Arrive, NoEntry, Consistent, EntryConsistent, TypeOK, FetchRecords, Versions
  <2>3. view' = view \/ Arrive \/ view' = NoData
    BY <1>1 DEF Next, vars, Move, Leave, Stay, Mount, NoEntry, ChangeParameters, NewEntry,
                Age, HideTab, ShowTab, Poll, Read, Fail, Retry, Send, Commit, Answer, Settle,
                Refuse, OthersWrite
  <2> QED
    BY <2>1, <2>2, <2>3
<1> QED
  BY <1>1, AlwaysConsistent, PTL DEF Spec, ViewNeverGoesBack

\* Only Settle ends a mutation that waits.
LEMMA SettlesAlone ==
  ASSUME TypeOK, [Next]_vars, NEW s \in Slots,
         pending[s].stage = "settling", pending'[s].stage = "none"
  PROVE  Settle(s)
<1>1. pending' # pending /\ pending \in [Slots -> MutationRecords]
  BY DEF TypeOK
<1>2. \/ \E t \in Slots : \E m \in Offered : Send(t, m)
      \/ \E t \in Slots : Commit(t) \/ Answer(t) \/ Settle(t) \/ Refuse(t)
  BY <1>1 DEF Next, vars, Move, ChangeParameters, Age, HideTab, ShowTab, Poll, Read, Arrive,
              Fail, Retry, OthersWrite
<1>3. ASSUME NEW t \in Slots, NEW m \in Offered PROVE ~Send(t, m)
  BY <1>1 DEF Send, Sent
<1>4. ASSUME NEW t \in Slots PROVE ~Commit(t) /\ ~Refuse(t)
  BY <1>1 DEF Commit, Refuse, Done
<1>5. ASSUME NEW t \in Slots PROVE ~Answer(t)
  <2> SUFFICES ASSUME Answer(t) PROVE FALSE
    OBVIOUS
  <2>1. fetch.awaiting \in SUBSET Slots
    BY DEF TypeOK, FetchRecords
  <2>2. Release(fetch.awaiting)[s].stage = "settling" /\ s # t
    BY <2>1, Released DEF Answer
  <2>3. Release(fetch.awaiting) \in [Slots -> MutationRecords]
    BY <2>1, ReleaseIsTyped
  <2> QED
    BY <1>1, <2>2, <2>3 DEF Answer, Refetch, Invalidate, Ignore
<1>6. ASSUME NEW t \in Slots, Settle(t) PROVE t = s
  BY <1>1, <1>6 DEF Settle
<1> QED
  BY <1>2, <1>3, <1>4, <1>5, <1>6

\* A mutation that returned the promise of its refetch ends with its write on the screen.
THEOREM SettlingShows == InvalidationComplete => (Spec => SettledIsShown)
<1> DEFINE Shows(s) ==
      /\ pending[s].stage = "settling" /\ pending'[s].stage = "none"
      /\ pending[s].due /\ Mounted /\ view # NoData
      => view >= pending[s].v \/ failed
<1>1. ASSUME TypeOK, Consistent, [Next]_vars, NEW s \in Slots
      PROVE  Shows(s)
  <2> SUFFICES ASSUME pending[s].stage = "settling", pending'[s].stage = "none",
                      pending[s].due, Mounted, view # NoData
               PROVE  view >= pending[s].v \/ failed
    OBVIOUS
  <2>1. MutationConsistent(s) /\ view \in Int /\ pending[s].v \in Int
    BY <1>1 DEF Consistent, TypeOK, MutationRecords, Versions
  <2>2. Settle(s)
    <3>1. pending' # pending
      OBVIOUS
    <3> QED
      BY <1>1, <3>1, SettlesAlone
  <2>3. s \notin fetch.awaiting
    BY <2>2 DEF Settle
  <2> QED
    BY <2>1, <2>3 DEF MutationConsistent
<1>2. ASSUME TypeOK, Consistent, [Next]_vars
      PROVE  [\A s \in Slots : Shows(s)]_vars
  BY <1>1, <1>2
<1> QED
  BY <1>2, AlwaysConsistent, PTL DEF Spec, SettledIsShown

-----------------------------------------------------------------------------
\* Refinement: the cache keeps the promise of FreshReads.
LEMMA StepRefines ==
  ASSUME TypeOK, Consistent, TypeOK', Consistent', [Next]_vars
  PROVE  [Abstract!Next]_(Abstract!vars)
<1> USE DEF Abstract!vars
<1>1. /\ server \in Nat /\ own \in Nat /\ own' \in Nat /\ own <= server /\ own' <= server'
      /\ (view # NoData => view \in Nat)
  BY DEF TypeOK, Consistent, EntryConsistent, Versions
<1>2. CASE UNCHANGED <<server, own, view>>
  BY <1>2
<1>3. CASE \/ \E p \in Stops[q] : Move(p)
           \/ ChangeParameters \/ Fail \/ Retry
  BY <1>3 DEF Abstract!Next, Abstract!Hide, Move, Leave, Stay, Mount, NoEntry,
              ChangeParameters, NewEntry, Fail, Retry
<1>4. CASE Arrive
  BY <1>1, <1>4
  DEF Abstract!Next, Abstract!Hide, Abstract!Load, Arrive, NoEntry,
      Consistent, EntryConsistent, TypeOK, FetchRecords, Versions
<1>5. CASE OthersWrite \/ \E s \in Slots : Commit(s)
  BY <1>5 DEF Abstract!Next, Abstract!Commit, OthersWrite, Commit
<1>6. CASE \E s \in Slots : Answer(s)
  BY <1>1, <1>6 DEF Abstract!Next, Abstract!Acknowledge, Answer
<1>7. CASE \/ Age \/ HideTab \/ ShowTab \/ Poll \/ Read
           \/ \E s \in Slots : (\E m \in Offered : Send(s, m)) \/ Settle(s) \/ Refuse(s)
           \/ UNCHANGED vars
  BY <1>2, <1>7 DEF Age, HideTab, ShowTab, Poll, Read, Send, Settle, Refuse, vars
<1> QED
  BY <1>3, <1>4, <1>5, <1>6, <1>7 DEF Next

\* The query cache implements FreshReads: whatever the client loads after its user's write
\* was acknowledged contains that write, and what a page shows never goes back.
THEOREM CacheRefines == InvalidationComplete => (Spec => ImplementsFreshReads)
<1>1. Init => Abstract!Init
  BY DEF Init, Abstract!Init
<1>2. TypeOK /\ Consistent /\ TypeOK' /\ Consistent' /\ [Next]_vars
        => [Abstract!Next]_(Abstract!vars)
  BY StepRefines
<1> QED
  BY <1>1, <1>2, AlwaysConsistent, PTL DEF Spec, ImplementsFreshReads, Abstract!Spec
=============================================================================
