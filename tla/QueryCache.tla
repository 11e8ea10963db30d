----------------------------- MODULE QueryCache -----------------------------
(***************************************************************************)
(* How a page of the web client comes to show data of the server: the      *)
(* query cache of the library @tanstack/react-query with the defaults that *)
(* app/frontend/src/main.tsx gives it, driven by the tables of queries,    *)
(* mutations and places of the client.                                     *)
(*                                                                         *)
(* A behaviour watches one query.  The data it shows is a version: the     *)
(* number of writes to what the query reads that had committed when the    *)
(* server read it.  The user goes from place to place (a page, or a dialog *)
(* of a page), which mounts and unmounts the query, writes with the        *)
(* mutations each place offers, and hides and shows the browser tab;       *)
(* others write meanwhile; requests and answers are slow or lost.          *)
(***************************************************************************)
EXTENDS Integers, Sequences, FiniteSets

CONSTANTS
  Queries,      \* the table of queries, a function on their names
  Mutations,    \* the table of mutations
  Places,       \* the table of pages and dialogs
  Scenarios,    \* pairs <<mutation, query>>: what is written while the query is watched
  Stops,        \* Stops[q]: the places between which the user moves while q is watched
  KnownGaps,    \* pairs <<mutation, query>> that the client does not refresh
  Slots,        \* the mutations of this client that may be pending at a time
  MaxVersion,   \* bound on the writes of a behaviour
  MaxFailures,  \* bound on the requests that fail
  NoData

ASSUME QueryCacheAssumption ==
  /\ MaxVersion \in Nat /\ MaxFailures \in Nat
  /\ NoData \notin Nat
  /\ \A pair \in Scenarios :
       /\ pair[2] \in DOMAIN Queries
       /\ Stops[pair[2]] \subseteq DOMAIN Places
  /\ \A p \in DOMAIN Places : Places[p].offers \subseteq DOMAIN Mutations

VARIABLES
  q,         \* the query that is watched
  place,     \* where the user is
  visible,   \* document.visibilityState
  server,    \* the version of the data on the server
  view,      \* the data of the cache entry
  outdated,  \* isInvalidated, or staleTime has passed
  fetch,     \* the request of the entry
  failed,    \* the last request failed, with its retry
  pending,   \* the mutations
  own,       \* the newest write of this client that its query is to show
  failures

vars == <<q, place, visible, server, view, outdated, fetch, failed, pending, own, failures>>

Versions == 0..MaxVersion

\* waiting: failed, and to be sent again.  awaiting: the mutations whose onSuccess returned
\* the promise of this request.
FetchRecords ==
  [stage : {"idle", "sent", "read", "waiting"}, v : Versions, retried : BOOLEAN, awaiting : SUBSET Slots]

Idle == [stage |-> "idle", v |-> 0, retried |-> FALSE, awaiting |-> {}]
Request(awaiting) == [stage |-> "sent", v |-> 0, retried |-> FALSE, awaiting |-> awaiting]

\* due: the page that saw the answer is to show the write when the mutation ends.
NoMutation == [stage |-> "none", m |-> "none", v |-> 0, due |-> FALSE]
Sent(m) == [stage |-> "sent", m |-> m, v |-> 0, due |-> FALSE]
Done(m, v) == [stage |-> "done", m |-> m, v |-> v, due |-> FALSE]
Settling(m, v, due) == [stage |-> "settling", m |-> m, v |-> v, due |-> due]
MutationRecords ==
  [stage : {"none", "sent", "done", "settling"}, m : DOMAIN Mutations \cup {"none"},
   v : Versions, due : BOOLEAN]

\* invalidateQueries({ queryKey }) matches the keys that begin with the given one.
StartsWith(key, prefix) == Len(prefix) <= Len(key) /\ SubSeq(key, 1, Len(prefix)) = prefix
Matches(m, name) == \E k \in Mutations[m].keys : StartsWith(Queries[name].key, k)
Invalidates(m) == Matches(m, q)

Parameters == {"p", "id"}
HasParameters == \E i \in DOMAIN Queries[q].key : Queries[q].key[i] \in Parameters

WatchedQueries == {pair[2] : pair \in Scenarios}

\* The mounted components that use a query at a place.
Observing ==
  [name \in WatchedQueries |->
    [p \in DOMAIN Places |-> {c \in Places[p].around \cup {p} : name \in Places[c].mounts}]]
Observers(p) == Observing[q][p]
Mounted == Observers(place) # {}

\* The mutations that a place sends which shows the query.
SentInSight ==
  [name \in WatchedQueries |->
    UNION {Places[p].offers : p \in {x \in DOMAIN Places : Observing[name][x] # {}}}]
SharesScreen(m, name) == m \in SentInSight[name]

\* What the tables owe the pages: a mutation invalidates every query that is shown where
\* it is sent, but for the known gaps.
InvalidationComplete ==
  \A pair \in {x \in Scenarios : x[1] \in DOMAIN Mutations} :
    pair \in KnownGaps \/ Matches(pair[1], pair[2]) \/ ~SharesScreen(pair[1], pair[2])

IsStale == Queries[q].fresh = "never" \/ outdated \/ view = NoData

-----------------------------------------------------------------------------
\* A cache entry that has just been built, and one that is gone.
NewEntry ==
  /\ view' = NoData /\ outdated' = FALSE /\ failed' = FALSE
  /\ fetch' = Request({})

NoEntry ==
  /\ view' = NoData /\ outdated' = FALSE /\ failed' = FALSE
  /\ fetch' = Idle

\* A request that is under way is joined, not repeated.
Join == fetch' = IF fetch.stage = "idle" THEN Request({}) ELSE fetch

Init ==
  /\ q \in WatchedQueries
  /\ place \in Stops[q]
  /\ visible = TRUE
  /\ server = 0
  /\ view = NoData
  /\ outdated = FALSE
  /\ fetch = IF Mounted THEN Request({}) ELSE Idle
  /\ failed = FALSE
  /\ pending = [s \in Slots |-> NoMutation]
  /\ own = 0
  /\ failures = 0

-----------------------------------------------------------------------------
\* The user opens another page or opens or closes a dialog.  An entry that no component
\* uses any more goes at once (gcTime 0), unless its request is under way; a component
\* that mounts the query while its entry is there shows the data and, when it is
\* stale, asks for it again.
Leave(p) ==
  /\ Observers(p) = {}
  /\ IF fetch.stage = "idle" THEN NoEntry ELSE UNCHANGED <<view, outdated, failed, fetch>>

Stay(p) ==
  /\ Observers(p) # {}
  /\ Observers(p) \subseteq Observers(place)
  /\ UNCHANGED <<view, outdated, failed, fetch>>

Mount(p) ==
  /\ Observers(p) \ Observers(place) # {}
  /\ IF IsStale THEN Join ELSE UNCHANGED fetch
  /\ UNCHANGED <<view, outdated, failed>>

Move(p) ==
  /\ p # place
  /\ place' = p
  /\ Leave(p) \/ Stay(p) \/ Mount(p)
  /\ UNCHANGED <<q, visible, server, pending, own, failures>>

\* A filter, a page number or the row a page is about changes: the key is another one,
\* with an entry of its own.
ChangeParameters ==
  /\ Mounted /\ HasParameters
  /\ NewEntry
  /\ UNCHANGED <<q, place, visible, server, pending, own, failures>>

\* staleTime passes.
Age ==
  /\ Queries[q].fresh = "minute" /\ view # NoData /\ ~outdated
  /\ outdated' = TRUE
  /\ UNCHANGED <<q, place, visible, server, view, fetch, failed, pending, own, failures>>

HideTab ==
  /\ visible
  /\ visible' = FALSE
  /\ UNCHANGED <<q, place, server, view, outdated, fetch, failed, pending, own, failures>>

\* refetchOnWindowFocus
ShowTab ==
  /\ ~visible
  /\ visible' = TRUE
  /\ IF Mounted /\ IsStale THEN Join ELSE UNCHANGED fetch
  /\ UNCHANGED <<q, place, server, view, outdated, failed, pending, own, failures>>

\* Mutant of Poll: polling ends with the first request that fails.
PollUntilFailed ==
  /\ Queries[q].polls /\ visible /\ Mounted /\ ~failed
  /\ fetch.stage = "idle"
  /\ fetch' = Request({})
  /\ UNCHANGED <<q, place, visible, server, view, outdated, failed, pending, own, failures>>

\* refetchInterval, which rests while the tab is hidden.
Poll ==
  /\ Queries[q].polls /\ visible /\ Mounted
  /\ fetch.stage = "idle"
  /\ fetch' = Request({})
  /\ UNCHANGED <<q, place, visible, server, view, outdated, failed, pending, own, failures>>

-----------------------------------------------------------------------------
\* The request of the entry: the server reads, the answer arrives.
Read ==
  /\ fetch.stage = "sent"
  /\ fetch' = [fetch EXCEPT !.stage = "read", !.v = server]
  /\ UNCHANGED <<q, place, visible, server, view, outdated, failed, pending, own, failures>>

Arrive ==
  /\ fetch.stage = "read"
  /\ IF Mounted
     THEN /\ view' = fetch.v /\ outdated' = FALSE /\ failed' = FALSE
          /\ fetch' = Idle
     ELSE NoEntry
  /\ UNCHANGED <<q, place, visible, server, pending, own, failures>>

\* Mutant of Fail: what is kept of a failure is the data that did not come.
FailWithoutError ==
  /\ fetch.stage \in {"sent", "read"}
  /\ failures < MaxFailures
  /\ failures' = failures + 1
  /\ failed' = NoData
  /\ fetch' = Idle
  /\ UNCHANGED <<q, place, visible, server, view, outdated, pending, own>>

\* retry: 1, given up when nobody uses the entry any more.
Fail ==
  /\ fetch.stage \in {"sent", "read"}
  /\ failures < MaxFailures
  /\ failures' = failures + 1
  /\ \/ /\ Mounted /\ ~fetch.retried
        /\ fetch' = [Request(fetch.awaiting) EXCEPT !.stage = "waiting"]
        /\ UNCHANGED <<view, outdated, failed>>
     \/ /\ Mounted /\ fetch.retried
        /\ fetch' = Idle /\ failed' = TRUE
        /\ UNCHANGED <<view, outdated>>
     \/ ~Mounted /\ NoEntry
  /\ UNCHANGED <<q, place, visible, server, pending, own>>

\* Mutant of Retry: only a first load is sent again.
RetryFirstLoad ==
  /\ fetch.stage = "waiting" /\ visible /\ (Mounted => view = NoData)
  /\ IF Mounted
     THEN /\ fetch' = [fetch EXCEPT !.stage = "sent", !.retried = TRUE]
          /\ UNCHANGED <<view, outdated, failed>>
     ELSE NoEntry
  /\ UNCHANGED <<q, place, visible, server, pending, own, failures>>

\* The delay of the retry is over.  While the tab is hidden the retry pauses, and goes on
\* when the tab is shown.
Retry ==
  /\ fetch.stage = "waiting" /\ visible
  /\ IF Mounted
     THEN /\ fetch' = [fetch EXCEPT !.stage = "sent", !.retried = TRUE]
          /\ UNCHANGED <<view, outdated, failed>>
     ELSE NoEntry
  /\ UNCHANGED <<q, place, visible, server, pending, own, failures>>

-----------------------------------------------------------------------------
\* The user saves: a mutation that the place offers.
Send(s, m) ==
  /\ pending[s].stage = "none"
  /\ pending' = [pending EXCEPT ![s] = Sent(m)]
  /\ UNCHANGED <<q, place, visible, server, view, outdated, fetch, failed, own, failures>>

Commit(s) ==
  /\ pending[s].stage = "sent"
  /\ server < MaxVersion
  /\ server' = server + 1
  /\ pending' = [pending EXCEPT ![s] = Done(@.m, server + 1)]
  /\ UNCHANGED <<q, place, visible, view, outdated, fetch, failed, own, failures>>

\* The page has the query's data and is to show the write, which was sent from a place
\* that shows this query.
Owed(s) ==
  /\ Mounted /\ view # NoData
  /\ <<pending[s].m, q>> \notin KnownGaps
  /\ SharesScreen(pending[s].m, q)

\* The others whose promise a cancelled request was end without their data.
Release(awaiting) ==
  [r \in Slots |->
    IF r \in awaiting THEN [pending[r] EXCEPT !.due = FALSE] ELSE pending[r]]

\* Where a mutation is after onSuccess.
After(s, record) ==
  IF Mutations[record.m].returned
  THEN Settling(record.m, record.v, Owed(s))
  ELSE NoMutation

\* Mutant of Awaiting: onSuccess does not return the promise of the refetch.
AwaitingNothing(s) == {}

Awaiting(s) == IF Mutations[pending[s].m].returned THEN {s} ELSE {}

\* Mutant of Refetch: the request under way is joined (cancelRefetch: false).
RefetchJoining(s) ==
  /\ Invalidates(pending[s].m) /\ Mounted
  /\ fetch' = IF fetch.stage = "idle" THEN Request(Awaiting(s))
              ELSE [fetch EXCEPT !.awaiting = @ \cup Awaiting(s)]
  /\ pending' = [pending EXCEPT ![s] = After(s, @)]
  /\ outdated' = (view # NoData \/ outdated)

\* onSuccess: the entry is invalidated.  A mounted query that has data drops the request
\* under way and asks again (cancelRefetch); a first load under way is left alone, and so
\* is an entry that nobody uses.
Refetch(s) ==
  /\ Invalidates(pending[s].m) /\ Mounted
  /\ IF view # NoData \/ fetch.stage = "idle"
     THEN /\ fetch' = Request(Awaiting(s))
          /\ pending' = [Release(fetch.awaiting) EXCEPT ![s] = After(s, @)]
     ELSE /\ fetch' = [fetch EXCEPT !.awaiting = @ \cup Awaiting(s)]
          /\ pending' = [pending EXCEPT ![s] = After(s, @)]
  /\ outdated' = (view # NoData \/ outdated)

Invalidate(s) ==
  /\ Invalidates(pending[s].m) /\ ~Mounted
  /\ outdated' = (view # NoData \/ outdated)
  /\ pending' = [pending EXCEPT ![s] = After(s, @)]
  /\ UNCHANGED fetch

Ignore(s) ==
  /\ ~Invalidates(pending[s].m)
  /\ pending' = [pending EXCEPT ![s] = After(s, @)]
  /\ UNCHANGED <<outdated, fetch>>

\* Mutant of Answer: the answer of the mutation is put into the cache (setQueryData)
\* while a request is under way.
AnswerIntoCache(s) ==
  /\ pending[s].stage = "done"
  /\ view' = IF Mounted /\ view # NoData /\ pending[s].v > view THEN pending[s].v ELSE view
  /\ pending' = [pending EXCEPT ![s] = NoMutation]
  /\ UNCHANGED <<q, place, visible, server, outdated, fetch, failed, own, failures>>

Answer(s) ==
  /\ pending[s].stage = "done"
  /\ Refetch(s) \/ Invalidate(s) \/ Ignore(s)
  /\ own' = IF Owed(s) /\ pending[s].v > own THEN pending[s].v ELSE own
  /\ UNCHANGED <<q, place, visible, server, view, failed, failures>>

\* The mutation ends when the request it waits for has ended, one way or the other.
Settle(s) ==
  /\ pending[s].stage = "settling"
  /\ s \notin fetch.awaiting
  /\ pending' = [pending EXCEPT ![s] = NoMutation]
  /\ UNCHANGED <<q, place, visible, server, view, outdated, fetch, failed, own, failures>>

\* The request is refused, or its answer is lost: onSuccess does not run.
Refuse(s) ==
  /\ pending[s].stage \in {"sent", "done"}
  /\ failures < MaxFailures
  /\ failures' = failures + 1
  /\ pending' = [pending EXCEPT ![s] = NoMutation]
  /\ UNCHANGED <<q, place, visible, server, view, outdated, fetch, failed, own>>

OthersWrite ==
  /\ server < MaxVersion
  /\ server' = server + 1
  /\ UNCHANGED <<q, place, visible, view, outdated, fetch, failed, pending, own, failures>>

-----------------------------------------------------------------------------
Offered == {m \in Places[place].offers : <<m, q>> \in Scenarios}

Next ==
  \/ \E p \in Stops[q] : Move(p)
  \/ ChangeParameters \/ Age \/ HideTab \/ ShowTab \/ Poll
  \/ Read \/ Arrive \/ Fail \/ Retry
  \/ \E s \in Slots : \E m \in Offered : Send(s, m)
  \/ \E s \in Slots : Commit(s) \/ Answer(s) \/ Settle(s) \/ Refuse(s)
  \/ OthersWrite

\* The network is there, the server answers and the interval timer runs; nobody has to
\* write, move or look.  A retry whose delay has ended in a hidden tab is sent as soon as
\* the tab is shown, however briefly.
Fairness == WF_vars(Read) /\ WF_vars(Arrive) /\ WF_vars(Poll) /\ SF_vars(Retry)

Spec == Init /\ [][Next]_vars /\ Fairness

-----------------------------------------------------------------------------
TypeOK ==
  /\ q \in DOMAIN Queries
  /\ place \in DOMAIN Places
  /\ visible \in BOOLEAN
  /\ server \in Versions
  /\ view \in Versions \cup {NoData}
  /\ outdated \in BOOLEAN
  /\ fetch \in FetchRecords
  /\ failed \in BOOLEAN
  /\ pending \in [Slots -> MutationRecords]
  /\ own \in Versions
  /\ failures \in 0..MaxFailures

\* A write of the user that the server has acknowledged is on the screen, or the request
\* that brings it is under way, or that request has failed: what onSuccess of every
\* mutation in api/*.ts invalidates covers every query that shows what it changes, but
\* for the known gaps.
OwnWritesShown ==
  Mounted /\ view # NoData /\ view < own => fetch.stage # "idle" \/ failed

\* While the user stays on a page its data does not go back to an older state, however
\* slow the answers are: an answer that was overtaken by a newer request is dropped.
ViewNeverGoesBack ==
  [][view # NoData /\ view' # NoData => view' >= view]_vars

\* A mutation whose onSuccess returns the promise of the refetch ends with its write on
\* the screen: `await mutateAsync(); close()` closes a dialog over a page that is up to
\* date, unless the page has gone or is loading, the refetch failed or was cancelled by
\* the one of another mutation, or the pair is a known gap.
SettledIsShown ==
  [][\A s \in Slots :
       /\ pending[s].stage = "settling" /\ pending'[s].stage = "none"
       /\ pending[s].due /\ Mounted /\ view # NoData
       => view >= pending[s].v \/ failed]_vars

\* A polled query (notifications, announcements, heartbeat, health) on a visible page
\* comes to show what others wrote last, however many of its requests failed.
PolledViewsCatchUp ==
  <>[](visible /\ Mounted /\ Queries[q].polls) => <>[](view = server)

\* A write that the page owes the user comes, whatever else he and others do meanwhile,
\* unless he hides the tab for good, in which the retry of a failed request rests.
OwnWritesAppear ==
  []<>visible =>
    ((Mounted /\ view # NoData /\ view < own)
       ~> (~Mounted \/ view = NoData \/ view >= own \/ failed))

\* The cache implements the promise of FreshReads.
Abstract == INSTANCE FreshReads WITH
  Nothing <- NoData, committed <- server, floor <- own, shown <- view
ImplementsFreshReads == Abstract!Spec
=============================================================================
