----------------------------- MODULE KanbanTasks -----------------------------
(***************************************************************************)
(* Boards, columns and the order of the cards in a column, as kept by      *)
(* services/kanban_service.py over PostgreSQL at READ COMMITTED.           *)
(*                                                                         *)
(* A handler whose writes depend on rows it read earlier (create_task,     *)
(* move_task, delete_column) is two steps: the reads, remembered in        *)
(* request[r], and the write, which the database applies to the rows as    *)
(* they are by then.  The other handlers only write values that came with  *)
(* the request and are one step.  A request may fail at any point between  *)
(* the two (a rejected foreign key, a lost connection): its transaction is *)
(* rolled back and nothing of it remains.                                  *)
(*                                                                         *)
(* The requester is not modelled: a superadmin passes every role check, so *)
(* each operation is possible for some requester.                          *)
(***************************************************************************)
EXTENDS Integers, FiniteSets

CONSTANTS
  Boards, Columns, Tasks,   \* identifiers the database may use
  Requests,                 \* HTTP requests being served at the same time
  Personal,                 \* boards that are personal
  Defaults,                 \* columns that are created together with their board
  BoardOf,                  \* the board of a column: its board_id never changes
  Positions,                \* sort_order values a client may ask for
  Batches,                  \* sets of cards a client updates in one request
  MaxOrder,                 \* bound: no card gets a larger sort_order
  None

ASSUME KanbanConstants ==
  /\ Personal \subseteq Boards
  /\ Defaults \subseteq Columns
  /\ BoardOf \in [Columns -> Boards]
  /\ Positions \subseteq Int
  /\ Batches \subseteq SUBSET Tasks
  /\ MaxOrder \in Int
  /\ None \notin Columns

VARIABLES
  boards,     \* boards that exist
  columns,    \* columns that exist
  column,     \* column of each task, None for a task without a row
  order,      \* tasks.sort_order
  archived,   \* tasks.is_archived
  request     \* what each request in progress has read

rows == <<boards, columns, column, order, archived>>
vars == <<rows, request>>

(***************************************************************************)
(* Requests in progress                                                    *)
(***************************************************************************)
Idle == [op |-> "idle"]

CreateRequest == [op : {"create"}, column : Columns, last : Int]

MoveRequest == [op : {"move"}, task : Tasks, to : Columns, place : Int,
                from : Columns, old : Int, seen : SUBSET Tasks]

DeleteColumnRequest == [op : {"deleteColumn"}, column : Columns, loaded : SUBSET Tasks]

Request == {Idle} \cup CreateRequest \cup MoveRequest \cup DeleteColumnRequest

\* An identifier that a request in progress still refers to is not given out again:
\* the identifiers are fresh UUIDs.
FreshTask(t) ==
  /\ column[t] = None
  /\ \A r \in Requests :
       /\ request[r].op = "move" => request[r].task # t
       /\ request[r].op = "deleteColumn" => t \notin request[r].loaded

FreshColumn(c) ==
  /\ c \notin columns
  /\ \A r \in Requests :
       /\ request[r].op \in {"create", "deleteColumn"} => request[r].column # c
       /\ request[r].op = "move" => c \notin {request[r].to, request[r].from}

(***************************************************************************)
(* Cards of a column                                                       *)
(***************************************************************************)
Exists(t) == column[t] # None
Active(t) == Exists(t) /\ ~archived[t]

\* func.max(Task.sort_order) of a column, archived cards included, "or 0".
LastOrder(c, m) ==
  \/ \A t \in Tasks : column[t] # c
     /\ m = 0
  \/ /\ \E t \in Tasks : column[t] = c /\ order[t] = m
     /\ \A t \in Tasks : column[t] = c => order[t] <= m

-----------------------------------------------------------------------------
TypeOK ==
  /\ boards \subseteq Boards
  /\ columns \subseteq Columns
  /\ column \in [Tasks -> Columns \cup {None}]
  /\ order \in [Tasks -> Int]
  /\ archived \in [Tasks -> BOOLEAN]
  /\ request \in [Requests -> Request]

Init ==
  /\ boards = {}
  /\ columns = {}
  /\ column = [t \in Tasks |-> None]
  /\ order = [t \in Tasks |-> 0]
  /\ archived = [t \in Tasks |-> FALSE]
  /\ request = [r \in Requests |-> Idle]

(***************************************************************************)
(* Boards and columns                                                      *)
(***************************************************************************)
\* Mutant of RemoveTasks: a removal that leaves a null behind.
RemoveTasksSetNull(S) ==
  /\ column' = [t \in Tasks |-> IF t \in S THEN None ELSE column[t]]
  /\ order' = [t \in Tasks |-> IF t \in S THEN 0 ELSE order[t]]
  /\ archived' = [t \in Tasks |-> IF t \in S THEN None ELSE archived[t]]

\* Removing rows clears them, as ON DELETE CASCADE and the ORM cascade do.
RemoveTasks(S) ==
  /\ column' = [t \in Tasks |-> IF t \in S THEN None ELSE column[t]]
  /\ order' = [t \in Tasks |-> IF t \in S THEN 0 ELSE order[t]]
  /\ archived' = [t \in Tasks |-> IF t \in S THEN FALSE ELSE archived[t]]

CreateBoard(b) ==
  LET added == {c \in Defaults : BoardOf[c] = b} IN
  /\ b \notin boards
  /\ \A c \in Columns : BoardOf[c] = b => FreshColumn(c)
  /\ boards' = boards \cup {b}
  /\ columns' = columns \cup added
  /\ UNCHANGED <<column, order, archived, request>>

\* Personal boards cannot be deleted.
DeleteBoard(b) ==
  LET gone == {c \in columns : BoardOf[c] = b} IN
  /\ b \in boards \ Personal
  /\ boards' = boards \ {b}
  /\ columns' = columns \ gone
  /\ RemoveTasks({t \in Tasks : column[t] \in gone})
  /\ UNCHANGED request

CreateColumn(c) ==
  /\ BoardOf[c] \in boards
  /\ FreshColumn(c)
  /\ columns' = columns \cup {c}
  /\ UNCHANGED <<boards, column, order, archived, request>>

\* delete_column counts the cards that are not archived, then the ORM loads the
\* remaining (archived) cards of the column in order to delete them with it.
DeleteColumnRead(r, c) ==
  /\ request[r] = Idle
  /\ c \in columns
  /\ ~ \E t \in Tasks : column[t] = c /\ Active(t)
  /\ request' = [request EXCEPT ![r] =
       [op |-> "deleteColumn", column |-> c, loaded |-> {t \in Tasks : column[t] = c}]]
  /\ UNCHANGED rows

\* Mutant of DeletedWithColumn: without ON DELETE CASCADE on tasks.column_id.
DeletedWithoutCascade(r) == request[r].loaded

\* The loaded cards are deleted by primary key, and the foreign key of
\* tasks.column_id takes along whatever else is in the column by now.
DeletedWithColumn(r) ==
  request[r].loaded \cup {t \in Tasks : column[t] = request[r].column}

DeleteColumnWrite(r) ==
  /\ request[r].op = "deleteColumn"
  /\ columns' = columns \ {request[r].column}
  /\ RemoveTasks(DeletedWithColumn(r))
  /\ request' = [request EXCEPT ![r] = Idle]
  /\ UNCHANGED boards

(***************************************************************************)
(* Cards                                                                   *)
(***************************************************************************)
CreateTaskRead(r, c) ==
  /\ request[r] = Idle
  /\ c \in columns
  /\ \E m \in {0} \cup {order[t] : t \in Tasks} :
       /\ LastOrder(c, m)
       /\ m < MaxOrder
       /\ request' = [request EXCEPT ![r] = [op |-> "create", column |-> c, last |-> m]]
  /\ UNCHANGED rows

CreateTaskWrite(r, t) ==
  /\ request[r].op = "create"
  /\ FreshTask(t)
  /\ request[r].column \in columns
  /\ column' = [column EXCEPT ![t] = request[r].column]
  /\ order' = [order EXCEPT ![t] = request[r].last + 1]
  /\ archived' = [archived EXCEPT ![t] = FALSE]
  /\ request' = [request EXCEPT ![r] = Idle]
  /\ UNCHANGED <<boards, columns>>

\* Mutant of Renumbered: the card that is in the way takes the freed place.
RenumberedBySwap(m, x) ==
  IF ~archived[x] /\ x # m.task /\ column[x] = m.to /\ order[x] = m.place
  THEN m.old ELSE order[x]

\* Mutant of Renumbered: a move to another column makes no room there.
RenumberedWithoutRoom(m, x) ==
  IF ~archived[x] /\ x # m.task /\ column[x] = m.from /\ m.old < order[x]
  THEN order[x] - 1 ELSE order[x]

\* The UPDATE statements that make room for the card m.  Archived cards keep theirs.
Renumbered(m, x) ==
  IF archived[x] THEN order[x]
  ELSE IF m.from = m.to
  THEN CASE x # m.task /\ column[x] = m.to /\ m.old < order[x] /\ order[x] <= m.place
              -> order[x] - 1
         [] x # m.task /\ column[x] = m.to /\ m.place <= order[x] /\ order[x] < m.old
              -> order[x] + 1
         [] OTHER -> order[x]
  ELSE CASE x # m.task /\ column[x] = m.from /\ m.old < order[x] -> order[x] - 1
         [] column[x] = m.to /\ m.place <= order[x] -> order[x] + 1
         [] OTHER -> order[x]

\* The cards that make room for the card m.
Shifted(m) == {x \in Tasks : Renumbered(m, x) # order[x]}

MoveTaskRead(r, t, c, s) ==
  LET m == [op |-> "move", task |-> t, to |-> c, place |-> s,
            from |-> column[t], old |-> order[t]] IN
  /\ request[r] = Idle
  /\ Exists(t)
  /\ c \in columns
  /\ request' = [request EXCEPT ![r] =
       [op |-> "move", task |-> t, to |-> c, place |-> s,
        from |-> column[t], old |-> order[t], seen |-> Shifted(m)]]
  /\ UNCHANGED rows

\* An UPDATE passes over the rows that it did not match when it started, even if it
\* then has to wait for another request's commit that makes them match, and looks
\* again at those it did match.  The UPDATEs of a move start with its reads (and see
\* m.seen), or when nobody is in their way any more (and see all).  The ORM then
\* writes the columns of the card that differ from what it loaded.
MoveTaskWrite(r) ==
  LET m == request[r] IN
  /\ m.op = "move"
  /\ Exists(m.task)
  /\ m.to # m.from => m.to \in columns
  /\ \E seen \in {m.seen, Tasks} :
       order' = [x \in Tasks |-> IF x = m.task /\ m.place # m.old THEN m.place
                                ELSE IF x \in seen THEN Renumbered(m, x) ELSE order[x]]
  /\ \A x \in Tasks : order'[x] <= MaxOrder
  /\ column' = [column EXCEPT ![m.task] = IF m.to # m.from THEN m.to ELSE @]
  /\ request' = [request EXCEPT ![r] = Idle]
  /\ UNCHANGED <<boards, columns, archived>>

\* delete_task, and update_task with is_archived: the sort_order stays.
SetArchived(t, flag) ==
  /\ Exists(t)
  /\ archived[t] # flag
  /\ archived' = [archived EXCEPT ![t] = flag]
  /\ UNCHANGED <<boards, columns, column, order, request>>

\* Mutant of BulkUpdate: the cards are numbered in the order the request lists them.
BulkUpdateInListOrder(S, c, flag) ==
  /\ S # {} /\ \A t \in S : Exists(t)
  /\ c \in columns \cup {None}
  /\ \E place \in [S -> 1 .. Cardinality(S)] :
       order' = [t \in Tasks |-> IF t \in S THEN place[t] ELSE order[t]]
  /\ column' = [t \in Tasks |-> IF t \in S /\ c # None THEN c ELSE column[t]]
  /\ archived' = [t \in Tasks |-> IF t \in S /\ flag # None THEN flag ELSE archived[t]]
  /\ UNCHANGED <<boards, columns, request>>

\* bulk_update_tasks: the cards S change column, archive flag or both (None: as is),
\* and nobody is renumbered.
BulkUpdate(S, c, flag) ==
  /\ S # {} /\ \A t \in S : Exists(t)
  /\ c \in columns \cup {None}
  /\ column' = [t \in Tasks |-> IF t \in S /\ c # None THEN c ELSE column[t]]
  /\ archived' = [t \in Tasks |-> IF t \in S /\ flag # None THEN flag ELSE archived[t]]
  /\ UNCHANGED <<boards, columns, order, request>>

\* DBSessionMiddleware rolls the transaction of a failed request back.
Fail(r) ==
  /\ request[r] # Idle
  /\ request' = [request EXCEPT ![r] = Idle]
  /\ UNCHANGED rows

Next ==
  \/ \E b \in Boards : CreateBoard(b) \/ DeleteBoard(b)
  \/ \E c \in Columns : CreateColumn(c)
  \/ \E r \in Requests, c \in Columns : DeleteColumnRead(r, c) \/ CreateTaskRead(r, c)
  \/ \E r \in Requests, t \in Tasks : CreateTaskWrite(r, t)
  \/ \E r \in Requests, t \in Tasks, c \in Columns, s \in Positions :
        MoveTaskRead(r, t, c, s)
  \/ \E r \in Requests : DeleteColumnWrite(r) \/ MoveTaskWrite(r) \/ Fail(r)
  \/ \E t \in Tasks, flag \in BOOLEAN : SetArchived(t, flag)
  \/ \E S \in Batches, c \in Columns \cup {None}, flag \in BOOLEAN \cup {None} :
        BulkUpdate(S, c, flag)

Spec == Init /\ [][Next]_vars

-----------------------------------------------------------------------------
(***************************************************************************)
(* Properties                                                              *)
(***************************************************************************)
\* No row outlives what it belongs to: a card's column and a column's board exist,
\* whichever requests overlap (the foreign keys and the cascades of a deletion).
NoOrphans ==
  /\ \A t \in Tasks : Exists(t) => column[t] \in columns
  /\ \A c \in columns : BoardOf[c] \in boards

\* Request r commits a move of card t in this step.
Moves(r, t) ==
  /\ request[r].op = "move" /\ request[r].task = t
  /\ request'[r] = Idle

\* Cards that stay together and that nobody moves by hand never swap places, even
\* when requests that read outdated positions renumber the column.
OrderKeptStep ==
  \A x, y \in Tasks :
    /\ Active(x) /\ Active(y) /\ Active(x)' /\ Active(y)'
    /\ column[x] = column[y] /\ column'[x] = column'[y]
    /\ \A r \in Requests : ~Moves(r, x) /\ ~Moves(r, y)
    /\ order[x] < order[y]
    => order'[x] <= order'[y]

OrderKept == [][OrderKeptStep]_vars

\* Two cards of column c with the same sort_order are listed in no defined order.
NoTies(c) ==
  \A a, b \in Tasks :
    Active(a) /\ Active(b) /\ column[a] = c /\ column[b] = c /\ order[a] = order[b]
      => a = b

\* What request r read is no longer what the database holds.
Stale(r) ==
  \/ request[r].op = "create" /\ ~LastOrder(request[r].column, request[r].last)
  \/ /\ request[r].op = "move"
     /\ \/ request[r].from # column[request[r].task]
        \/ request[r].old # order[request[r].task]
        \/ ~(Shifted(request[r]) \subseteq request[r].seen)

\* Without being moved by hand, card t is shown again, or shown elsewhere, with the
\* sort_order it had before.
Reused(t) ==
  /\ Active(t)'
  /\ order'[t] = order[t]
  /\ \A r \in Requests : ~Moves(r, t)
  /\ \/ archived[t] /\ ~archived'[t]
     \/ column'[t] # column[t]

\* The only ways into a tie: a card comes back or changes column with its old
\* sort_order (restore, bulk update), the move of an archived card, and a request
\* that commits on an outdated read.  The renumbering itself never makes one.
TieExplained ==
  \/ \E t \in Tasks : Reused(t)
  \/ \E r \in Requests, t \in Tasks : Moves(r, t) /\ archived[t]
  \/ \E r \in Requests : Stale(r) /\ request'[r] = Idle

NoNewTiesStep == \A c \in Columns : NoTies(c) => NoTies(c)' \/ TieExplained

TiesOnlyFromReuseOrStaleReads == [][NoNewTiesStep]_vars

\* The cards in use of column c are numbered 1, 2, ... without a gap or a tie.
Dense(c) ==
  LET cards == {x \in Tasks : Active(x) /\ column[x] = c} IN
  {order[x] : x \in cards} = 1 .. Cardinality(cards)

\* Request r asks for a position that the target column does not have.
Outside(r) ==
  /\ request[r].op = "move"
  /\ request[r].place \notin
       1 .. Cardinality({x \in Tasks \ {request[r].task} :
                           Active(x) /\ column[x] = request[r].to}) + 1

\* Card t leaves its column, for another one or for good, although its column stays and
\* no move renumbers it: a bulk update, or delete_column with a card that was archived
\* in the column when it was loaded and is in use elsewhere now.
Withdrawn(t) ==
  /\ Exists(t) /\ column'[t] # column[t] /\ column[t] \in columns'
  /\ \A r \in Requests : ~Moves(r, t)

\* With no card archived, the only ways out of gapless columns.
GapExplained ==
  \/ \E t \in Tasks : archived'[t] # archived[t] \/ Withdrawn(t)
  \/ \E r \in Requests : (Stale(r) \/ Outside(r)) /\ request'[r] = Idle

\* As long as no card is archived, columns stay numbered without gaps and ties whatever
\* is created, moved or deleted, except by a position from outside the column, a bulk
\* update and a request that commits on an outdated read.
DenseStep ==
  (\A c \in Columns : Dense(c)) /\ (\A t \in Tasks : ~archived[t]) =>
     (\A c \in Columns : Dense(c)') \/ GapExplained

DenseColumnsStayDense == [][DenseStep]_vars

\* delete_column refuses to delete a column that has cards in use ("Sutunda aktif
\* gorevler var. Once tasiyin veya arsivleyin."), so a card in use can only go with
\* its board.
ActiveTasksSurviveColumns ==
  [][\A t \in Tasks :
       Active(t) /\ column'[t] = None => BoardOf[column[t]] \notin boards']_vars
=============================================================================
