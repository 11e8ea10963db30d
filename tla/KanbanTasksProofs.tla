-------------------------- MODULE KanbanTasksProofs --------------------------
(***************************************************************************)
(* Theorems about KanbanTasks, for every set of boards, columns, cards and *)
(* overlapping requests and every bound on sort_order; and about the drops *)
(* of KanbanDrag on top of it.                                             *)
(***************************************************************************)
EXTENDS KanbanDrag, FiniteSetTheorems, TLAPS

\* A request in progress has the fields of its operation.
LEMMA RequestFields ==
  ASSUME TypeOK, NEW r \in Requests
  PROVE  /\ request[r].op = "create" => request[r] \in CreateRequest
         /\ request[r].op = "move" => request[r] \in MoveRequest
         /\ request[r].op = "deleteColumn" => request[r] \in DeleteColumnRequest
<1>1. request[r] \in Request
  BY DEF TypeOK
<1>2. QED
  BY <1>1 DEF Request, Idle, CreateRequest, MoveRequest, DeleteColumnRequest

\* Renumbering yields an integer.
LEMMA RenumberedType ==
  ASSUME TypeOK, NEW m \in MoveRequest, NEW x \in Tasks
  PROVE  Renumbered(m, x) \in Int
<1>1. order[x] \in Int /\ m.old \in Int /\ m.place \in Int
  BY KanbanConstants DEF TypeOK, MoveRequest
<1>2. QED
  BY <1>1 DEF Renumbered

LEMMA InitType == Init => TypeOK
BY DEF Init, TypeOK, Request

LEMMA RemoveTasksType ==
  ASSUME TypeOK, NEW STATE S, RemoveTasks(S)
  PROVE  /\ column' \in [Tasks -> Columns \cup {None}]
         /\ order' \in [Tasks -> Int]
         /\ archived' \in [Tasks -> BOOLEAN]
<1>1. column' \in [Tasks -> Columns \cup {None}]
  BY DEF TypeOK, RemoveTasks
<1>2. order' \in [Tasks -> Int]
  BY DEF TypeOK, RemoveTasks
<1>3. archived' \in [Tasks -> BOOLEAN]
  BY Zenon DEF TypeOK, RemoveTasks
<1>4. QED
  BY <1>1, <1>2, <1>3

LEMMA NextType == TypeOK /\ [Next]_vars => TypeOK'
<1> SUFFICES ASSUME TypeOK, [Next]_vars PROVE TypeOK'
  OBVIOUS
<1> USE KanbanConstants
<1>1. ASSUME NEW b \in Boards, CreateBoard(b) PROVE TypeOK'
  BY <1>1 DEF TypeOK, CreateBoard
<1>2. ASSUME NEW b \in Boards, DeleteBoard(b) PROVE TypeOK'
  BY <1>2, RemoveTasksType DEF TypeOK, DeleteBoard
<1>3. ASSUME NEW c \in Columns, CreateColumn(c) PROVE TypeOK'
  BY <1>3 DEF TypeOK, CreateColumn
<1>4. ASSUME NEW r \in Requests, NEW c \in Columns, DeleteColumnRead(r, c)
      PROVE  TypeOK'
  <2>1. [op |-> "deleteColumn", column |-> c, loaded |-> {t \in Tasks : column[t] = c}]
          \in Request
    BY DEF Request, DeleteColumnRequest
  <2>2. QED
    BY <1>4, <2>1 DEF TypeOK, DeleteColumnRead, rows
<1>5. ASSUME NEW r \in Requests, NEW c \in Columns, CreateTaskRead(r, c)
      PROVE  TypeOK'
  <2>1. ASSUME NEW m \in Int
        PROVE  [op |-> "create", column |-> c, last |-> m] \in Request
    BY DEF Request, CreateRequest
  <2>2. {0} \cup {order[t] : t \in Tasks} \subseteq Int
    BY DEF TypeOK
  <2>3. QED
    BY <1>5, <2>1, <2>2 DEF TypeOK, CreateTaskRead, rows
<1>6. ASSUME NEW r \in Requests, NEW t \in Tasks, CreateTaskWrite(r, t)
      PROVE  TypeOK'
  <2>1. request[r] \in CreateRequest
    BY <1>6, RequestFields DEF CreateTaskWrite
  <2>2. request[r].column \in Columns /\ request[r].last \in Int
    BY <2>1 DEF CreateRequest
  <2>3. QED
    BY <1>6, <2>2 DEF TypeOK, CreateTaskWrite, Request
<1>7. ASSUME NEW r \in Requests, NEW t \in Tasks, NEW c \in Columns,
             NEW s \in Positions, MoveTaskRead(r, t, c, s)
      PROVE  TypeOK'
  <2>1. column[t] \in Columns /\ order[t] \in Int
    BY <1>7 DEF TypeOK, MoveTaskRead, Exists
  <2>2. ASSUME NEW S \in SUBSET Tasks
        PROVE  [op |-> "move", task |-> t, to |-> c, place |-> s,
                from |-> column[t], old |-> order[t], seen |-> S] \in Request
    BY <2>1 DEF Request, MoveRequest
  <2>3. \E S \in SUBSET Tasks :
          request' = [request EXCEPT ![r] =
            [op |-> "move", task |-> t, to |-> c, place |-> s,
             from |-> column[t], old |-> order[t], seen |-> S]]
    BY <1>7 DEF MoveTaskRead, Shifted
  <2>4. QED
    BY <1>7, <2>2, <2>3 DEF TypeOK, MoveTaskRead, rows
<1>8. ASSUME NEW r \in Requests, DeleteColumnWrite(r) PROVE TypeOK'
  BY <1>8, RemoveTasksType DEF TypeOK, DeleteColumnWrite, Request
<1>9. ASSUME NEW r \in Requests, MoveTaskWrite(r) PROVE TypeOK'
  <2>1. request[r] \in MoveRequest
    BY <1>9, RequestFields DEF MoveTaskWrite
  <2>2. request[r].to \in Columns /\ request[r].place \in Int
    BY <2>1 DEF MoveRequest
  <2>3. order' \in [Tasks -> Int]
    <3>1. PICK seen \in {request[r].seen, Tasks} :
            order' = [x \in Tasks |->
              IF x = request[r].task /\ request[r].place # request[r].old
              THEN request[r].place
              ELSE IF x \in seen THEN Renumbered(request[r], x) ELSE order[x]]
      BY <1>9 DEF MoveTaskWrite
    <3>2. ASSUME NEW x \in Tasks
          PROVE  Renumbered(request[r], x) \in Int /\ order[x] \in Int
      BY <2>1, RenumberedType DEF TypeOK
    <3>3. QED
      BY <2>2, <3>1, <3>2
  <2>4. column' \in [Tasks -> Columns \cup {None}]
    BY <1>9, <2>2 DEF TypeOK, MoveTaskWrite
  <2>5. request' \in [Requests -> Request]
    BY <1>9 DEF TypeOK, MoveTaskWrite, Request
  <2>6. QED
    BY <1>9, <2>3, <2>4, <2>5 DEF TypeOK, MoveTaskWrite
<1>10. ASSUME NEW r \in Requests, Fail(r) PROVE TypeOK'
  BY <1>10 DEF TypeOK, Fail, Request, rows
<1>11. ASSUME NEW t \in Tasks, NEW flag \in BOOLEAN, SetArchived(t, flag)
       PROVE  TypeOK'
  BY <1>11 DEF TypeOK, SetArchived
<1>12. ASSUME NEW S \in Batches, NEW c \in Columns \cup {None},
              NEW flag \in BOOLEAN \cup {None}, BulkUpdate(S, c, flag)
       PROVE  TypeOK'
  <2>1. column' \in [Tasks -> Columns \cup {None}]
    BY <1>12 DEF TypeOK, BulkUpdate
  <2>2. archived' \in [Tasks -> BOOLEAN]
    BY <1>12 DEF TypeOK, BulkUpdate
  <2>3. QED
    BY <1>12, <2>1, <2>2 DEF TypeOK, BulkUpdate
<1>13. CASE UNCHANGED vars
  BY <1>13 DEF TypeOK, vars, rows
<1>14. QED
  BY <1>1, <1>2, <1>3, <1>4, <1>5, <1>6, <1>7, <1>8, <1>9, <1>10, <1>11, <1>12, <1>13
     DEF Next

\* Every reachable state is well typed.
THEOREM TypeCorrect == Spec => []TypeOK
BY InitType, NextType, PTL DEF Spec

-----------------------------------------------------------------------------
LEMMA InitNoOrphans == Init => NoOrphans
BY DEF Init, NoOrphans, Exists

LEMMA NextNoOrphans == TypeOK /\ NoOrphans /\ [Next]_vars => NoOrphans'
<1> SUFFICES ASSUME TypeOK, NoOrphans, [Next]_vars PROVE NoOrphans'
  OBVIOUS
<1> USE KanbanConstants DEF NoOrphans, Exists
<1>1. ASSUME NEW b \in Boards, CreateBoard(b) PROVE NoOrphans'
  BY <1>1 DEF TypeOK, CreateBoard
<1>2. ASSUME NEW b \in Boards, DeleteBoard(b) PROVE NoOrphans'
  BY <1>2 DEF TypeOK, DeleteBoard, RemoveTasks
<1>3. ASSUME NEW c \in Columns, CreateColumn(c) PROVE NoOrphans'
  BY <1>3 DEF TypeOK, CreateColumn
<1>4. ASSUME NEW r \in Requests, NEW t \in Tasks, CreateTaskWrite(r, t)
      PROVE  NoOrphans'
  BY <1>4 DEF TypeOK, CreateTaskWrite
<1>5. ASSUME NEW r \in Requests, DeleteColumnWrite(r) PROVE NoOrphans'
  BY <1>5 DEF TypeOK, DeleteColumnWrite, RemoveTasks, DeletedWithColumn
<1>6. ASSUME NEW r \in Requests, MoveTaskWrite(r) PROVE NoOrphans'
  <2>1. ASSUME NEW t \in Tasks, column'[t] # None PROVE column'[t] \in columns
    BY <1>6, <2>1 DEF TypeOK, MoveTaskWrite
  <2>2. QED
    BY <1>6, <2>1 DEF MoveTaskWrite
<1>7. ASSUME NEW S \in Batches, NEW c \in Columns \cup {None},
             NEW flag \in BOOLEAN \cup {None}, BulkUpdate(S, c, flag)
      PROVE  NoOrphans'
  BY <1>7 DEF TypeOK, BulkUpdate
<1>8. ASSUME UNCHANGED <<boards, columns, column>> PROVE NoOrphans'
  BY <1>8
<1>9. QED
  BY <1>1, <1>2, <1>3, <1>4, <1>5, <1>6, <1>7, <1>8
     DEF Next, vars, rows, DeleteColumnRead, CreateTaskRead, MoveTaskRead, Fail, SetArchived

\* Whatever overlaps, every card is in a column that exists, on a board that exists.
THEOREM NoOrphansHolds == Spec => []NoOrphans
BY InitType, NextType, InitNoOrphans, NextNoOrphans, PTL DEF Spec

-----------------------------------------------------------------------------
\* Renumbering keeps the order of two cards of one column.
LEMMA RenumberedMonotone ==
  ASSUME TypeOK, NEW m \in MoveRequest, NEW x \in Tasks, NEW y \in Tasks,
         x # m.task, y # m.task, ~archived[x], ~archived[y],
         column[x] = column[y], order[x] < order[y]
  PROVE  Renumbered(m, x) <= Renumbered(m, y)
<1>1. /\ order[x] \in Int /\ order[y] \in Int
      /\ m.old \in Int /\ m.place \in Int
  BY KanbanConstants DEF TypeOK, MoveRequest
<1>2. QED
  BY <1>1 DEF Renumbered

\* ... and so it does if one of them is passed over.
LEMMA PassedOverMonotone ==
  ASSUME TypeOK, NEW m \in MoveRequest, NEW x \in Tasks, NEW y \in Tasks,
         order[x] < order[y]
  PROVE  Renumbered(m, x) <= order[y] /\ order[x] <= Renumbered(m, y)
<1>1. /\ order[x] \in Int /\ order[y] \in Int
      /\ m.old \in Int /\ m.place \in Int
  BY KanbanConstants DEF TypeOK, MoveRequest
<1>2. QED
  BY <1>1 DEF Renumbered

\* A card that is not moved keeps its place or is renumbered.
LEMMA MoveEffect ==
  ASSUME NEW r \in Requests, MoveTaskWrite(r)
  PROVE  \E seen \in {request[r].seen, Tasks} : \A x \in Tasks :
           x # request[r].task =>
             order'[x] = IF x \in seen THEN Renumbered(request[r], x) ELSE order[x]
<1>1. PICK seen \in {request[r].seen, Tasks} :
        order' = [x \in Tasks |->
          IF x = request[r].task /\ request[r].place # request[r].old
          THEN request[r].place
          ELSE IF x \in seen THEN Renumbered(request[r], x) ELSE order[x]]
  BY DEF MoveTaskWrite
<1>2. QED
  BY <1>1

LEMMA MoveOrder ==
  ASSUME TypeOK, NEW r \in Requests, MoveTaskWrite(r) PROVE OrderKeptStep
<1> SUFFICES ASSUME NEW x \in Tasks, NEW y \in Tasks,
                    Active(x), Active(y), Active(x)', Active(y)',
                    column[x] = column[y],
                    ~Moves(r, x), ~Moves(r, y), order[x] < order[y]
             PROVE  order'[x] <= order'[y]
  BY DEF OrderKeptStep
<1>1. request[r] \in MoveRequest
  BY RequestFields DEF MoveTaskWrite
<1>2. x # request[r].task /\ y # request[r].task
  BY DEF MoveTaskWrite, Moves, TypeOK
<1>3. PICK seen \in {request[r].seen, Tasks} : \A z \in {x, y} :
        order'[z] = IF z \in seen THEN Renumbered(request[r], z) ELSE order[z]
  BY <1>2, MoveEffect
<1>4. Renumbered(request[r], x) <= Renumbered(request[r], y)
  BY <1>1, <1>2, RenumberedMonotone DEF Active
<1>5. Renumbered(request[r], x) <= order[y] /\ order[x] <= Renumbered(request[r], y)
  BY <1>1, PassedOverMonotone
<1>6. order[x] <= order[y]
  BY DEF TypeOK
<1>7. QED
  BY <1>3, <1>4, <1>5, <1>6

LEMMA NextOrder == TypeOK /\ [Next]_vars => [OrderKeptStep]_vars
<1> SUFFICES ASSUME TypeOK, Next PROVE OrderKeptStep
  OBVIOUS
<1>2. ASSUME NEW r \in Requests, NEW t \in Tasks, CreateTaskWrite(r, t)
      PROVE  OrderKeptStep
  BY <1>2 DEF TypeOK, CreateTaskWrite, FreshTask, OrderKeptStep, Active, Exists
<1>3. ASSUME UNCHANGED order PROVE OrderKeptStep
  BY <1>3 DEF TypeOK, OrderKeptStep
<1>4. ASSUME NEW b \in Boards, DeleteBoard(b) PROVE OrderKeptStep
  BY <1>4 DEF TypeOK, DeleteBoard, RemoveTasks, OrderKeptStep, Active, Exists
<1>5. ASSUME NEW r \in Requests, DeleteColumnWrite(r) PROVE OrderKeptStep
  BY <1>5 DEF TypeOK, DeleteColumnWrite, RemoveTasks, OrderKeptStep, Active, Exists
<1>6. QED
  BY <1>2, <1>3, <1>4, <1>5, MoveOrder
     DEF Next, rows, CreateBoard, CreateColumn, DeleteColumnRead, CreateTaskRead,
         MoveTaskRead, Fail, SetArchived, BulkUpdate

\* Cards nobody touches never swap places.
THEOREM OrderKeptHolds == Spec => OrderKept
BY InitType, NextType, NextOrder, PTL DEF Spec, OrderKept

-----------------------------------------------------------------------------
\* With an up-to-date read of a card in use, renumbering separates what was separate.
LEMMA RenumberedInjective ==
  ASSUME TypeOK, NEW m \in MoveRequest, NEW c \in Columns, NoTies(c),
         Active(m.task), column[m.task] = m.from, order[m.task] = m.old,
         NEW x \in Tasks, NEW y \in Tasks, x # y, x # m.task, y # m.task,
         Active(x), Active(y), column[x] = c, column[y] = c
  PROVE  Renumbered(m, x) # Renumbered(m, y)
<1>1. /\ order[x] \in Int /\ order[y] \in Int
      /\ m.old \in Int /\ m.place \in Int /\ m.task \in Tasks
  BY KanbanConstants DEF TypeOK, MoveRequest
<1>2. order[x] # order[y]
  BY DEF NoTies
<1>3. c = m.from => order[x] # m.old /\ order[y] # m.old
  BY <1>1 DEF NoTies
<1>4. QED
  BY <1>1, <1>2, <1>3 DEF Renumbered, Active

\* ... and leaves the requested place free.
LEMMA PlaceFree ==
  ASSUME TypeOK, NEW m \in MoveRequest, NoTies(m.to),
         Active(m.task), column[m.task] = m.from, order[m.task] = m.old,
         NEW y \in Tasks, y # m.task, Active(y), column[y] = m.to
  PROVE  Renumbered(m, y) # m.place
<1>1. /\ order[y] \in Int /\ m.old \in Int /\ m.place \in Int /\ m.task \in Tasks
  BY KanbanConstants DEF TypeOK, MoveRequest
<1>2. m.from = m.to => order[y] # m.old
  BY <1>1 DEF NoTies
<1>3. QED
  BY <1>1, <1>2 DEF Renumbered, Active

\* What a move does to the rows if its read is up to date.
LEMMA UpToDateMove ==
  ASSUME TypeOK, NEW r \in Requests, MoveTaskWrite(r), Active(request[r].task),
         column[request[r].task] = request[r].from, order[request[r].task] = request[r].old,
         Shifted(request[r]) \subseteq request[r].seen
  PROVE  /\ order'[request[r].task] = request[r].place
         /\ column'[request[r].task] = request[r].to
         /\ \A x \in Tasks \ {request[r].task} :
              /\ order'[x] = Renumbered(request[r], x)
              /\ column'[x] = column[x]
         /\ archived' = archived
<1> DEFINE m == request[r]
<1>1. m \in MoveRequest
  BY RequestFields DEF MoveTaskWrite
<1>2. /\ m.task \in Tasks /\ m.to \in Columns /\ m.from \in Columns
      /\ m.place \in Int /\ m.old \in Int
  BY <1>1, KanbanConstants DEF MoveRequest
<1>3. order'[m.task] = m.place /\ column'[m.task] = m.to
  BY <1>1, <1>2 DEF MoveTaskWrite, Renumbered, TypeOK, Active
<1>4. ASSUME NEW x \in Tasks, x # m.task
      PROVE  order'[x] = Renumbered(m, x) /\ column'[x] = column[x]
  <2>1. PICK seen \in {m.seen, Tasks} :
          order'[x] = IF x \in seen THEN Renumbered(m, x) ELSE order[x]
    BY <1>4, MoveEffect
  <2>2. x \notin seen => Renumbered(m, x) = order[x]
    BY DEF Shifted
  <2>3. column'[x] = column[x]
    BY <1>1, <1>4 DEF MoveTaskWrite, TypeOK
  <2>4. QED
    BY <2>1, <2>2, <2>3
<1>5. QED
  BY <1>3, <1>4 DEF MoveTaskWrite

LEMMA MoveTies ==
  ASSUME TypeOK, NEW r \in Requests, MoveTaskWrite(r), Active(request[r].task),
         column[request[r].task] = request[r].from, order[request[r].task] = request[r].old,
         Shifted(request[r]) \subseteq request[r].seen,
         NEW c \in Columns, NoTies(c)
  PROVE  NoTies(c)'
<1> DEFINE m == request[r]
<1>1. m \in MoveRequest
  BY RequestFields DEF MoveTaskWrite
<1>2. m.task \in Tasks
  BY <1>1 DEF MoveRequest
<1>3. order'[m.task] = m.place /\ column'[m.task] = m.to
  BY UpToDateMove
<1>4. ASSUME NEW x \in Tasks, x # m.task
      PROVE  /\ order'[x] = Renumbered(m, x)
             /\ column'[x] = column[x]
             /\ archived'[x] = archived[x]
  BY <1>4, UpToDateMove
<1>5. SUFFICES ASSUME NEW x \in Tasks, NEW y \in Tasks, x # y,
                      Active(x)', Active(y)', column'[x] = c, column'[y] = c
               PROVE  order'[x] # order'[y]
  BY DEF NoTies
<1>6. CASE x # m.task /\ y # m.task
  <2>1. Active(x) /\ Active(y) /\ column[x] = c /\ column[y] = c
    BY <1>4, <1>5, <1>6 DEF Active, Exists
  <2>2. QED
    BY <1>1, <1>4, <1>5, <1>6, <2>1, RenumberedInjective
<1>7. ASSUME NEW z \in Tasks, z # m.task, Active(z)', column'[z] = c, c = m.to
      PROVE  order'[z] # m.place
  <2>1. Active(z) /\ column[z] = m.to
    BY <1>4, <1>7 DEF Active, Exists
  <2>2. QED
    BY <1>1, <1>4, <1>7, <2>1, PlaceFree
<1>8. CASE x = m.task
  BY <1>3, <1>5, <1>7, <1>8
<1>9. CASE y = m.task
  BY <1>3, <1>5, <1>7, <1>9
<1>10. QED
  BY <1>6, <1>8, <1>9

LEMMA CreateTies ==
  ASSUME TypeOK, NEW r \in Requests, NEW t \in Tasks, CreateTaskWrite(r, t),
         LastOrder(request[r].column, request[r].last), NEW c \in Columns, NoTies(c)
  PROVE  NoTies(c)'
<1>1. request[r] \in CreateRequest
  BY RequestFields DEF CreateTaskWrite
<1>2. request[r].last \in Int /\ request[r].column \in Columns
  BY <1>1 DEF CreateRequest
<1>3. \A x \in Tasks : column[x] = request[r].column => order[x] <= request[r].last
  BY DEF LastOrder
<1>4. order'[t] = request[r].last + 1 /\ column'[t] = request[r].column
  BY DEF CreateTaskWrite, TypeOK
<1>5. ASSUME NEW x \in Tasks, x # t
      PROVE  order'[x] = order[x] /\ column'[x] = column[x] /\ archived'[x] = archived[x]
  BY <1>5 DEF CreateTaskWrite, TypeOK
<1>6. ASSUME NEW x \in Tasks, x # t, column'[x] = request[r].column
      PROVE  order'[x] # order'[t]
  BY <1>2, <1>3, <1>4, <1>5, <1>6 DEF TypeOK
<1>7. SUFFICES ASSUME NEW x \in Tasks, NEW y \in Tasks, x # y,
                      Active(x)', Active(y)', column'[x] = c, column'[y] = c
               PROVE  order'[x] # order'[y]
  BY DEF NoTies
<1>8. CASE x # t /\ y # t
  BY <1>5, <1>7, <1>8 DEF NoTies, Active, Exists
<1>9. QED
  BY <1>4, <1>6, <1>7, <1>8

\* Steps that neither renumber nor create: the cards in use of a column afterwards
\* were in use there before, unless one was reused.
LEMMA QuietTies ==
  ASSUME TypeOK, ~TieExplained, NEW c \in Columns, NoTies(c),
         \A x \in Tasks : column'[x] # None => order'[x] = order[x],
         \A x \in Tasks : column'[x] # None => column[x] # None,
         \A x \in Tasks, r \in Requests : ~Moves(r, x)
  PROVE  NoTies(c)'
<1> SUFFICES ASSUME NEW x \in Tasks, NEW y \in Tasks,
                    Active(x)', Active(y)', column'[x] = c, column'[y] = c,
                    order'[x] = order'[y]
             PROVE  x = y
  BY DEF NoTies
<1>1. ASSUME NEW z \in Tasks, Active(z)', column'[z] = c
      PROVE  Active(z) /\ column[z] = c /\ order'[z] = order[z]
  BY <1>1 DEF TieExplained, Reused, Active, Exists
<1>2. QED
  BY <1>1 DEF NoTies

LEMMA NextTies == TypeOK /\ [Next]_vars => [NoNewTiesStep]_vars
<1> SUFFICES ASSUME TypeOK, Next, NEW c \in Columns, NoTies(c), ~TieExplained
             PROVE  NoTies(c)'
  BY DEF NoNewTiesStep
<1>1. ASSUME NEW b \in Boards, DeleteBoard(b) PROVE NoTies(c)'
  BY <1>1, QuietTies DEF TypeOK, DeleteBoard, RemoveTasks, Moves, Idle, MoveRequest
<1>2. ASSUME NEW r \in Requests, DeleteColumnWrite(r) PROVE NoTies(c)'
  BY <1>2, QuietTies DEF TypeOK, DeleteColumnWrite, RemoveTasks, Moves, Idle
<1>3. ASSUME NEW r \in Requests, NEW t \in Tasks, CreateTaskWrite(r, t)
      PROVE  NoTies(c)'
  <2>1. request[r].op = "create" /\ request'[r] = Idle
    BY <1>3 DEF CreateTaskWrite, TypeOK
  <2>2. LastOrder(request[r].column, request[r].last)
    BY <2>1 DEF TieExplained, Stale
  <2>3. QED
    BY <1>3, <2>2, CreateTies
<1>4. ASSUME NEW r \in Requests, MoveTaskWrite(r) PROVE NoTies(c)'
  <2> DEFINE m == request[r]
  <2>1. m.op = "move" /\ m.task \in Tasks /\ request'[r] = Idle
    BY <1>4, RequestFields DEF MoveTaskWrite, MoveRequest, TypeOK
  <2>2. column[m.task] = m.from /\ order[m.task] = m.old /\ Shifted(m) \subseteq m.seen
    BY <2>1 DEF TieExplained, Stale
  <2>3. ~archived[m.task]
    BY <2>1 DEF TieExplained, Moves
  <2>4. Active(m.task)
    BY <1>4, <2>3 DEF MoveTaskWrite, Active
  <2>5. QED
    BY <1>4, <2>2, <2>4, MoveTies
<1>5. ASSUME NEW t \in Tasks, NEW flag \in BOOLEAN, SetArchived(t, flag)
      PROVE  NoTies(c)'
  BY <1>5, QuietTies DEF TypeOK, SetArchived, Moves, Idle
<1>6. ASSUME NEW S \in Batches, NEW d \in Columns \cup {None},
             NEW flag \in BOOLEAN \cup {None}, BulkUpdate(S, d, flag)
      PROVE  NoTies(c)'
  <2>1. \A x \in Tasks : column'[x] # None => column[x] # None
    BY <1>6 DEF BulkUpdate, Exists
  <2>2. QED
    BY <1>6, <2>1, QuietTies DEF TypeOK, BulkUpdate, Moves, Idle
<1>7. ASSUME UNCHANGED <<column, order, archived>> PROVE NoTies(c)'
  BY <1>7 DEF NoTies, Active, Exists
<1>8. QED
  BY <1>1, <1>2, <1>3, <1>4, <1>5, <1>6, <1>7
     DEF Next, rows, CreateBoard, CreateColumn, DeleteColumnRead, CreateTaskRead,
         MoveTaskRead, Fail

\* A tie always has one of the named causes.
THEOREM TiesExplained == Spec => TiesOnlyFromReuseOrStaleReads
BY InitType, NextType, NextTies, PTL DEF Spec, TiesOnlyFromReuseOrStaleReads
-----------------------------------------------------------------------------
(***************************************************************************)
(* Columns numbered without a gap                                          *)
(***************************************************************************)
\* Numbers 1, 2, ... that go round for a finite set go round once.
LEMMA NumberedOnce ==
  ASSUME NEW S, IsFiniteSet(S), NEW f, {f[x] : x \in S} = 1 .. Cardinality(S)
  PROVE  \A x, y \in S : f[x] = f[y] => x = y
<1> DEFINE n == Cardinality(S)
           g == [x \in S |-> f[x]]
<1>1. n \in Nat
  BY FS_CardinalityType
<1>2. Cardinality(1 .. n) = n
  BY <1>1, FS_Interval
<1>3. g \in Surjection(S, 1 .. n)
  BY DEF Surjection
<1>4. g \in Injection(S, 1 .. n)
  BY <1>2, <1>3, FS_SurjSameCardinalityImpliesInj
<1>5. QED
  BY <1>4 DEF Injection, IsInjective

\* ... and conversely.
LEMMA NumberedAll ==
  ASSUME NEW S, IsFiniteSet(S), NEW f, \A x \in S : f[x] \in 1 .. Cardinality(S),
         \A x, y \in S : f[x] = f[y] => x = y
  PROVE  {f[x] : x \in S} = 1 .. Cardinality(S)
<1> DEFINE n == Cardinality(S)
           g == [x \in S |-> f[x]]
<1>1. n \in Nat
  BY FS_CardinalityType
<1>2. Cardinality(1 .. n) = n /\ IsFiniteSet(1 .. n)
  BY <1>1, FS_Interval
<1>3. g \in Injection(S, 1 .. n)
  BY DEF Injection, IsInjective
<1>4. g \in Surjection(S, 1 .. n)
  BY <1>2, <1>3, FS_Injection
<1>5. \A x \in S : g[x] = f[x]
  OBVIOUS
<1>6. \A i \in 1 .. n : \E x \in S : f[x] = i
  BY <1>4, <1>5 DEF Surjection
<1>7. QED
  BY <1>6

\* As many as k of them have a number up to k.
LEMMA CountUpTo ==
  ASSUME NEW S, IsFiniteSet(S), NEW f, {f[x] : x \in S} = 1 .. Cardinality(S),
         NEW k \in 0 .. Cardinality(S)
  PROVE  Cardinality({x \in S : f[x] <= k}) = k
<1> DEFINE T == {x \in S : f[x] <= k}
           g == [x \in T |-> f[x]]
<1>1. Cardinality(S) \in Nat /\ IsFiniteSet(T)
  BY FS_CardinalityType, FS_Subset
<1>2. Cardinality(1 .. k) = k
  BY <1>1, FS_Interval
<1>3. \A x \in T : f[x] \in 1 .. k
  BY <1>1
<1>4. \A i \in 1 .. k : \E x \in T : f[x] = i
  <2> SUFFICES ASSUME NEW i \in 1 .. k PROVE \E x \in T : f[x] = i
    OBVIOUS
  <2>1. i \in {f[x] : x \in S} /\ i <= k
    BY <1>1
  <2>2. QED
    BY <2>1
<1>5. g \in Surjection(T, 1 .. k)
  BY <1>3, <1>4 DEF Surjection
<1>6. g \in Injection(T, 1 .. k)
  BY <1>3, NumberedOnce DEF Injection, IsInjective
<1>7. QED
  BY <1>1, <1>2, <1>5, <1>6, FS_Surjection

\* The cards in use of a column.
Cards(c) == {x \in Tasks : Active(x) /\ column[x] = c}

LEMMA CardsFinite ==
  ASSUME NEW c
  PROVE  IsFiniteSet(Cards(c)) /\ Cardinality(Cards(c)) \in Nat
<1>1. IsFiniteSet(Cards(c))
  BY DragAssumption, FS_Subset DEF Cards
<1>2. QED
  BY <1>1, FS_CardinalityType

\* A dense column has no ties.
LEMMA DenseNoTies ==
  ASSUME NEW c, Dense(c)
  PROVE  NoTies(c)
<1>1. {order[x] : x \in Cards(c)} = 1 .. Cardinality(Cards(c))
  BY DEF Dense, Cards
<1>2. \A x, y \in Cards(c) : order[x] = order[y] => x = y
  BY <1>1, CardsFinite, NumberedOnce
<1>3. QED
  BY <1>2 DEF NoTies, Cards

\* A column without ties is dense if its numbers do not exceed the number of its cards.
LEMMA DenseByCount ==
  ASSUME NEW c, NEW n, NoTies(c)', Cardinality(Cards(c))' = n,
         \A x \in Tasks : Active(x)' /\ column'[x] = c => order'[x] \in 1 .. n
  PROVE  Dense(c)'
<1> DEFINE S == Cards(c)'
<1>1. IsFiniteSet(S)
  BY DragAssumption, FS_Subset DEF Cards
<1>2. \A x \in S : order'[x] \in 1 .. Cardinality(S)
  BY DEF Cards
<1>3. \A x, y \in S : order'[x] = order'[y] => x = y
  BY DEF Cards, NoTies
<1>4. {order'[x] : x \in S} = 1 .. Cardinality(S)
  BY <1>1, <1>2, <1>3, NumberedAll
<1>5. QED
  BY <1>4 DEF Dense, Cards

LEMMA MoveStaysDense ==
  ASSUME TypeOK, NEW r \in Requests, MoveTaskWrite(r), ~Stale(r), ~Outside(r),
         \A t \in Tasks : ~archived[t],
         \A c \in Columns : Dense(c), NEW c \in Columns
  PROVE  Dense(c)'
<1> DEFINE m == request[r]
           t == m.task
           n == Cardinality(Cards(c))
<1>1. m \in MoveRequest /\ m.op = "move"
  BY RequestFields DEF MoveTaskWrite
<1>2. /\ t \in Tasks /\ m.to \in Columns /\ m.from \in Columns
      /\ m.place \in Int /\ m.old \in Int
  BY <1>1, KanbanConstants DEF MoveRequest
<1>3. /\ Active(t) /\ column[t] = m.from /\ order[t] = m.old /\ Shifted(m) \subseteq m.seen
      /\ m.place \in 1 .. Cardinality(Others(t, m.to)) + 1
  BY <1>1, <1>2 DEF Stale, Outside, Others, Active, MoveTaskWrite
<1>4. /\ order'[t] = m.place /\ column'[t] = m.to
      /\ \A x \in Tasks \ {t} : order'[x] = Renumbered(m, x) /\ column'[x] = column[x]
      /\ archived' = archived
  BY <1>1, <1>3, UpToDateMove
<1>5. {order[x] : x \in Cards(c)} = 1 .. n /\ IsFiniteSet(Cards(c)) /\ n \in Nat
  BY CardsFinite DEF Dense, Cards
<1>6. \A x \in Tasks : Active(x) /\ column[x] = c => order[x] \in 1 .. n
  BY <1>5 DEF Cards
<1>7. NoTies(c)
  BY DenseNoTies
<1>8. NoTies(c)'
  BY <1>1, <1>3, <1>7, MoveTies
<1>9. Others(t, c) = Cards(c) \ {t}
  BY DEF Others, Cards
<1>10. t \in Cards(c) <=> m.from = c
  BY <1>2, <1>3 DEF Cards
<1>11. \A x \in Tasks \ {t} : x \in Cards(c)' <=> x \in Cards(c)
  BY <1>4 DEF Cards, Active, Exists
<1>12. t \in Cards(c)' <=> m.to = c
  BY <1>2, <1>3, <1>4, KanbanConstants DEF Cards, Active, Exists
<1>13. Cards(c) \subseteq Tasks /\ Cards(c)' \subseteq Tasks
  BY DEF Cards
<1>14. CASE c # m.to /\ c # m.from
  <2>1. Cards(c)' = Cards(c)
    BY <1>10, <1>11, <1>12, <1>13, <1>14
  <2>2. \A x \in Cards(c) : order'[x] = order[x]
    BY <1>4, <1>10, <1>14 DEF Cards, Renumbered
  <2>3. QED
    BY <1>6, <1>8, <2>1, <2>2, DenseByCount DEF Cards
<1>15. CASE c = m.to /\ c = m.from
  <2>1. Cards(c)' = Cards(c)
    BY <1>10, <1>11, <1>12, <1>13, <1>15
  <2>2. m.place \in 1 .. n
    <3>1. Cardinality(Cards(c) \ {t}) = n - 1
      BY <1>5, <1>10, <1>15, FS_RemoveElement
    <3>2. Others(t, m.to) = Cards(c) \ {t}
      BY <1>9, <1>15
    <3>3. m.place \in 1 .. (n - 1) + 1
      BY <1>3, <3>1, <3>2
    <3>4. QED
      BY <1>5, <3>3
  <2>3. m.old \in 1 .. n
    BY <1>2, <1>3, <1>6, <1>15
  <2>4. ASSUME NEW x \in Cards(c), x # t PROVE Renumbered(m, x) \in 1 .. n
    <3>1. order[x] \in 1 .. n /\ x \in Tasks
      BY <1>6 DEF Cards
    <3>2. QED
      BY <1>5, <1>15, <2>2, <2>3, <2>4, <3>1 DEF Renumbered
  <2>5. \A x \in Cards(c) : order'[x] \in 1 .. n
    BY <1>4, <2>2, <2>4 DEF Cards
  <2>6. QED
    BY <1>8, <2>1, <2>5, DenseByCount DEF Cards
<1>16. CASE c = m.to /\ c # m.from
  <2>1. Cards(c)' = Cards(c) \cup {t} /\ t \notin Cards(c)
    BY <1>2, <1>10, <1>11, <1>12, <1>13, <1>16
  <2>2. Cardinality(Cards(c))' = n + 1
    BY <1>5, <2>1, FS_AddElement
  <2>3. m.place \in 1 .. n + 1
    BY <1>2, <1>3, <1>5, <1>9, <1>10, <1>16, FS_RemoveElement
  <2>4. \A x \in Cards(c)' : order'[x] \in 1 .. n + 1
    BY <1>2, <1>3, <1>4, <1>5, <1>6, <1>16, <2>1, <2>3 DEF Cards, Renumbered
  <2>5. QED
    BY <1>8, <2>2, <2>4, DenseByCount DEF Cards
<1>17. CASE c # m.to /\ c = m.from
  <2>1. Cards(c)' = Cards(c) \ {t} /\ t \in Cards(c)
    BY <1>2, <1>10, <1>11, <1>12, <1>13, <1>17
  <2>2. Cardinality(Cards(c))' = n - 1
    <3>1. Cardinality(Cards(c) \ {t}) = n - 1
      BY <1>5, <2>1, FS_RemoveElement
    <3>2. QED
      BY <2>1, <3>1
  <2>3. m.old \in 1 .. n /\ \A x \in Cards(c) \ {t} : order[x] # m.old
    BY <1>2, <1>3, <1>6, <1>7, <1>17 DEF Cards, NoTies
  <2>4. \A x \in Cards(c)' : order'[x] \in 1 .. n - 1
    BY <1>2, <1>3, <1>4, <1>5, <1>6, <1>17, <2>1, <2>3 DEF Cards, Renumbered
  <2>5. QED
    BY <1>8, <2>2, <2>4, DenseByCount DEF Cards
<1>18. QED
  BY <1>14, <1>15, <1>16, <1>17

LEMMA NewCardStaysDense ==
  ASSUME TypeOK, NEW r \in Requests, NEW t \in Tasks, CreateTaskWrite(r, t), ~Stale(r),
         \A x \in Tasks : ~archived[x],
         \A c \in Columns : Dense(c), NEW c \in Columns
  PROVE  Dense(c)'
<1> DEFINE last == request[r].last
           n == Cardinality(Cards(c))
<1>1. request[r] \in CreateRequest /\ request[r].op = "create"
  BY RequestFields DEF CreateTaskWrite
<1>2. last \in Int /\ request[r].column \in Columns /\ LastOrder(request[r].column, last)
  BY <1>1 DEF CreateRequest, Stale
<1>3. /\ column[t] = None /\ order'[t] = last + 1 /\ column'[t] = request[r].column
      /\ \A x \in Tasks \ {t} : order'[x] = order[x] /\ column'[x] = column[x]
      /\ \A x \in Tasks : ~archived'[x]
  BY <1>1 DEF CreateTaskWrite, FreshTask, TypeOK
<1>4. {order[x] : x \in Cards(c)} = 1 .. n /\ IsFiniteSet(Cards(c)) /\ n \in Nat
  BY CardsFinite DEF Dense, Cards
<1>5. \A x \in Tasks : column[x] = c => Active(x) /\ order[x] \in 1 .. n
  BY <1>4, KanbanConstants DEF Cards, Active, Exists
<1>6. NoTies(c)'
  BY <1>1, <1>2, DenseNoTies, CreateTies
<1>7. CASE c # request[r].column
  <2>1. Cards(c)' = Cards(c)
    BY <1>3, <1>7, KanbanConstants DEF Cards, Active, Exists
  <2>2. \A x \in Cards(c) : order'[x] = order[x]
    BY <1>3, KanbanConstants DEF Cards, Active, Exists
  <2>3. QED
    BY <1>5, <1>6, <2>1, <2>2, DenseByCount DEF Cards
<1>8. CASE c = request[r].column
  <2>1. Cards(c)' = Cards(c) \cup {t} /\ t \notin Cards(c)
    <3>1. t \in Cards(c)' /\ t \notin Cards(c)
      BY <1>3, <1>8, KanbanConstants DEF Cards, Active, Exists
    <3>2. \A x \in Tasks \ {t} : x \in Cards(c)' <=> x \in Cards(c)
      BY <1>3 DEF Cards, Active, Exists
    <3>3. Cards(c) \subseteq Tasks /\ Cards(c)' \subseteq Tasks
      BY DEF Cards
    <3>4. QED
      BY <3>1, <3>2, <3>3
  <2>2. Cardinality(Cards(c))' = n + 1
    BY <1>4, <2>1, FS_AddElement
  <2>3. last \in 0 .. n
    BY <1>2, <1>4, <1>5, <1>8 DEF LastOrder
  <2>4. \A x \in Cards(c)' : order'[x] \in 1 .. n + 1
    BY <1>3, <1>4, <1>5, <2>1, <2>3 DEF Cards
  <2>5. QED
    BY <1>6, <2>2, <2>4, DenseByCount DEF Cards
<1>9. QED
  BY <1>7, <1>8

\* Cards that stay as they are stay dense.
LEMMA FrameDense ==
  ASSUME NEW c, Dense(c), Cards(c)' = Cards(c), \A x \in Cards(c) : order'[x] = order[x]
  PROVE  Dense(c)'
<1>1. {order'[x] : x \in Cards(c)'} = {order[x] : x \in Cards(c)}
  OBVIOUS
<1>2. QED
  BY <1>1 DEF Dense, Cards

\* A column whose cards have all gone is numbered 1 .. 0.
LEMMA EmptyDense ==
  ASSUME NEW c, Cards(c)' = {}
  PROVE  Dense(c)'
<1>1. Cardinality(Cards(c)') = 0
  BY FS_EmptySet
<1>2. QED
  BY <1>1 DEF Dense, Cards

\* A removal that takes no card out of a column that stays, and leaves none in one that
\* goes.
LEMMA RemovalStaysDense ==
  ASSUME TypeOK, NoOrphans, NEW STATE S, RemoveTasks(S), columns' \subseteq columns,
         \A t \in Tasks : column[t] \in columns \ columns' => t \in S,
         \A t \in S \cap Tasks : Exists(t) => column[t] \notin columns',
         \A t \in Tasks : ~archived[t], NEW c \in Columns, Dense(c)
  PROVE  Dense(c)'
<1>1. /\ \A t \in S \cap Tasks : column'[t] = None
      /\ \A t \in Tasks \ S : column'[t] = column[t] /\ order'[t] = order[t]
                               /\ archived'[t] = archived[t]
  BY Zenon DEF RemoveTasks
<1>2. CASE c \in columns'
  <2>1. \A t \in Tasks : t \in Cards(c) => t \notin S
    BY <1>2 DEF Cards, Active
  <2>2. \A t \in Tasks : t \in Cards(c)' <=> t \in Cards(c)
    BY <1>1, <2>1, KanbanConstants DEF Cards, Active, Exists
  <2>3. Cards(c)' = Cards(c)
    BY <2>2 DEF Cards
  <2>4. QED
    BY <1>1, <2>1, <2>3, FrameDense DEF Cards
<1>3. CASE c \notin columns'
  <2>1. \A t \in Tasks : column[t] = c => t \in S
    BY <1>3, KanbanConstants DEF NoOrphans, Exists
  <2>2. \A t \in Tasks : column'[t] # c
    BY <1>1, <2>1, KanbanConstants
  <2>3. QED
    BY <2>2, EmptyDense DEF Cards
<1>4. QED
  BY <1>2, <1>3

LEMMA NextDense == TypeOK /\ NoOrphans /\ [Next]_vars => [DenseStep]_vars
<1> SUFFICES ASSUME TypeOK, NoOrphans, Next, \A d \in Columns : Dense(d),
                    \A t \in Tasks : ~archived[t], ~GapExplained, NEW c \in Columns
             PROVE  Dense(c)'
  BY DEF DenseStep
<1>1. ASSUME NEW b \in Boards, DeleteBoard(b) PROVE Dense(c)'
  BY <1>1, RemovalStaysDense DEF DeleteBoard, NoOrphans
<1>2. ASSUME NEW r \in Requests, DeleteColumnWrite(r) PROVE Dense(c)'
  <2>1. columns' = columns \ {request[r].column} /\ RemoveTasks(DeletedWithColumn(r))
    BY <1>2 DEF DeleteColumnWrite
  <2>2. \A t \in Tasks : column[t] = request[r].column => t \in DeletedWithColumn(r)
    BY DEF DeletedWithColumn
  <2>3. ASSUME NEW t \in DeletedWithColumn(r) \cap Tasks, Exists(t), column[t] \in columns'
        PROVE  FALSE
    <3>1. column'[t] = None
      BY <2>1 DEF RemoveTasks
    <3>2. \A q \in Requests : ~Moves(q, t)
      BY <1>2 DEF Moves, DeleteColumnWrite, TypeOK, Idle
    <3>3. QED
      BY <2>3, <3>1, <3>2 DEF GapExplained, Withdrawn, Exists
  <2>4. QED
    BY <2>1, <2>2, <2>3, RemovalStaysDense
<1>3. ASSUME NEW r \in Requests, NEW t \in Tasks, CreateTaskWrite(r, t) PROVE Dense(c)'
  <2>1. request'[r] = Idle
    BY <1>3 DEF CreateTaskWrite, TypeOK
  <2>2. QED
    BY <1>3, <2>1, NewCardStaysDense DEF GapExplained
<1>4. ASSUME NEW r \in Requests, MoveTaskWrite(r) PROVE Dense(c)'
  <2>1. request'[r] = Idle
    BY <1>4 DEF MoveTaskWrite, TypeOK
  <2>2. QED
    BY <1>4, <2>1, MoveStaysDense DEF GapExplained
<1>5. ASSUME NEW S \in Batches, NEW d \in Columns \cup {None},
             NEW flag \in BOOLEAN \cup {None}, BulkUpdate(S, d, flag)
      PROVE  Dense(c)'
  <2>1. \A t \in Tasks, r \in Requests : ~Moves(r, t)
    BY <1>5 DEF Moves, BulkUpdate, Idle
  <2>2. \A t \in Tasks : Exists(t) => column'[t] = column[t]
    BY <1>5, <2>1 DEF GapExplained, Withdrawn, NoOrphans, BulkUpdate
  <2>3. \A t \in Tasks : ~Exists(t) => column'[t] = column[t]
    BY <1>5 DEF BulkUpdate, Exists, TypeOK
  <2>4. \A t \in Tasks : column'[t] = column[t] /\ archived'[t] = archived[t]
    BY <2>2, <2>3 DEF GapExplained
  <2>5. Cards(c)' = Cards(c)
    BY <2>4 DEF Cards, Active, Exists
  <2>6. order' = order
    BY <1>5 DEF BulkUpdate
  <2>7. QED
    BY <2>5, <2>6, FrameDense
<1>6. ASSUME NEW t \in Tasks, NEW flag \in BOOLEAN, SetArchived(t, flag) PROVE Dense(c)'
  <2>1. archived'[t] # archived[t]
    BY <1>6 DEF SetArchived, TypeOK
  <2>2. QED
    BY <2>1 DEF GapExplained
<1>7. ASSUME UNCHANGED <<column, order, archived>> PROVE Dense(c)'
  <2>1. Cards(c)' = Cards(c)
    BY <1>7 DEF Cards, Active, Exists
  <2>2. QED
    BY <1>7, <2>1, FrameDense
<1>8. QED
  BY <1>1, <1>2, <1>3, <1>4, <1>5, <1>6, <1>7
     DEF Next, rows, CreateBoard, CreateColumn, DeleteColumnRead, CreateTaskRead,
         MoveTaskRead, Fail

\* Whatever requests overlap, a gap or a tie appears in gapless columns without archived
\* cards only for one of the named reasons.
THEOREM DenseColumnsStayDenseHolds == Spec => DenseColumnsStayDense
BY InitType, NextType, InitNoOrphans, NextNoOrphans, NextDense, PTL
DEF Spec, DenseColumnsStayDense

-----------------------------------------------------------------------------
(***************************************************************************)
(* Drops                                                                   *)
(***************************************************************************)
\* With what the proofs need to know of a drag: the cards above are among those listed,
\* and the card that is dragged is not.
DragInv ==
  /\ TypeOK
  /\ DragTypeOK
  /\ \A r \in Dropped : Dragging(r) =>
       drag[r].above \subseteq drag[r].listed /\ drag[r].listed \subseteq Tasks \ {drag[r].task}

\* How many cards lie above is a number.
LEMMA PlaceType ==
  ASSUME DragInv, NEW r \in Dropped, Dragging(r)
  PROVE  /\ drag[r].task \in Tasks /\ drag[r].to \in Columns
         /\ IsFiniteSet(drag[r].above) /\ Cardinality(drag[r].above) \in Nat
         /\ Place(drag[r]) \in 0 .. Cardinality(Tasks)
<1>1. drag[r] \in Drags \ {NoDrag}
  BY DEF DragInv, DragTypeOK, Dragging
<1>2. drag[r].task \in Tasks /\ drag[r].to \in Columns /\ drag[r].itself \in BOOLEAN
  BY <1>1 DEF Drags
<1>3. drag[r].above \subseteq Tasks \ {drag[r].task}
  BY DEF DragInv
<1>4. /\ IsFiniteSet(Tasks \ {drag[r].task}) /\ Cardinality(Tasks) \in Nat
      /\ Cardinality(Tasks \ {drag[r].task}) = Cardinality(Tasks) - 1
  BY <1>2, DragAssumption, FS_RemoveElement, FS_CardinalityType
<1>5. /\ IsFiniteSet(drag[r].above) /\ Cardinality(drag[r].above) \in Nat
      /\ Cardinality(drag[r].above) <= Cardinality(Tasks) - 1
  BY <1>3, <1>4, FS_Subset, FS_CardinalityType
<1>6. QED
  BY <1>2, <1>4, <1>5 DEF Place

\* A request under way stays what it is until it is over.
LEMMA MoveUnderWay ==
  ASSUME TypeOK, Next, NEW r \in Requests, request[r] # Idle, request'[r] # Idle
  PROVE  request'[r] = request[r]
  BY DEF Next, TypeOK, CreateBoard, DeleteBoard, CreateColumn, DeleteColumnRead, CreateTaskRead,
         CreateTaskWrite, MoveTaskRead, DeleteColumnWrite, MoveTaskWrite, Fail, SetArchived,
         BulkUpdate

LEMMA InitDragInv == DragInit => DragInv
  BY InitType DEF DragInit, DragInv, DragTypeOK, Dragging, Drags

\* Sending a move changes no row.
LEMMA SendType ==
  ASSUME TypeOK, NEW r \in Requests, NEW t \in Tasks, NEW c \in Columns, NEW s \in Int,
         MoveTaskRead(r, t, c, s)
  PROVE  /\ TypeOK'
         /\ request'[r].op = "move" /\ request'[r].task = t /\ request'[r].to = c
         /\ request'[r].place = s
         /\ \A q \in Requests \ {r} : request'[q] = request[q]
<1>1. PICK m : m = [op |-> "move", task |-> t, to |-> c, place |-> s,
                    from |-> column[t], old |-> order[t]]
  OBVIOUS
<1>2. PICK sent : sent = [op |-> "move", task |-> t, to |-> c, place |-> s,
                          from |-> column[t], old |-> order[t], seen |-> Shifted(m)]
  OBVIOUS
<1>3. request' = [request EXCEPT ![r] = sent] /\ UNCHANGED rows
  BY <1>1, <1>2 DEF MoveTaskRead
<1>4. column[t] \in Columns /\ order[t] \in Int
  BY DEF MoveTaskRead, Exists, TypeOK
<1>5. Shifted(m) \subseteq Tasks
  BY DEF Shifted
<1>6. sent \in Request
  BY <1>2, <1>4, <1>5 DEF Request, MoveRequest
<1>7. TypeOK'
  BY <1>3, <1>6 DEF TypeOK, rows
<1>8. QED
  BY <1>2, <1>3, <1>7 DEF TypeOK

LEMMA NextDragInv == DragInv /\ [DragNext]_dragVars => DragInv'
<1> SUFFICES ASSUME DragInv, [DragNext]_dragVars PROVE DragInv'
  OBVIOUS
<1> USE DragAssumption
<1>1. ASSUME NEW r \in Dropped, NEW t \in Tasks, NEW c \in Columns, PickUp(r, t, c)
      PROVE  DragInv'
  <2>1. PICK listed \in SUBSET Others(t, c), itself \in BOOLEAN :
        \E above \in SUBSET listed :
          drag' = [drag EXCEPT ![r] =
            [task |-> t, to |-> c, listed |-> listed, above |-> above, itself |-> itself]]
    BY <1>1 DEF PickUp
  <2>2. PICK above \in SUBSET listed :
          drag' = [drag EXCEPT ![r] =
            [task |-> t, to |-> c, listed |-> listed, above |-> above, itself |-> itself]]
    BY <2>1
  <2>3. PICK d : d = [task |-> t, to |-> c, listed |-> listed, above |-> above,
                      itself |-> itself]
    OBVIOUS
  <2>4. Others(t, c) \subseteq Tasks \ {t}
    BY DEF Others
  <2>5. d \in Drags
    BY <2>3, <2>4 DEF Drags
  <2>6. drag'[r] = d /\ \A q \in Dropped \ {r} : drag'[q] = drag[q]
    BY <2>2, <2>3 DEF DragInv, DragTypeOK
  <2>7. UNCHANGED vars /\ request[r] = Idle
    BY <1>1 DEF PickUp
  <2>8. TypeOK'
    BY <2>7, NextType DEF DragInv
  <2>9. drag' \in [Dropped -> Drags]
    BY <2>2, <2>3, <2>5 DEF DragInv, DragTypeOK
  <2>10. DragTypeOK'
    <3>1. \A q \in Dropped : Dragging(q)' /\ request'[q] # Idle =>
            q # r /\ Dragging(q) /\ drag'[q] = drag[q] /\ request'[q] = request[q]
      BY <2>6, <2>7 DEF Dragging, vars
    <3>2. QED
      BY <2>9, <3>1 DEF DragInv, DragTypeOK
  <2>11. QED
    BY <2>3, <2>4, <2>6, <2>8, <2>10 DEF DragInv, Dragging
<1>2. ASSUME NEW r \in Dropped, Release(r) PROVE DragInv'
  <2>1. Dragging(r) /\ drag' = drag
    BY <1>2 DEF Release, Dragging
  <2>2. drag[r].task \in Tasks /\ drag[r].to \in Columns /\ Place(drag[r]) \in Int
    BY <2>1, PlaceType, FS_CardinalityType
  <2>3. /\ TypeOK'
        /\ request'[r].op = "move" /\ request'[r].task = drag[r].task
        /\ request'[r].to = drag[r].to /\ request'[r].place = Place(drag[r])
        /\ \A q \in Requests \ {r} : request'[q] = request[q]
    BY <1>2, <2>2, SendType DEF Release, DragInv
  <2>4. QED
    BY <2>1, <2>3 DEF DragInv, DragTypeOK, Dragging
<1>3. ASSUME NEW r \in Dropped, Abandon(r) PROVE DragInv'
  <2>1. UNCHANGED vars /\ drag' = [drag EXCEPT ![r] = NoDrag]
    BY <1>3 DEF Abandon
  <2>2. TypeOK'
    BY <2>1, NextType DEF DragInv
  <2>3. \A q \in Dropped : Dragging(q)' =>
          Dragging(q) /\ drag'[q] = drag[q] /\ request'[q] = request[q]
    BY <2>1 DEF DragInv, DragTypeOK, Dragging, vars
  <2>4. drag' \in [Dropped -> Drags]
    BY <2>1 DEF DragInv, DragTypeOK, Drags
  <2>5. QED
    BY <2>2, <2>3, <2>4 DEF DragInv, DragTypeOK
<1>4. CASE Elsewhere
  <2>1. TypeOK'
    BY <1>4, NextType DEF Elsewhere, DragInv
  <2>2. drag' \in [Dropped -> Drags]
    BY <1>4 DEF Elsewhere, DragInv, DragTypeOK, Drags
  <2>3. ASSUME NEW q \in Dropped, Dragging(q)'
        PROVE  /\ Dragging(q) /\ drag'[q] = drag[q]
               /\ request'[q] # Idle => request'[q] = request[q]
    <3>1. Dragging(q) /\ drag'[q] = drag[q] /\ (request[q] = Idle \/ request'[q] # Idle)
      BY <1>4, <2>3 DEF Elsewhere, Dragging
    <3>2. request[q] = Idle => request'[q] = Idle
      BY <1>4 DEF Elsewhere
    <3>3. request[q] # Idle /\ request'[q] # Idle => request'[q] = request[q]
      BY <1>4, MoveUnderWay DEF Elsewhere, DragInv
    <3>4. QED
      BY <3>1, <3>2, <3>3
  <2>4. QED
    BY <2>1, <2>2, <2>3 DEF DragInv, DragTypeOK
<1>5. CASE UNCHANGED dragVars
  BY <1>5, NextType DEF dragVars, DragInv, DragTypeOK, Dragging, vars
<1>6. QED
  BY <1>1, <1>2, <1>3, <1>4, <1>5 DEF DragNext

\* A drag remembers a card and a place, and the request that comes from it asks for them.
THEOREM DragTypeCorrect == DragSpec => []DragTypeOK
<1>1. DragInv => DragTypeOK
  BY DEF DragInv
<1>2. QED
  BY <1>1, InitDragInv, NextDragInv, PTL DEF DragSpec

\* Dragging cards on the page does nothing to the rows that requests to the server
\* could not do, so that the theorems above hold of it too.
THEOREM DragsAreRequests ==
  ASSUME 0 .. Cardinality(Tasks) \subseteq Positions
  PROVE  DragSpec => Spec
<1>1. DragInv /\ [DragNext]_dragVars => [Next]_vars
  <2> SUFFICES ASSUME DragInv, DragNext PROVE Next \/ UNCHANGED vars
    BY DEF dragVars
  <2>1. ASSUME NEW r \in Dropped, Release(r) PROVE Next
    <3>1. drag[r].task \in Tasks /\ drag[r].to \in Columns /\ Place(drag[r]) \in Positions
      BY <2>1, PlaceType DEF Release, Dragging
    <3>2. QED
      BY <2>1, <3>1, DragAssumption DEF Release, Next
  <2>2. QED
    BY <2>1 DEF DragNext, PickUp, Abandon, Elsewhere
<1>2. DragInit => Init
  BY DEF DragInit
<1>3. QED
  BY <1>1, <1>2, InitDragInv, NextDragInv, PTL DEF DragSpec, Spec

-----------------------------------------------------------------------------
\* Of two sets that hold the lowest cards of S, one contains the other, and so they are
\* the same if they have as many.
LEMMA LowestAreUnique ==
  ASSUME NEW S, IsFiniteSet(S), NEW A \in SUBSET S, NEW B \in SUBSET S, NEW f,
         \A x \in S : f[x] \in Int,
         \A x \in A, y \in S \ A : f[x] < f[y],
         \A x \in B, y \in S \ B : f[x] < f[y],
         Cardinality(A) = Cardinality(B)
  PROVE  A = B
<1>1. A \subseteq B \/ B \subseteq A
  <2> SUFFICES ASSUME NEW a \in A \ B, NEW b \in B \ A PROVE FALSE
    OBVIOUS
  <2>1. f[a] < f[b] /\ f[b] < f[a] /\ f[a] \in Int /\ f[b] \in Int
    OBVIOUS
  <2>2. QED
    BY <2>1
<1>2. IsFiniteSet(A) /\ IsFiniteSet(B)
  BY FS_Subset
<1>3. QED
  BY <1>1, <1>2, FS_Subset

\* A move on an up-to-date read puts the card below the ones the drop put it below.
LEMMA DropLands ==
  ASSUME DragInv, NEW r \in Dropped, Dragging(r), ~drag[r].itself, MoveTaskWrite(r),
         Dense(drag[r].to), StillShown(r), ~Stale(r)
  PROVE  LandsBelow(r)
<1> DEFINE m == request[r]
           d == drag[r]
           t == d.task
           c == d.to
           n == Cardinality(Cards(c))
           rest == {x \in Tasks \ {t} : Active(x)' /\ column'[x] = column'[t]}
           below == {x \in rest : order'[x] < order'[t]}
<1>1. TypeOK /\ r \in Requests /\ m \in MoveRequest /\ m.op = "move"
  BY DragAssumption, RequestFields DEF DragInv, MoveTaskWrite
<1>2. /\ t \in Tasks /\ c \in Columns /\ m.from \in Columns
      /\ m.place \in Int /\ m.old \in Int
  BY <1>1, KanbanConstants, PlaceType DEF MoveRequest
<1>3. /\ m.task = t /\ m.to = c /\ m.place = Cardinality(d.above) + 1
      /\ IsFiniteSet(d.above) /\ Cardinality(d.above) \in Nat
      /\ d.above \subseteq d.listed /\ d.listed \subseteq Tasks \ {t}
  <2>1. m # Idle
    BY <1>1 DEF Idle
  <2>2. m.task = t /\ m.to = c /\ m.place = Place(d)
    BY <2>1 DEF DragInv, DragTypeOK
  <2>3. QED
    BY <2>2, PlaceType DEF Place, DragInv
<1>4. /\ Active(t) /\ column[t] = m.from /\ order[t] = m.old /\ Shifted(m) \subseteq m.seen
  BY <1>1, <1>3 DEF Stale, StillShown
<1>5. /\ order'[t] = m.place /\ column'[t] = c
      /\ \A x \in Tasks \ {t} : order'[x] = Renumbered(m, x) /\ column'[x] = column[x]
      /\ archived' = archived
  BY <1>1, <1>3, <1>4, UpToDateMove
<1>6. {order[x] : x \in Cards(c)} = 1 .. n /\ IsFiniteSet(Cards(c)) /\ n \in Nat
  BY CardsFinite DEF Dense, Cards
<1>7. NoTies(c)
  BY DenseNoTies
<1>8. ASSUME NEW x \in rest PROVE order'[x] # order'[t]
  <2>1. Active(x) /\ column[x] = c
    BY <1>5, <1>8 DEF Active, Exists
  <2>2. QED
    BY <1>1, <1>3, <1>4, <1>5, <1>7, <1>8, <2>1, PlaceFree
<1>9. \A x \in Tasks : order[x] \in Int
  BY <1>1 DEF TypeOK
<1>10. Others(t, c) = Cards(c) \ {t} /\ d.listed = Others(t, c)
  BY DEF Others, Cards, StillShown
<1>11. m.place - 1 \in 0 .. n /\ (m.from = c => m.place \in 0 .. n)
  <2>1. IsFiniteSet(Others(t, c)) /\ Cardinality(d.above) <= Cardinality(Others(t, c))
    BY <1>3, <1>6, <1>10, FS_Subset
  <2>2. Cardinality(Others(t, c)) = IF t \in Cards(c) THEN n - 1 ELSE n
    BY <1>6, <1>10, FS_RemoveElement
  <2>3. t \in Cards(c) <=> m.from = c
    BY <1>2, <1>4 DEF Cards
  <2>4. QED
    BY <1>2, <1>3, <1>6, <2>1, <2>2, <2>3
<1>12. Cardinality(below) = m.place - 1 /\ below \subseteq Others(t, c)
       /\ \A x \in below, y \in Others(t, c) \ below : order[x] < order[y]
  <2>1. CASE m.from = c /\ m.old < m.place
    <3> DEFINE upTo == {x \in Cards(c) : order[x] <= m.place}
    <3>1. below = upTo \ {t}
      BY <1>2, <1>3, <1>4, <1>5, <1>7, <1>9, <2>1
      DEF Cards, Renumbered, Active, Exists, NoTies
    <3>2. Cardinality(upTo) = m.place
      BY <1>6, <1>11, <2>1, CountUpTo
    <3>3. t \in upTo
      BY <1>2, <1>4, <2>1 DEF Cards
    <3>4. IsFiniteSet(upTo)
      BY <1>6, FS_Subset
    <3>5. \A x \in below, y \in Others(t, c) \ below : order[x] < order[y]
      BY <1>2, <1>9, <1>10, <3>1 DEF Cards
    <3>6. below \subseteq Others(t, c)
      BY <1>10, <3>1
    <3> HIDE DEF upTo, below
    <3>7. Cardinality(upTo \ {t}) = m.place - 1
      BY <1>2, <3>2, <3>3, <3>4, FS_RemoveElement
    <3>8. QED
      BY <3>1, <3>5, <3>6, <3>7
  <2>2. CASE ~(m.from = c /\ m.old < m.place)
    <3>1. below = {x \in Cards(c) : order[x] <= m.place - 1} /\ t \notin below
      BY <1>2, <1>3, <1>4, <1>5, <1>7, <1>9, <2>2
      DEF Cards, Renumbered, Active, Exists, NoTies
    <3>2. \A x \in below, y \in Others(t, c) \ below : order[x] < order[y]
      BY <1>2, <1>9, <1>10, <3>1 DEF Cards
    <3>3. Cardinality(below) = m.place - 1
      BY <1>6, <1>11, <3>1, CountUpTo
    <3>4. QED
      BY <1>10, <3>1, <3>2, <3>3
  <2>3. QED
    BY <2>1, <2>2
<1>13. d.above = below
  <2> DEFINE S == Others(t, c)
  <2>1. IsFiniteSet(S) /\ \A x \in S : order[x] \in Int
    BY <1>6, <1>9, <1>10, FS_Subset DEF Cards
  <2>2. d.above \subseteq S /\ \A x \in d.above, y \in S \ d.above : order[x] < order[y]
    BY <1>3, <1>10 DEF StillShown
  <2>3. /\ below \subseteq S /\ \A x \in below, y \in S \ below : order[x] < order[y]
        /\ Cardinality(d.above) = Cardinality(below)
    BY <1>3, <1>12
  <2> HIDE DEF S, below, d
  <2>4. QED
    BY <2>1, <2>2, <2>3, LowestAreUnique
<1>14. QED
  BY <1>8, <1>13 DEF LandsBelow

\* What DropLandsWhereReleased says of one step.
DropLandsStep ==
  \A r \in Dropped :
    /\ Dragging(r) /\ ~drag[r].itself /\ MoveTaskWrite(r)
    /\ Dense(drag[r].to) /\ StillShown(r) /\ ~Stale(r)
    => LandsBelow(r)

LEMMA StepDropLands == DragInv /\ [DragNext]_dragVars => [DropLandsStep]_dragVars
  BY DropLands DEF DropLandsStep

\* Whatever is dragged, dropped and requested at the same time, a card lands where it was
\* released if the column is gapless and still what its page shows, and the move did not
\* commit on an outdated read.
THEOREM DropLandsWhereReleasedHolds == DragSpec => DropLandsWhereReleased
  BY InitDragInv, NextDragInv, StepDropLands, PTL
  DEF DragSpec, DropLandsWhereReleased, DropLandsStep
=============================================================================
