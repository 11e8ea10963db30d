------------------------------ MODULE KanbanDrag ------------------------------
(***************************************************************************)
(* Dragging cards on components/kanban/KanbanBoard.tsx, on top of the      *)
(* server's KanbanTasks.  The board lists the cards in use of each column  *)
(* by sort_order, and a drop sends the RANK of the card in that list as    *)
(* its new sort_order.  The list is the page's own: it may be filtered, it *)
(* was read some time before the drop, and nothing holds a drop back while *)
(* an earlier one, or anybody else's request, is still under way.          *)
(***************************************************************************)
EXTENDS KanbanTasks

CONSTANT Dropped   \* the requests that come from a drop

ASSUME DragAssumption == IsFiniteSet(Tasks) /\ Dropped \subseteq Requests

VARIABLE drag   \* the drag that each of these requests is going to come from, or came from

dragVars == <<vars, drag>>

\* listed: the other cards of the target column in the page's list.  above: those of
\* them that the card is released below.  itself: released over itself.
NoDrag == [task |-> None]
Drags ==
  {NoDrag} \cup
  [task : Tasks, to : Columns, listed : SUBSET Tasks, above : SUBSET Tasks, itself : BOOLEAN]

\* Cards in use of column c other than t.
Others(t, c) == {x \in Tasks \ {t} : Active(x) /\ column[x] = c}

\* Mutant of Place: the index as findIndex returns it.
PlaceFromZero(d) == IF d.itself THEN 0 ELSE Cardinality(d.above)

\* The sort_order that goes with a drop: its index in the column, from 1, or 0 when the
\* card is not in the list in which it looks for itself.
Place(d) == IF d.itself THEN 0 ELSE Cardinality(d.above) + 1

DragInit == Init /\ drag = [r \in Dropped |-> NoDrag]

\* onDragStart copies the list that the page has.  The list holds the cards in use that
\* pass the filter (taskParams), as they were when it was read, and the drag does not
\* look at a later one: where the card will be released, in its own column at the rank it
\* has been dragged to or in another one in place of a card, after the last or over
\* itself, is settled with the list.  A drag from a list that the page has had for some
\* time, or a second one from the same list, is one that started when it was read.
PickUp(r, t, c) ==
  /\ drag[r] = NoDrag /\ request[r] = Idle
  /\ Active(t) /\ c \in columns
  /\ \E listed \in SUBSET Others(t, c), itself \in BOOLEAN : \E above \in SUBSET listed :
       /\ \A x \in above, y \in listed \ above : order[x] <= order[y]
       /\ itself => c # column[t] /\ listed = {}
       /\ drag' = [drag EXCEPT ![r] =
            [task |-> t, to |-> c, listed |-> listed, above |-> above, itself |-> itself]]
  /\ UNCHANGED vars

\* onDragEnd sends the rank.
Release(r) ==
  /\ drag[r] # NoDrag
  /\ MoveTaskRead(r, drag[r].task, drag[r].to, Place(drag[r]))
  /\ UNCHANGED drag

\* Released outside every column, or the card or the column is not there any more.
Abandon(r) ==
  /\ drag[r] # NoDrag /\ request[r] = Idle
  /\ drag' = [drag EXCEPT ![r] = NoDrag]
  /\ UNCHANGED vars

Dragging(r) == r \in Dropped /\ drag[r] # NoDrag

\* The server goes on with these and with everybody's requests.
Elsewhere ==
  /\ Next
  /\ \A r \in Dropped : request[r] = Idle => request'[r] = Idle
  /\ drag' = [r \in Dropped |->
       IF request[r] # Idle /\ request'[r] = Idle THEN NoDrag ELSE drag[r]]

DragNext ==
  \/ \E r \in Dropped, t \in Tasks, c \in Columns : PickUp(r, t, c)
  \/ \E r \in Dropped : Release(r) \/ Abandon(r)
  \/ Elsewhere

DragSpec == DragInit /\ [][DragNext]_dragVars

-----------------------------------------------------------------------------
\* A drag remembers a card and where it goes, and the request that comes from it moves
\* that card there.
DragTypeOK ==
  /\ drag \in [Dropped -> Drags]
  /\ \A r \in Dropped : Dragging(r) /\ request[r] # Idle =>
       /\ request[r].op = "move"
       /\ request[r].task = drag[r].task /\ request[r].to = drag[r].to
       /\ request[r].place = Place(drag[r])

\* What the drag of request r was shown of its target column is still the case: the same
\* cards, all of them, and the same ones of them above.
StillShown(r) ==
  LET d == drag[r] IN
  /\ Active(d.task)
  /\ Others(d.task, d.to) = d.listed
  /\ \A x \in d.above, y \in d.listed \ d.above : order[x] < order[y]

\* The card that is dropped comes to lie below the cards that it was released below, and
\* shares its sort_order with none.
LandsBelow(r) ==
  LET t == drag[r].task
      rest == {x \in Tasks \ {t} : Active(x)' /\ column'[x] = column'[t]} IN
  /\ {x \in rest : order'[x] < order'[t]} = drag[r].above
  /\ \A x \in rest : order'[x] # order'[t]

\* The client sends a rank where the server takes a sort_order.  The card lands where it
\* was released, whatever else is under way, if the column is numbered without gaps and
\* still what the page shows, unfiltered, and if the server's move did not overlap
\* another one that changed what it had read.
DropLandsWhereReleased ==
  [][\A r \in Dropped :
       /\ Dragging(r) /\ ~drag[r].itself /\ MoveTaskWrite(r)
       /\ Dense(drag[r].to) /\ StillShown(r) /\ ~Stale(r)
       => LandsBelow(r)]_dragVars
=============================================================================
