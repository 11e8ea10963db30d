---------------------------- MODULE MCKanbanDrag ----------------------------
(***************************************************************************)
(* The board with its drag and drop, for TLC.  Three cards, so that one    *)
(* can be dropped before, between and after two others; two columns of one *)
(* board, for drops within a column and into the other; one drag at a      *)
(* time, of a list as old as it likes, and beside it one request at a time *)
(* of anybody else, which creates or deletes or puts a card first or last. *)
(***************************************************************************)
EXTENDS KanbanDrag, TLC

CONSTANTS b1, c1, c2, t1, t2, t3, r1, r2

MCBoardOf == (c1 :> b1) @@ (c2 :> b1)
MCSymmetry == {p @@ q : p \in Permutations(Tasks), q \in Permutations(Columns)}

\* Bound: what follows an archived card is left to MCKanbanTasks.
NoneArchived == \A t \in Tasks : ~archived[t]
=============================================================================
