---------------------------- MODULE MCKanbanTasks ----------------------------
(***************************************************************************)
(* KanbanTasks for TLC: one shared board with two columns, so that every   *)
(* cross-column and same-column case occurs, three cards so that a card    *)
(* can lie between two others, two overlapping requests, and one bulk      *)
(* update that takes all cards.  With position 2 the only one asked for, a *)
(* card moves up (from 3), down (from 1) and into the middle of a column.  *)
(* The columns are interchangeable: both are defaults of the one board.    *)
(***************************************************************************)
EXTENDS KanbanTasks, TLC

CONSTANTS b1, c1, c2, t1, t2, t3, r1, r2

MCBoardOf == (c1 :> b1) @@ (c2 :> b1)
MCBatches == {Tasks}
MCSymmetry ==
  {p @@ q @@ s : p \in Permutations({t1, t2, t3}), q \in Permutations({r1, r2}),
                 s \in Permutations({c1, c2})}
=============================================================================
