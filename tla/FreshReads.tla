----------------------------- MODULE FreshReads -----------------------------
(***************************************************************************)
(* What a page of the web client promises the user about data of the       *)
(* server, whatever the cache behind it does: it may show an old state,    *)
(* it never goes back to an older one while it stays on the page, and      *)
(* whatever it loads after a write of the user was acknowledged contains   *)
(* that write.                                                             *)
(***************************************************************************)
EXTENDS Naturals

CONSTANT Nothing  \* the page shows no data

VARIABLES
  committed,  \* the newest state of the data on the server, counted by writes
  floor,      \* the newest write of the user that the page owes him
  shown       \* the state the page shows, or Nothing

vars == <<committed, floor, shown>>

Init == committed = 0 /\ floor = 0 /\ shown = Nothing

\* A request of anyone commits.
Commit == committed' = committed + 1 /\ UNCHANGED <<floor, shown>>

\* The client is told that a write of its user has committed.
Acknowledge ==
  /\ floor' \in floor..committed
  /\ UNCHANGED <<committed, shown>>

Load ==
  /\ shown' \in floor..committed
  /\ shown # Nothing => shown' >= shown
  /\ UNCHANGED <<committed, floor>>

Hide == shown' = Nothing /\ UNCHANGED <<committed, floor>>

Next == Commit \/ Acknowledge \/ Load \/ Hide

Spec == Init /\ [][Next]_vars
=============================================================================
