------------------------------ MODULE MCSessions ------------------------------
(***************************************************************************)
(* Sessions for TLC: two tabs, two refreshes in flight and three tokens:   *)
(* two refreshes of one token overlap, one follows the other, or a         *)
(* second login takes place meanwhile.                                     *)
(***************************************************************************)
EXTENDS Sessions, TLC

CONSTANTS tab1, tab2, r1, r2, k1, k2, k3

MCSymmetry ==
  Permutations({tab1, tab2}) \cup Permutations({r1, r2})
    \cup Permutations({k1, k2, k3})
=============================================================================
