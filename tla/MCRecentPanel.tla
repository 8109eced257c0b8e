--------------------------- MODULE MCRecentPanel ---------------------------
(***************************************************************************)
(* Small instances of RecentPanel.                                         *)
(***************************************************************************)
EXTENDS RecentPanel, TLC

Symmetry == Permutations(Slots) \cup Permutations(Ids)
=============================================================================
