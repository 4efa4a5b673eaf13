--------------------------- MODULE MCAnalytics ---------------------------
(* Finite instances of Analytics: days of three instants, shifted by one. *)
EXTENDS Analytics, TLC
Symmetry == Permutations(Workers) \cup Permutations(Buyers)
=============================================================================
