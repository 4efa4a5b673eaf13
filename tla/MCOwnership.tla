----------------------------- MODULE MCOwnership -----------------------------
(* Two requests at a time over an account that changes hands.               *)
EXTENDS Ownership, TLC
OwnershipSymmetry == Permutations(Buyer) \cup Permutations(Request)
=============================================================================
