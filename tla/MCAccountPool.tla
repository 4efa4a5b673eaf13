---------------------------- MODULE MCAccountPool ----------------------------
(* Two concurrent imports over two accounts.                                *)
EXTENDS AccountPool, TLC
PoolSymmetry == Permutations(Profile) \cup Permutations(Account) \cup Permutations(Tx)
=============================================================================
