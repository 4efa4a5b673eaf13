---------------------------- MODULE MCCursorClaim ----------------------------
(* Claims over a pool of up to five accounts in chunks of two.              *)
EXTENDS CursorClaim, TLC
MCAccount == 1 .. 5
TaskSymmetry == Permutations(Task)
=============================================================================
