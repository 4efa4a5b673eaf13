----------------------------- MODULE RoundRobin -----------------------------
(***************************************************************************)
(* The arithmetic of the persistent round-robin cursor: which positions of *)
(* a profile's ordered account list one sync task takes, where the cursor  *)
(* goes next, and how many tasks away a position is.                       *)
(*                                                                         *)
(* o is the stored next_offset, n the number of accounts in the list, k    *)
(* the batch size and i a position, counted from 0 as in the code.         *)
(***************************************************************************)
EXTENDS Integers

\* limit < 1 is raised to 1 in the store, the processor and the predictor.
Limit(k) == IF k < 1 THEN 1 ELSE k

\* A cursor past the end of the list starts over.
StartOf(o, n) == IF o >= n THEN 0 ELSE o

\* One past the last position taken.
EndOf(o, n, k) == IF StartOf(o, n) + k > n THEN n ELSE StartOf(o, n) + k

Positions(o, n, k) == StartOf(o, n) .. EndOf(o, n, k) - 1

\* Mutants of NextOffset: no clamp to the list, no wrap at its end, a position
\* skipped between two batches, progress forgotten.
NextOffsetUnclamped(o, n, k) == StartOf(o, n) + k
NextOffsetNoWrap(o, n, k) == EndOf(o, n, k)
NextOffsetSkips(o, n, k) == IF EndOf(o, n, k) + 1 >= n THEN 0 ELSE EndOf(o, n, k) + 1
NextOffsetForgets(o, n, k) == 0

NextOffset(o, n, k) == IF EndOf(o, n, k) >= n THEN 0 ELSE EndOf(o, n, k)

\* Mutant of BatchesUntil: the last, partly filled batch of a pass not counted.
BatchesUntilFloor(i, o, n, k) ==
  LET s == StartOf(o, n)
  IN  IF i >= s THEN (i - s) \div k ELSE (n - s) \div k + i \div k

\* Tasks that run before the one that takes position i.
BatchesUntil(i, o, n, k) ==
  LET s == StartOf(o, n)
  IN  IF i >= s THEN (i - s) \div k
                ELSE (n - s + k - 1) \div k + i \div k
=============================================================================
