---------------------------- MODULE MCSyncCursor ----------------------------
(* Five accounts in batches of two: lists of every length, imports before, *)
(* at and after the cursor, and a last batch that is not full.  wait[a]    *)
(* counts the claims since account a was last claimed.                     *)
EXTENDS SyncCursor

VARIABLE wait

MCAccount == 1 .. 5

MCInit == Init /\ wait = [a \in Account |-> 0]

MCNext ==
  \/ /\ ClaimBatch
     /\ wait' = [a \in Account |-> IF a \in accounts \ batch' THEN wait[a] + 1 ELSE 0]
  \/ (ImportAccounts \/ DeleteProfile) /\ UNCHANGED wait

MCSafety == MCInit /\ [][MCNext]_<<vars, wait>>

MCSpec == MCSafety /\ WF_<<vars, wait>>(ClaimBatch /\ MCNext)

\* Tasks in one pass over a list of n accounts.
Pass(n) == (n + K - 1) \div K

\* No account is starved by imports that shift the list under the cursor: an
\* account may be pushed back over the end of one pass and through the next,
\* but it is claimed again within two passes over the final pool.
WaitBounded == \A a \in accounts : wait[a] < 2 * Pass(Total(Account))
=============================================================================
