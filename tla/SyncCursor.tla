----------------------------- MODULE SyncCursor -----------------------------
(***************************************************************************)
(* The cursor row of one profile (sync_profile_cursors) and the ordered    *)
(* list of accounts the profile is primary for.  Sync tasks claim batches  *)
(* while account imports (OAuth callback, daily resync) insert accounts    *)
(* anywhere in the id order; an account leaves the list only with its      *)
(* profile.  Account ids are integers: only their order matters.           *)
(***************************************************************************)
EXTENDS RoundRobin, FiniteSets

CONSTANTS Account,    \* ids of every account that may be imported
          BatchSize   \* SYNC_BATCH_SIZE as configured

ASSUME AccountAssumption == Account \subseteq Int /\ IsFiniteSet(Account)
ASSUME BatchSizeAssumption == BatchSize \in Int

NoRow == -1           \* no cursor row yet

VARIABLES accounts,   \* tracked accounts the profile is primary for
          cursor,     \* next_offset, or NoRow
          batch,      \* accounts the last task claimed
          deleted     \* the profile is gone, for good

vars == <<accounts, cursor, batch, deleted>>

K == Limit(BatchSize)
Total(S) == Cardinality(S)

\* Position of a in the list ordered by id.
Index(a, S) == Cardinality({b \in S : b < a})

\* COALESCE(next_offset, 0): a missing row reads as 0.
Offset(c) == IF c = NoRow THEN 0 ELSE c

BatchOf(S, c) ==
  {a \in S : Index(a, S) \in Positions(Offset(c), Total(S), K)}

\* The prediction the dashboard shows: tasks before the one that takes a.
Predicted(a, S, c) == BatchesUntil(Index(a, S), Offset(c), Total(S), K)

Init ==
  /\ accounts = {}
  /\ cursor = NoRow
  /\ batch = {}
  /\ deleted = FALSE

\* One committed NextTrackedPrimaryAccountBatchForProfile with a non-empty list.
ClaimBatch ==
  /\ accounts # {}
  /\ batch' = BatchOf(accounts, cursor)
  /\ cursor' = NextOffset(Offset(cursor), Total(accounts), K)
  /\ UNCHANGED <<accounts, deleted>>

\* An import that makes the profile primary for new accounts.
ImportAccounts ==
  /\ ~deleted
  /\ \E S \in (SUBSET (Account \ accounts)) \ {{}} : accounts' = accounts \cup S
  /\ UNCHANGED <<cursor, batch, deleted>>

\* The profile is deleted; links and cursor go with it.
DeleteProfile ==
  /\ ~deleted
  /\ accounts' = {} /\ cursor' = NoRow /\ batch' = {} /\ deleted' = TRUE

Next == ClaimBatch \/ ImportAccounts \/ DeleteProfile

Safety == Init /\ [][Next]_vars

Spec == Safety /\ WF_vars(ClaimBatch)

-----------------------------------------------------------------------------
TypeOK ==
  /\ accounts \subseteq Account
  /\ cursor \in {NoRow} \cup 0 .. Total(Account)
  /\ batch \subseteq accounts
  /\ deleted \in BOOLEAN

\* The stored offset always names a position of the list, so the clamp for a
\* cursor past the end never has to discard progress.
CursorInList == accounts # {} => Offset(cursor) \in 0 .. Total(accounts) - 1

\* The schedule shown to the operator is exact as long as nothing is imported:
\* an account predicted 0 tasks away is in the next batch, any other is not and
\* comes one task closer.
PredictionExact ==
  [][accounts' = accounts =>
       \A a \in accounts :
         IF Predicted(a, accounts, cursor) = 0
           THEN a \in batch'
           ELSE /\ a \notin batch'
                /\ Predicted(a, accounts, cursor')
                     = Predicted(a, accounts, cursor) - 1]_vars

\* Every account of the profile keeps being synced, whatever is imported.
EveryAccountServed == \A a \in Account : []<>(a \notin accounts \/ a \in batch)
=============================================================================
