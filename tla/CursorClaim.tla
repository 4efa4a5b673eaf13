---------------------------- MODULE CursorClaim ----------------------------
(***************************************************************************)
(* The claim of a chunk statement by statement.  A sync task reads the      *)
(* profile's account list first and locks the cursor row afterwards, so the *)
(* list it advances the cursor over may be out of date: an import, another  *)
(* task of the same profile or a deletion may commit in between.            *)
(*                                                                         *)
(* The list, the cursor, the last batch and what becomes of the profile are *)
(* those of SyncCursor, whose ClaimBatch is what a claim promises.          *)
(***************************************************************************)
EXTENDS SyncCursor

CONSTANTS Task,       \* sync tasks of the profile that may run at once
          NoTask

ASSUME ClaimAssumption == NoTask \notin Task

VARIABLES rowLock,     \* the task whose transaction holds the cursor row
          pc, list, offset,   \* locals of each transaction
          lastList     \* history: the list of the last claim

taskVars == <<pc, list, offset>>
claimVars == <<vars, rowLock, taskVars, lastList>>

ClaimInit ==
  /\ Init
  /\ rowLock = NoTask
  /\ pc = [t \in Task |-> "idle"]
  /\ list = [t \in Task |-> {}]
  /\ offset = [t \in Task |-> 0]
  /\ lastList = {}

\* SELECT ... ORDER BY a.id; an empty list ends the transaction.
ReadList(t) ==
  /\ pc[t] = "idle" /\ accounts # {}
  /\ list' = [list EXCEPT ![t] = accounts]
  /\ pc' = [pc EXCEPT ![t] = "insert"]
  /\ UNCHANGED <<vars, rowLock, offset, lastList>>

\* INSERT ... ON CONFLICT DO NOTHING: a new row belongs to the transaction until
\* it commits and makes other inserts wait, a committed row is left alone.
InsertRow(t) ==
  /\ pc[t] = "insert" /\ ~deleted
  /\ \/ cursor # NoRow /\ UNCHANGED rowLock
     \/ cursor = NoRow /\ rowLock = NoTask /\ rowLock' = t
  /\ pc' = [pc EXCEPT ![t] = "lock"]
  /\ UNCHANGED <<vars, list, offset, lastList>>

\* Mutant of LockRow: the SELECT without FOR UPDATE.
ReadRow(t) ==
  /\ pc[t] = "lock" /\ ~deleted
  /\ offset' = [offset EXCEPT ![t] = Offset(cursor)]
  /\ pc' = [pc EXCEPT ![t] = "update"]
  /\ UNCHANGED <<vars, rowLock, list, lastList>>

\* SELECT next_offset ... FOR UPDATE: waits for the row.
LockRow(t) ==
  /\ pc[t] = "lock" /\ ~deleted
  /\ rowLock \in {t, NoTask}
  /\ rowLock' = t
  /\ offset' = [offset EXCEPT ![t] = Offset(cursor)]
  /\ pc' = [pc EXCEPT ![t] = "update"]
  /\ UNCHANGED <<vars, list, lastList>>

\* UPDATE sync_profile_cursors and COMMIT; the batch goes to the task, whose next
\* claim reads the list again.
Advance(t) ==
  /\ pc[t] = "update"
  /\ cursor' = NextOffset(offset[t], Total(list[t]), K)
  /\ batch' = BatchOf(list[t], offset[t])
  /\ lastList' = list[t]
  /\ rowLock' = IF rowLock = t THEN NoTask ELSE rowLock
  /\ pc' = [pc EXCEPT ![t] = "idle"]
  /\ list' = [list EXCEPT ![t] = {}]
  /\ offset' = [offset EXCEPT ![t] = 0]
  /\ UNCHANGED <<accounts, deleted>>

\* Any statement may fail, with the connection or with the foreign key or the
\* missing row of a deleted profile; the transaction rolls back.
Rollback(t) ==
  /\ pc[t] \in {"insert", "lock", "update"}
  /\ rowLock' = IF rowLock = t THEN NoTask ELSE rowLock
  /\ pc' = [pc EXCEPT ![t] = "idle"]
  /\ list' = [list EXCEPT ![t] = {}]
  /\ offset' = [offset EXCEPT ![t] = 0]
  /\ UNCHANGED <<vars, lastList>>

ImportMeanwhile == ImportAccounts /\ UNCHANGED <<rowLock, taskVars, lastList>>

\* Mutant of DeleteMeanwhile: nothing makes the delete wait for an open claim.
DeleteAtOnce ==
  DeleteProfile /\ lastList' = {} /\ UNCHANGED <<rowLock, taskVars>>

\* DELETE FROM fb_profiles; its cascade waits for the holder of the cursor row.
DeleteMeanwhile ==
  /\ rowLock = NoTask
  /\ DeleteProfile /\ lastList' = {} /\ UNCHANGED <<rowLock, taskVars>>

ClaimNext ==
  \/ ImportMeanwhile \/ DeleteMeanwhile
  \/ \E t \in Task : \/ ReadList(t) \/ InsertRow(t) \/ LockRow(t) \/ Advance(t)
                     \/ Rollback(t)

ClaimSpec == ClaimInit /\ [][ClaimNext]_claimVars

-----------------------------------------------------------------------------
ClaimTypeOK ==
  /\ accounts \subseteq Account
  /\ cursor \in {NoRow} \cup 0 .. Total(Account)
  /\ deleted \in BOOLEAN
  /\ rowLock \in Task \cup {NoTask}
  /\ pc \in [Task -> {"idle", "insert", "lock", "update"}]
  /\ list \in [Task -> SUBSET Account]
  /\ offset \in [Task -> 0 .. Total(Account)]
  /\ batch \subseteq Account /\ lastList \subseteq Account

\* However stale the lists, the committed offset names a position of the list
\* the next task will read.
CommittedInList == cursor # NoRow => cursor \in 0 .. Total(accounts) - 1

\* Two tasks that work from the same list never claim the same chunk one after
\* the other, unless the list is a single chunk.
ChunksDiffer ==
  [][\A t \in Task :
       Advance(t) /\ batch # {} /\ list[t] = lastList /\ Total(list[t]) > K =>
         batch' \cap batch = {}]_claimVars

\* A deleted profile gets no cursor row back from a claim that began before.
NoCursorAfterDelete == deleted => cursor = NoRow
=============================================================================
