----------------------------- MODULE MetaClient -----------------------------
(***************************************************************************)
(* One sync task and its calls to Meta: InsightSnapshots asks for the       *)
(* claimed accounts in Graph batches of ChunkSize, each posted up to        *)
(* Attempts times; HandleSyncProfile stores what came back, handleSyncError *)
(* sorts out what did not, and asynq runs the task again when it returned   *)
(* an error.  An error of Meta is its code and subcode; the account list,   *)
(* the figures and the texts are left out.                                  *)
(***************************************************************************)
EXTENDS Integers

CONSTANTS
  MaxAccounts,   \* bound: accounts a task claims
  ChunkSize,     \* accounts in one Graph batch (50)
  Attempts,      \* posts of one Graph batch (3)
  MaxRetry,      \* asynq.MaxRetry (5)
  GraphError     \* [code, subcode] of the errors Meta may answer with

ASSUME ClientAssumption ==
  /\ MaxAccounts \in Nat \ {0} /\ ChunkSize \in Nat \ {0}
  /\ Attempts \in Nat \ {0} /\ MaxRetry \in Nat
  /\ GraphError \subseteq [code : Nat, subcode : Nat]

VARIABLES
  pc,        \* where the task is: "claim", "post", "alerts", "save", "error", "end"
  total,     \* the accounts claimed are 1 .. total
  start,     \* first account of the Graph batch under way
  attempt,   \* failed posts of that batch
  results,   \* accounts with a snapshot
  failed,    \* accounts with an error of their own
  err,       \* what the call returned
  tries,     \* runs of the task that have failed
  saved,     \* accounts whose snapshot is stored
  status,    \* fb_profiles.status
  alerts,    \* history: alerts of the task, [type, account]
  met,       \* history: errors Meta answered the task with, whole batches or items
  lost       \* history: a run was lost to its timeout or with its worker

call == <<total, start, attempt, results, failed, err>>
vars == <<call, pc, tries, saved, status, alerts, met, lost>>

\* An error that is not Meta's: network, timeout, an answer that does not parse.
Other == [code |-> -1, subcode |-> -1]
NoError == [code |-> 0, subcode |-> 0]

-----------------------------------------------------------------------------
(* Error classes *)

IsTokenError(e) == e.code \in {190, 102}
\* Mutant of IsCheckpoint: by the subcode alone.
IsCheckpointSubcode(e) == e.subcode \in {459, 464, 490}
IsCheckpoint(e) == IsTokenError(e) /\ e.subcode \in {459, 464, 490}
\* Mutant of IsRateLimit: the codes of the user and the app limit only.
IsRateLimitUser(e) == e.code \in {4, 17}
IsRateLimit(e) == e.code \in {4, 17, 32, 613, 80000, 80003, 80004}
IsTransient(e) == e.code \in {1, 2}

\* An item of a batch with such an error ends the whole call.
Fatal(e) == IsTokenError(e) \/ IsRateLimit(e)

-----------------------------------------------------------------------------
(* InsightSnapshots and postBatch *)

Chunk == {a \in 1 .. total : start <= a /\ a < start + ChunkSize}

\* What an item of a batch may bring: figures, an error, or a body that does
\* not parse (Other).
Item == {NoError, Other} \cup GraphError

\* Mutant of Collect: the next batch begins one account early.
CollectOverlapping(item) ==
  /\ results' = results \cup {a \in Chunk : item[a] = NoError}
  /\ failed' = failed \cup {a \in Chunk : item[a] # NoError}
  /\ start' = start + IF ChunkSize > 1 THEN ChunkSize - 1 ELSE 1

\* Every item of the batch goes to one of the two maps.
Collect(item) ==
  /\ results' = results \cup {a \in Chunk : item[a] = NoError}
  /\ failed' = failed \cup {a \in Chunk : item[a] # NoError}
  /\ start' = start + ChunkSize

\* InsightSnapshots returns an error: both maps are dropped.
ReturnError(e) ==
  /\ err' = e /\ results' = {} /\ failed' = {}
  /\ pc' = "error"

\* The items of an answered batch are looked at in order; the first fatal one
\* ends the call.
HandleItems(item) ==
  LET fatal == {a \in Chunk : Fatal(item[a])} IN
    \/ /\ fatal = {}
       /\ Collect(item)
       /\ attempt' = 0
       /\ pc' = IF start' > total THEN "alerts" ELSE "post"
       /\ UNCHANGED <<total, err>>
    \/ \E first \in fatal :
         /\ \A a \in fatal : first <= a
         /\ ReturnError(item[first])
         /\ UNCHANGED <<total, start, attempt>>

PostAnswered ==
  /\ pc = "post"
  /\ \E item \in [Chunk -> Item] :
       /\ HandleItems(item)
       /\ met' = met \cup ({item[a] : a \in Chunk} \ {NoError})
  /\ UNCHANGED <<tries, saved, status, alerts, lost>>

\* Mutant of PostBlips: one post too many.
PostBlipsOnceMore ==
  /\ pc = "post"
  /\ \E e \in GraphError :
       /\ IsTransient(e)
       /\ met' = met \cup {e}
       /\ attempt' = attempt + 1
       /\ IF attempt < Attempts
          THEN UNCHANGED <<pc, results, failed, err>>
          ELSE ReturnError(e)
  /\ UNCHANGED <<total, start, tries, saved, status, alerts, lost>>

\* A transient failure of a whole batch is posted again after a pause.
PostBlips ==
  /\ pc = "post"
  /\ \E e \in GraphError :
       /\ IsTransient(e)
       /\ met' = met \cup {e}
       /\ attempt' = attempt + 1
       /\ IF attempt + 1 < Attempts
          THEN UNCHANGED <<pc, results, failed, err>>
          ELSE ReturnError(e)
  /\ UNCHANGED <<total, start, tries, saved, status, alerts, lost>>

\* Any other failure of a post ends the call.
PostFails ==
  /\ pc = "post"
  /\ \E e \in {f \in GraphError : ~IsTransient(f)} \cup {Other} :
       ReturnError(e) /\ met' = met \cup {e}
  /\ UNCHANGED <<total, start, attempt, tries, saved, status, alerts, lost>>

-----------------------------------------------------------------------------
(* HandleSyncProfile and handleSyncError *)

NewCall(n) ==
  /\ total' = n /\ start' = 1 /\ attempt' = 0
  /\ results' = {} /\ failed' = {} /\ err' = NoError

Init ==
  /\ pc = "claim" /\ tries = 0 /\ saved = {} /\ status = "active"
  /\ alerts = {} /\ met = {} /\ lost = FALSE
  /\ total = 0 /\ start = 1 /\ attempt = 0
  /\ results = {} /\ failed = {} /\ err = NoError

\* Profile and batch are read again by every run of the task; a profile that
\* is gone, or has no accounts, ends it.
ClaimBatch ==
  /\ pc = "claim"
  /\ \E n \in 0 .. MaxAccounts :
       NewCall(n) /\ pc' = IF n = 0 THEN "end" ELSE "post"
  /\ saved' = {}
  /\ UNCHANGED <<tries, status, alerts, met, lost>>

\* Mutant of Retry: the runs are not counted.
RetryForever == pc' = "claim" /\ UNCHANGED tries

\* asynq runs a task that returned an error again, MaxRetry times.
Retry ==
  IF tries < MaxRetry THEN pc' = "claim" /\ tries' = tries + 1
                      ELSE pc' = "end" /\ UNCHANGED tries

\* The profile cannot be read, no batch claimed or the token not decrypted: the
\* run fails before Meta is asked.
ClaimFails ==
  /\ pc = "claim"
  /\ Retry
  /\ UNCHANGED <<call, saved, status, alerts, met, lost>>

\* The task's timeout or the loss of the worker ends a run wherever it is; asynq
\* runs the task again whatever the handler would have returned.
RunLost ==
  /\ pc \in {"post", "alerts", "save", "error"}
  /\ lost' = TRUE
  /\ Retry
  /\ UNCHANGED <<call, saved, status, alerts, met>>

\* CreateAlert for every failed account; one that cannot be written is logged.
CreateAlerts ==
  /\ pc = "alerts"
  /\ \E written \in SUBSET failed :
       alerts' = alerts \cup {[type |-> "ACCOUNT_SYNC_FAILED", account |-> a] : a \in written}
  /\ pc' = "save"
  /\ UNCHANGED <<call, tries, saved, status, met, lost>>

SaveSnapshot(a) ==
  /\ pc = "save" /\ a \in results \ saved
  /\ saved' = saved \cup {a}
  /\ UNCHANGED <<call, pc, tries, status, alerts, met, lost>>

SaveFails ==
  /\ pc = "save" /\ saved # results
  /\ Retry
  /\ UNCHANGED <<call, saved, status, alerts, met, lost>>

Finish ==
  /\ pc = "save" /\ saved = results
  /\ pc' = "end"
  /\ UNCHANGED <<call, tries, saved, status, alerts, met, lost>>

CreateAlert(type) == alerts' \in {alerts, alerts \cup {[type |-> type, account |-> 0]}}

\* Throttling and blips: nothing but the retry.
HandleThrottled ==
  /\ pc = "error" /\ (IsRateLimit(err) \/ IsTransient(err))
  /\ Retry
  /\ UNCHANGED <<call, saved, status, alerts, met, lost>>

\* Mutant of HandleRefused: the error goes back to asynq without SkipRetry.
HandleRefusedRetries ==
  /\ pc = "error" /\ (IsCheckpoint(err) \/ IsTokenError(err))
  /\ status' \in {status, IF IsCheckpoint(err) THEN "checkpoint" ELSE "expired"}
  /\ CreateAlert(IF IsCheckpoint(err) THEN "PROFILE_CHECKPOINT" ELSE "TOKEN_INVALID_OR_EXPIRED")
  /\ Retry
  /\ UNCHANGED <<call, saved, met, lost>>

\* The token is dead: the status is set, an operator alerted (either may fail
\* and is only logged) and the task archived with SkipRetry.
HandleRefused ==
  /\ pc = "error" /\ (IsCheckpoint(err) \/ IsTokenError(err))
  /\ status' \in {status, IF IsCheckpoint(err) THEN "checkpoint" ELSE "expired"}
  /\ CreateAlert(IF IsCheckpoint(err) THEN "PROFILE_CHECKPOINT" ELSE "TOKEN_INVALID_OR_EXPIRED")
  /\ pc' = "end"
  /\ UNCHANGED <<call, tries, saved, met, lost>>

\* Anything else is announced on every run and retried.
HandleUnknown ==
  /\ pc = "error"
  /\ ~IsRateLimit(err) /\ ~IsTransient(err) /\ ~IsCheckpoint(err) /\ ~IsTokenError(err)
  /\ CreateAlert("UNKNOWN_ERROR")
  /\ Retry
  /\ UNCHANGED <<call, saved, status, met, lost>>

\* The next task of the profile; an operator may have reconnected it.
NextTask ==
  /\ pc = "end"
  /\ pc' = "claim" /\ tries' = 0 /\ saved' = {}
  /\ status' \in {status, "active"}
  /\ alerts' = {} /\ met' = {} /\ lost' = FALSE
  /\ NewCall(0)

TaskStep ==
  \/ ClaimBatch \/ ClaimFails \/ RunLost
  \/ PostAnswered \/ PostBlips \/ PostFails
  \/ CreateAlerts \/ SaveFails \/ Finish
  \/ \E a \in 1 .. MaxAccounts : SaveSnapshot(a)
  \/ HandleThrottled \/ HandleRefused \/ HandleUnknown

Next == TaskStep \/ NextTask

Safety == Init /\ [][Next]_vars
\* asynq keeps running a task it has; nothing obliges it to get another one.
Spec == Safety /\ WF_vars(TaskStep)

-----------------------------------------------------------------------------
(* Properties *)

TypeOK ==
  /\ pc \in {"claim", "post", "alerts", "save", "error", "end"}
  /\ total \in 0 .. MaxAccounts /\ start \in Nat \ {0} /\ attempt \in 0 .. Attempts
  /\ results \subseteq 1 .. total /\ failed \subseteq 1 .. total
  /\ err \in {NoError, Other} \cup GraphError
  /\ tries \in 0 .. MaxRetry
  /\ saved \subseteq 1 .. total
  /\ status \in {"active", "checkpoint", "expired"}
  /\ alerts \subseteq [type : {"ACCOUNT_SYNC_FAILED", "PROFILE_CHECKPOINT",
                               "TOKEN_INVALID_OR_EXPIRED", "UNKNOWN_ERROR"},
                      account : 0 .. MaxAccounts]
  /\ met \subseteq {Other} \cup GraphError
  /\ lost \in BOOLEAN

\* However many Graph batches it takes and wherever one of them fails, the task
\* sees one answer: an outcome for each of its accounts, in one of the two maps
\* and not in both, or an error and no outcome at all (client.go 217-220).
asked == IF pc \in {"claim", "end"} THEN {} ELSE 1 .. total
answer ==
  LET kind == CASE pc = "post" -> "pending"
                [] pc \in {"alerts", "save"} -> "outcome"
                [] pc = "error" -> "error"
                [] OTHER -> "none"
  IN  [kind |-> kind,
       results |-> IF kind = "outcome" THEN results ELSE {},
       failed  |-> IF kind = "outcome" THEN failed ELSE {}]
Call == INSTANCE MetaCall WITH batch <- asked, answer <- answer
RefinesCall == Call!Spec

\* Once Meta has refused the token, in a whole batch or in any item of one, the
\* task posts nothing more, whatever else fails while the refusal is handled
\* (tasks.go 181-183: retrying would only hammer Meta).  Two things void this: an
\* item that was throttled may hide the refusal behind it, and a run that is lost
\* is repeated.
RefusedTaskStops ==
  pc \in {"claim", "post"} /\ ~lost /\ (\E e \in met : IsTokenError(e))
    => \E e \in met : IsRateLimit(e)

\* A task that Meta only throttled, in its batches or in their items, alerts
\* nobody, on all of its runs (tasks.go 140-144).
QuietWhenThrottled ==
  (\A e \in met : e.code \in {4, 17, 32, 613, 80000, 80003, 80004}) => alerts = {}

\* The status a task leaves on its profile is what Meta said of the token: a
\* checkpoint for a refusal with a checkpoint's subcode, expired for any other
\* refusal, and no change for an error that is not about the token.
StatusFromRefusal ==
  [][status' # status /\ pc # "end" =>
       \E e \in met : /\ IsTokenError(e)
                      /\ status' = IF e.subcode \in {459, 464, 490}
                                   THEN "checkpoint" ELSE "expired"]_vars

\* Whatever Meta answers, a task is over some time: posts and runs are counted.
TaskEnds == pc = "claim" ~> pc = "end"

(* The inductive invariant of the proofs *)

\* The two maps hold the accounts of the batches answered so far, and the batch
\* under way has a post left.
Settled ==
  /\ pc \notin {"claim", "end"} => total >= 1
  /\ pc = "post" => attempt < Attempts
  /\ pc = "post" => results \cup failed = {a \in 1 .. total : a < start}
  /\ pc \in {"alerts", "save"} => results \cup failed = 1 .. total
  /\ pc \in {"post", "alerts", "save"} => results \cap failed = {}

\* A refusal that is not hidden is what the call has just returned.
Voided == lost \/ \E e \in met : IsRateLimit(e)
Refused == \E e \in met : IsTokenError(e)

Refusals ==
  /\ Refused => Voided \/ pc \in {"error", "end"}
  /\ pc = "error" => err \in met /\ (Refused => Voided \/ IsTokenError(err))

Inv == TypeOK /\ Settled /\ Refusals

\* client.go 83-85: a code 1 or 2 "should be retried without alerting"; so a task
\* that met nothing else raises no alert.
TransientNeverAlerts == (\A e \in met : IsTransient(e)) => alerts = {}

\* tasks.go 181-183: "Token is dead: retrying won't help until an operator
\* reconnects the profile, so stop asynq from hammering Meta."
DeadTokenNotRetried == pc \in {"claim", "post"} => ~Refused
=============================================================================
