-------------------------- MODULE MetaClientProofs --------------------------
(***************************************************************************)
(* Theorems about MetaClient for any number of accounts, any batch size and *)
(* any set of errors: the invariant Inv, the properties it implies, and the *)
(* refinement of MetaCall.                                                  *)
(***************************************************************************)
EXTENDS MetaClient, TLAPS

LEMMA InitInv == Init => Inv
<1>1. Init => TypeOK /\ Settled
  <2>1. Init => lost \in BOOLEAN
    BY Zenon DEF Init
  <2> QED  BY <2>1, ClientAssumption DEF Init, TypeOK, Settled, NoError, Other
<1>2. Init => Refusals
  BY DEF Init, Refusals, Refused
<1> QED  BY <1>1, <1>2 DEF Inv

LEMMA ClaimBatchInv == ASSUME Inv, ClaimBatch PROVE Inv'
BY ClientAssumption
   DEF Inv, TypeOK, Settled, Refusals, Refused, Voided, ClaimBatch, NewCall, NoError, Other

\* What a batch without a fatal item leaves.
LEMMA CollectInv ==
  ASSUME Inv, pc = "post", NEW item \in [Chunk -> Item],
         {a \in Chunk : Fatal(item[a])} = {},
         Collect(item), attempt' = 0,
         pc' = IF start' > total THEN "alerts" ELSE "post",
         met' = met \cup ({item[a] : a \in Chunk} \ {NoError}),
         UNCHANGED <<total, err, tries, saved, status, alerts, lost>>
  PROVE  Inv'
<1>1. /\ Chunk = {a \in 1 .. total : start <= a /\ a < start + ChunkSize}
      /\ Chunk \subseteq 1 .. total
  BY DEF Chunk
<1>2. {item[a] : a \in Chunk} \ {NoError} \subseteq {Other} \cup GraphError
  BY DEF Item
<1>3. \A a \in Chunk : ~IsTokenError(item[a])
  BY DEF Fatal
<1>4. /\ results' \subseteq 1 .. total /\ failed' \subseteq 1 .. total
      /\ results' \cup failed' = (results \cup failed) \cup Chunk
      /\ start' = start + ChunkSize
  BY <1>1 DEF Collect, Inv, TypeOK
<1>5. TypeOK'
  BY <1>2, <1>4, ClientAssumption DEF Inv, TypeOK
<1>6. Settled'
  <2>1. results \cup failed = {a \in 1 .. total : a < start} /\ results \cap failed = {}
    BY DEF Inv, Settled
  <2>2. results' \cap failed' = {}
    <3>1. \A a \in Chunk : a \notin results /\ a \notin failed
      BY <2>1, <1>1 DEF Inv, TypeOK
    <3> QED  BY <2>1, <3>1 DEF Collect
  <2>3. results' \cup failed' = {a \in 1 .. total : a < start'}
    <3>1. start \in Nat /\ ChunkSize \in Nat /\ total \in Nat
      BY ClientAssumption DEF Inv, TypeOK
    <3>2. \A a \in 1 .. total : a < start' <=> a < start \/ a \in Chunk
      BY <3>1, <1>1, <1>4
    <3> QED  BY <2>1, <1>1, <1>4, <3>2
  <2>4. start' > total => results' \cup failed' = 1 .. total
    BY <2>3, <1>4, ClientAssumption DEF Inv, TypeOK
  <2> QED  BY <2>2, <2>3, <2>4, ClientAssumption DEF Inv, Settled
<1>7. Refusals'
  <2>1. Refused' => Refused
    BY <1>3 DEF Refused
  <2>2. Voided => Voided'
    BY DEF Voided
  <2>3. pc' # "error" /\ (Refused => Voided)
    BY DEF Inv, Refusals
  <2> QED  BY <2>1, <2>2, <2>3 DEF Refusals
<1> QED  BY <1>5, <1>6, <1>7 DEF Inv

\* What an error that ends the call leaves.
LEMMA ReturnErrorInv ==
  ASSUME Inv, pc = "post", NEW e \in {Other} \cup GraphError,
         NEW M \in SUBSET ({Other} \cup GraphError), e \in M,
         \/ M = {e}
         \/ IsTokenError(e)
         \/ IsRateLimit(e),
         ReturnError(e), met' = met \cup M, attempt' \in 0 .. Attempts,
         UNCHANGED <<total, start, tries, saved, status, alerts, lost>>
  PROVE  Inv'
<1>1. TypeOK' /\ Settled'
  BY DEF Inv, TypeOK, Settled, ReturnError
<1>2. Refused' => Voided' \/ IsTokenError(e)
  BY DEF Inv, Refusals, Refused, Voided
<1>3. pc' = "error" /\ err' = e /\ e \in met'
  BY DEF ReturnError
<1> QED  BY <1>1, <1>2, <1>3 DEF Inv, Refusals

LEMMA PostAnsweredInv == ASSUME Inv, PostAnswered PROVE Inv'
<1>1. PICK item \in [Chunk -> Item] :
             /\ HandleItems(item)
             /\ met' = met \cup ({item[a] : a \in Chunk} \ {NoError})
  BY DEF PostAnswered
<1>2. CASE \E first \in {a \in Chunk : Fatal(item[a])} :
             ReturnError(item[first]) /\ UNCHANGED <<total, start, attempt>>
  <2>1. PICK first \in {a \in Chunk : Fatal(item[a])} :
               ReturnError(item[first]) /\ UNCHANGED <<total, start, attempt>>
    BY <1>2
  <2> DEFINE M == {item[a] : a \in Chunk} \ {NoError}
  <2>2. item[first] \in {Other} \cup GraphError /\ item[first] # NoError
    BY <2>1 DEF Item, Fatal, IsTokenError, IsRateLimit, NoError
  <2>3. M \in SUBSET ({Other} \cup GraphError) /\ item[first] \in M
    BY <2>1, <2>2 DEF Item
  <2>4. IsTokenError(item[first]) \/ IsRateLimit(item[first])
    BY <2>1 DEF Fatal
  <2>5. attempt' \in 0 .. Attempts
    BY <2>1 DEF Inv, TypeOK
  <2>6. met' = met \cup M /\ pc = "post"
    BY <1>1 DEF PostAnswered
  <2> HIDE DEF M
  <2> QED  BY <2>1, <2>2, <2>3, <2>4, <2>5, <2>6, ReturnErrorInv DEF PostAnswered
<1>3. CASE /\ {a \in Chunk : Fatal(item[a])} = {}
           /\ Collect(item) /\ attempt' = 0
           /\ pc' = IF start' > total THEN "alerts" ELSE "post"
           /\ UNCHANGED <<total, err>>
  BY <1>1, <1>3, CollectInv DEF PostAnswered
<1> QED  BY <1>1, <1>2, <1>3 DEF HandleItems

LEMMA PostBlipsInv == ASSUME Inv, PostBlips PROVE Inv'
<1>1. PICK e \in GraphError :
             /\ IsTransient(e) /\ met' = met \cup {e} /\ attempt' = attempt + 1
             /\ IF attempt + 1 < Attempts
                THEN UNCHANGED <<pc, results, failed, err>>
                ELSE ReturnError(e)
  BY DEF PostBlips
<1>2. ~IsTokenError(e)
  BY <1>1 DEF IsTransient, IsTokenError
<1>3. attempt' \in 0 .. Attempts
  BY <1>1, ClientAssumption DEF PostBlips, Inv, TypeOK, Settled
<1>4. CASE attempt + 1 < Attempts /\ UNCHANGED <<pc, results, failed, err>>
  BY <1>1, <1>2, <1>3, <1>4 DEF PostBlips, Inv, TypeOK, Settled, Refusals, Refused, Voided
<1>5. CASE ReturnError(e)
  BY <1>1, <1>3, <1>5, ReturnErrorInv DEF PostBlips, Inv, TypeOK
<1> QED  BY <1>1, <1>4, <1>5

LEMMA PostFailsInv == ASSUME Inv, PostFails PROVE Inv'
<1>1. PICK e \in {f \in GraphError : ~IsTransient(f)} \cup {Other} :
             ReturnError(e) /\ met' = met \cup {e}
  BY DEF PostFails
<1> QED  BY <1>1, ReturnErrorInv DEF PostFails, Inv, TypeOK

\* The handler after the call: alerts, snapshots, and the error branches.
LEMMA HandlerInv ==
  ASSUME Inv,
         \/ CreateAlerts \/ SaveFails \/ Finish
         \/ \E a \in 1 .. MaxAccounts : SaveSnapshot(a)
         \/ HandleThrottled \/ HandleRefused \/ HandleUnknown
         \/ ClaimFails \/ RunLost
  PROVE  Inv'
<1>0. CASE ClaimFails \/ RunLost
  <2>1. pc' \in {"claim", "end"} /\ tries' \in 0 .. MaxRetry
    BY <1>0, ClientAssumption DEF ClaimFails, RunLost, Retry, Inv, TypeOK
  <2>2. UNCHANGED <<call, saved, status, alerts, met>>
    BY <1>0 DEF ClaimFails, RunLost
  <2>3. lost' \in BOOLEAN
    BY <1>0, Zenon DEF ClaimFails, RunLost, Inv, TypeOK
  <2>4. TypeOK' /\ Settled'
    BY <2>1, <2>2, <2>3 DEF call, Inv, TypeOK, Settled
  <2>5. Refusals'
    <3>1. CASE ClaimFails
      <4>1. Refused' => Voided'
        BY <2>2, <3>1 DEF ClaimFails, Inv, Refusals, Refused, Voided
      <4> QED  BY <2>1, <4>1 DEF Refusals
    <3>2. CASE RunLost
      <4>1. Voided'
        BY <3>2 DEF RunLost, Voided
      <4> QED  BY <2>1, <4>1 DEF Refusals
    <3> QED  BY <1>0, <3>1, <3>2
  <2> QED  BY <2>4, <2>5 DEF Inv
<1>1. CASE CreateAlerts
  <2>1. PICK written \in SUBSET failed :
          alerts' = alerts \cup
            {[type |-> "ACCOUNT_SYNC_FAILED", account |-> a] : a \in written}
    BY <1>1 DEF CreateAlerts
  <2>2. \A a \in written : a \in 0 .. MaxAccounts
    BY <2>1, ClientAssumption DEF Inv, TypeOK
  <2>3. alerts' \subseteq [type : {"ACCOUNT_SYNC_FAILED", "PROFILE_CHECKPOINT",
                                   "TOKEN_INVALID_OR_EXPIRED", "UNKNOWN_ERROR"},
                           account : 0 .. MaxAccounts]
    BY <2>1, <2>2 DEF Inv, TypeOK
  <2> QED  BY <1>1, <2>3 DEF CreateAlerts, call, Inv, TypeOK, Settled, Refusals, Refused, Voided
<1>2. CASE \E a \in 1 .. MaxAccounts : SaveSnapshot(a)
  BY <1>2 DEF SaveSnapshot, call, Inv, TypeOK, Settled, Refusals, Refused, Voided
<1>3. CASE Finish
  BY <1>3 DEF Finish, call, Inv, TypeOK, Settled, Refusals, Refused, Voided
<1>4. CASE SaveFails
  BY <1>4, ClientAssumption DEF SaveFails, Retry, call, Inv, TypeOK, Settled, Refusals, Refused, Voided
<1>5. CASE HandleThrottled
  <2>1. Refused => Voided
    BY <1>5 DEF HandleThrottled, IsRateLimit, IsTransient, IsTokenError, Inv, Refusals, Voided
  <2> QED  BY <1>5, <2>1, ClientAssumption
           DEF HandleThrottled, Retry, call, Inv, TypeOK, Settled, Refusals, Refused, Voided
<1>6. CASE HandleRefused
  <2>1. alerts' \subseteq [type : {"ACCOUNT_SYNC_FAILED", "PROFILE_CHECKPOINT",
                                   "TOKEN_INVALID_OR_EXPIRED", "UNKNOWN_ERROR"},
                           account : 0 .. MaxAccounts]
    BY <1>6, ClientAssumption DEF HandleRefused, CreateAlert, Inv, TypeOK
  <2> QED  BY <1>6, <2>1 DEF HandleRefused, call, Inv, TypeOK, Settled, Refusals, Refused, Voided
<1>7. CASE HandleUnknown
  <2>1. alerts' \subseteq [type : {"ACCOUNT_SYNC_FAILED", "PROFILE_CHECKPOINT",
                                   "TOKEN_INVALID_OR_EXPIRED", "UNKNOWN_ERROR"},
                           account : 0 .. MaxAccounts]
    BY <1>7, ClientAssumption DEF HandleUnknown, CreateAlert, Inv, TypeOK
  <2> QED  BY <1>7, <2>1, ClientAssumption
           DEF HandleUnknown, Retry, call, Inv, TypeOK, Settled, Refusals, Refused, Voided
<1> QED  BY <1>0, <1>1, <1>2, <1>3, <1>4, <1>5, <1>6, <1>7

LEMMA NextTaskInv == ASSUME Inv, NextTask PROVE Inv'
<1>1. TypeOK' /\ Settled'
  <2>1. lost' \in BOOLEAN
    BY Zenon DEF NextTask
  <2> QED  BY <2>1, ClientAssumption DEF NextTask, NewCall, Inv, TypeOK, Settled, NoError, Other
<1>2. Refusals'
  BY DEF NextTask, Refusals, Refused
<1> QED  BY <1>1, <1>2 DEF Inv

LEMMA Invariance == Safety => []Inv
<1>1. Inv /\ [Next]_vars => Inv'
  <2> SUFFICES ASSUME Inv, [Next]_vars PROVE Inv'
    OBVIOUS
  <2>1. CASE UNCHANGED vars
    BY <2>1 DEF vars, call, Inv, TypeOK, Settled, Refusals, Refused, Voided
  <2>2. CASE Next
    BY <2>2, ClaimBatchInv, PostAnsweredInv, PostBlipsInv, PostFailsInv, HandlerInv,
       NextTaskInv DEF Next, TaskStep
  <2> QED  BY <2>1, <2>2
<1> QED  BY <1>1, InitInv, PTL DEF Safety

-----------------------------------------------------------------------------
(* The state of a task keeps its type, for any number of accounts, batch     *)
(* size, attempts and retries.                                               *)
THEOREM TypeCorrect == Spec => []TypeOK
<1>1. Inv => TypeOK
  BY DEF Inv
<1> QED  BY <1>1, Invariance, PTL DEF Spec

(* After a refused token a task never posts again, whatever fails while the  *)
(* refusal is handled, unless a throttled item hid the refusal or the run was *)
(* lost (the fatal items of InsightSnapshots, and handleSyncError with its    *)
(* SkipRetry).                                                               *)
THEOREM RefusalStopsTask == Spec => []RefusedTaskStops
<1>1. Inv => RefusedTaskStops
  BY DEF Inv, Refusals, Refused, Voided, RefusedTaskStops
<1> QED  BY <1>1, Invariance, PTL DEF Spec

(* A task sets the status of its profile only as Meta said of the token.     *)
THEOREM StatusFollowsRefusal == Spec => StatusFromRefusal
<1> DEFINE A == status' # status /\ pc # "end" =>
                  \E e \in met : /\ IsTokenError(e)
                                 /\ status' = IF e.subcode \in {459, 464, 490}
                                              THEN "checkpoint" ELSE "expired"
<1>1. Inv /\ [Next]_vars => [A]_vars
  <2> SUFFICES ASSUME Inv, Next, status' # status, pc # "end" PROVE A
    BY DEF vars
  <2>1. HandleRefused
    BY DEF Next, TaskStep, ClaimBatch, PostAnswered, PostBlips, PostFails, CreateAlerts,
           SaveSnapshot, SaveFails, Finish, HandleThrottled, HandleUnknown, NextTask,
           ClaimFails, RunLost
  <2>2. err \in met /\ IsTokenError(err)
    BY <2>1 DEF HandleRefused, IsCheckpoint, Inv, Refusals
  <2> QED  BY <2>1, <2>2 DEF HandleRefused, IsCheckpoint
<1> QED  BY <1>1, Invariance, PTL DEF Spec, Safety, StatusFromRefusal

-----------------------------------------------------------------------------
(* A throttled task. *)

Throttled(e) == e.code \in {4, 17, 32, 613, 80000, 80003, 80004}

\* While Meta has only throttled the task, nothing is announced and no account of
\* the call under way counts as failed: a throttled item ends the whole call.
Quiet == (\A e \in met : Throttled(e)) => alerts = {} /\ failed = {}

LEMMA QuietAnswer == ASSUME Inv, Quiet, PostAnswered PROVE Quiet'
<1>1. PICK item \in [Chunk -> Item] :
             /\ HandleItems(item)
             /\ met' = met \cup ({item[a] : a \in Chunk} \ {NoError})
  BY DEF PostAnswered
<1>2. alerts' = alerts
  BY DEF PostAnswered
<1>3. SUFFICES ASSUME \A e \in met' : Throttled(e)
               PROVE  alerts' = {} /\ failed' = {}
  BY DEF Quiet
<1>4. CASE {a \in Chunk : Fatal(item[a])} = {} /\ Collect(item)
  <2>1. alerts = {} /\ failed = {}
    BY <1>1, <1>3 DEF Quiet
  <2>2. ASSUME NEW a \in Chunk, item[a] # NoError
        PROVE  FALSE
    <3>1. Throttled(item[a])
      BY <1>1, <1>3, <2>2
    <3> QED BY <1>4, <3>1 DEF Fatal, IsRateLimit, Throttled
  <2> QED BY <1>2, <1>4, <2>1, <2>2 DEF Collect
<1>5. CASE \E first \in Chunk : ReturnError(item[first])
  BY <1>1, <1>2, <1>3, <1>5 DEF Quiet, ReturnError
<1> QED BY <1>1, <1>4, <1>5 DEF HandleItems

LEMMA QuietHandler ==
  ASSUME Inv, Quiet, HandleThrottled \/ HandleRefused \/ HandleUnknown
  PROVE  Quiet'
<1>1. met' = met /\ failed' = failed
  BY DEF HandleThrottled, HandleRefused, HandleUnknown, call
<1>2. CASE HandleThrottled
  BY <1>1, <1>2 DEF HandleThrottled, Quiet
<1>3. CASE HandleRefused \/ HandleUnknown
  <2>1. err \in met /\ (~IsRateLimit(err) \/ IsTokenError(err))
    BY <1>3 DEF HandleRefused, HandleUnknown, IsCheckpoint, Inv, Refusals
  <2>2. ~Throttled(err) /\ err \in met
    BY <2>1 DEF Throttled, IsRateLimit, IsTokenError
  <2> QED BY <1>1, <2>2 DEF Quiet
<1> QED BY <1>2, <1>3

LEMMA QuietStep == Inv /\ Quiet /\ [Next]_vars => Quiet'
<1> SUFFICES ASSUME Inv, Quiet, [Next]_vars PROVE Quiet'
  OBVIOUS
<1>1. CASE ClaimBatch \/ NextTask
  BY <1>1 DEF ClaimBatch, NextTask, NewCall, Quiet
<1>2. CASE PostBlips \/ PostFails
  <2>1. met \subseteq met' /\ alerts' = alerts /\ (failed' = failed \/ failed' = {})
    BY <1>2 DEF PostBlips, PostFails, ReturnError
  <2> QED BY <2>1 DEF Quiet
<1>3. CASE CreateAlerts
  <2>1. failed' = failed /\ met' = met
    BY <1>3 DEF CreateAlerts, call
  <2>2. failed = {} => alerts' = alerts
    BY <1>3 DEF CreateAlerts
  <2> QED BY <2>1, <2>2 DEF Quiet
<1>4. CASE \/ SaveFails \/ Finish \/ ClaimFails \/ RunLost \/ UNCHANGED vars
           \/ \E a \in 1 .. MaxAccounts : SaveSnapshot(a)
  BY <1>4 DEF SaveFails, Finish, SaveSnapshot, ClaimFails, RunLost, vars, call, Quiet
<1> QED
  BY <1>1, <1>2, <1>3, <1>4, QuietAnswer, QuietHandler DEF Next, TaskStep

(* A task that Meta only throttled alerts nobody on any of its runs (the      *)
(* IsRateLimit branch of handleSyncError, and the fatal items of a batch).    *)
THEOREM ThrottledIsQuiet == Spec => []QuietWhenThrottled
<1>1. Init => Quiet
  BY DEF Init, Quiet
<1>2. Quiet => QuietWhenThrottled
  BY DEF Quiet, Throttled, QuietWhenThrottled
<1> QED BY <1>1, <1>2, QuietStep, Invariance, PTL DEF Spec, Safety

-----------------------------------------------------------------------------
(* Refinement: the abstract answer changes only as MetaCall says. *)

LEMMA AskStep == ASSUME Inv, ClaimBatch PROVE [Call!Next]_(Call!vars)
<1>1. PICK n \in 0 .. MaxAccounts :
             /\ NewCall(n)
             /\ pc' = IF n = 0 THEN "end" ELSE "post"
  BY DEF ClaimBatch
<1>2. CASE n = 0
  BY <1>1, <1>2 DEF ClaimBatch, Call!vars, asked, answer
<1>3. CASE n # 0
  <2>1. asked = {} /\ answer = Call!NoCall
    BY DEF ClaimBatch, asked, answer, Call!NoCall
  <2>2. asked' = 1 .. n /\ answer' = Call!Pending /\ n \in 1 .. MaxAccounts
    BY <1>1, <1>3, ClientAssumption DEF asked, answer, NewCall, Call!Pending
  <2> QED  BY <2>1, <2>2 DEF Call!Next, Call!Ask
<1> QED  BY <1>2, <1>3

\* An error out of "post" is the failure of the call.
LEMMA FailStep ==
  ASSUME Inv, pc = "post", pc' = "error", UNCHANGED total
  PROVE  Call!Next
<1>1. answer = Call!Pending /\ answer' = Call!Failure /\ asked' = asked
  BY DEF answer, asked, Call!Pending, Call!Failure
<1> QED  BY <1>1 DEF Call!Next, Call!Fail

\* A batch answered on the way leaves the call pending; the last one settles it.
LEMMA SettleStep ==
  ASSUME Inv, Inv', pc = "post", pc' \in {"post", "alerts"}, UNCHANGED total
  PROVE  [Call!Next]_(Call!vars)
<1>1. CASE pc' = "post"
  BY <1>1 DEF Call!vars, asked, answer
<1>2. CASE pc' = "alerts"
  <2>1. asked = 1 .. total /\ asked' = asked /\ answer = Call!Pending
    BY <1>2 DEF asked, answer, Call!Pending
  <2>2. /\ results' \in SUBSET (1 .. total)
        /\ failed' = (1 .. total) \ results'
    BY <1>2 DEF Inv, TypeOK, Settled
  <2>3. answer' = Call!Outcome(results', asked \ results')
    BY <1>2, <2>1, <2>2 DEF answer, Call!Outcome
  <2> QED  BY <2>1, <2>2, <2>3 DEF Call!Next, Call!Settle
<1> QED  BY <1>1, <1>2

\* The handler keeps the answer, or is through with it.
LEMMA ReturnStep ==
  ASSUME Inv, pc \in {"alerts", "save", "error"}, UNCHANGED call,
         \/ pc' \in {"claim", "end"}
         \/ pc # "error" /\ pc' \in {"alerts", "save"}
  PROVE  [Call!Next]_(Call!vars)
<1>1. CASE pc' \in {"claim", "end"}
  <2>1. answer.kind \in {"outcome", "error"}
    BY DEF answer
  <2>2. asked' = {} /\ answer' = Call!NoCall
    BY <1>1 DEF asked, answer, Call!NoCall
  <2> QED  BY <2>1, <2>2 DEF Call!Next, Call!Return
<1>2. CASE pc # "error" /\ pc' \in {"alerts", "save"}
  BY <1>2 DEF Call!vars, asked, answer, call
<1> QED  BY <1>1, <1>2

\* A lost run abandons its call, or is through with the answer.
LEMMA LoseStep == ASSUME Inv, RunLost PROVE [Call!Next]_(Call!vars)
<1>1. UNCHANGED call /\ pc' \in {"claim", "end"}
  BY DEF RunLost, Retry
<1>2. CASE pc = "post"
  <2>1. answer = Call!Pending
    BY <1>2 DEF answer, Call!Pending
  <2>2. asked' = {} /\ answer' = Call!NoCall
    BY <1>1 DEF asked, answer, Call!NoCall
  <2> QED  BY <2>1, <2>2 DEF Call!Next, Call!Abandon
<1>3. CASE pc # "post"
  BY <1>1, <1>3, ReturnStep DEF RunLost
<1> QED  BY <1>2, <1>3

\* What an action does to pc and to the call's results.
LEMMA PostMoves ==
  ASSUME PostAnswered \/ PostBlips \/ PostFails
  PROVE  pc = "post" /\ pc' \in {"post", "alerts", "error"} /\ UNCHANGED total
<1>1. CASE PostAnswered
  BY <1>1 DEF PostAnswered, HandleItems, ReturnError
<1>2. CASE PostBlips
  BY <1>2 DEF PostBlips, ReturnError
<1>3. CASE PostFails
  BY <1>3 DEF PostFails, ReturnError
<1> QED  BY <1>1, <1>2, <1>3

LEMMA HandlerMoves ==
  ASSUME \/ CreateAlerts \/ SaveFails \/ Finish
         \/ \E a \in 1 .. MaxAccounts : SaveSnapshot(a)
         \/ HandleThrottled \/ HandleRefused \/ HandleUnknown
  PROVE  /\ pc \in {"alerts", "save", "error"} /\ UNCHANGED call
         /\ \/ pc' \in {"claim", "end"}
            \/ pc # "error" /\ pc' \in {"alerts", "save"}
BY DEF CreateAlerts, SaveFails, Finish, SaveSnapshot, HandleThrottled, HandleRefused,
       HandleUnknown, Retry

(* A call of many Graph batches, each posted several times, is one call with *)
(* one answer: every account settled once, or an error and nothing.          *)
THEOREM ClientRefinesCall == Spec => RefinesCall
<1>1. Init => Call!Init
  BY DEF Init, Call!Init, Call!NoCall, asked, answer
<1>2. Inv /\ Inv' /\ [Next]_vars => [Call!Next]_(Call!vars)
  <2> SUFFICES ASSUME Inv, Inv', [Next]_vars PROVE [Call!Next]_(Call!vars)
    OBVIOUS
  <2>1. CASE UNCHANGED vars
    BY <2>1 DEF vars, call, Call!vars, asked, answer
  <2>2. CASE ClaimBatch
    BY <2>2, AskStep
  <2>3. CASE PostAnswered \/ PostBlips \/ PostFails
    BY <2>3, PostMoves, FailStep, SettleStep
  <2>4. CASE \/ CreateAlerts \/ SaveFails \/ Finish
             \/ \E a \in 1 .. MaxAccounts : SaveSnapshot(a)
             \/ HandleThrottled \/ HandleRefused \/ HandleUnknown
    BY <2>4, HandlerMoves, ReturnStep
  <2>5. CASE NextTask \/ ClaimFails
    BY <2>5 DEF NextTask, ClaimFails, Retry, Call!vars, asked, answer
  <2>6. CASE RunLost
    BY <2>6, LoseStep
  <2> QED  BY <2>1, <2>2, <2>3, <2>4, <2>5, <2>6 DEF Next, TaskStep
<1> QED  BY <1>1, <1>2, Invariance, PTL DEF Spec, Safety, RefinesCall, Call!Spec
=============================================================================
