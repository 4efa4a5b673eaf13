------------------------- MODULE SyncPipelineProofs -------------------------
(***************************************************************************)
(* Theorems about SyncPipeline for any finite number of profiles, accounts, *)
(* workers and queue slots: type correctness, the refinement of one         *)
(* CursorClaim per profile, and who fetches which account.                  *)
(***************************************************************************)
EXTENDS SyncPipeline, FiniteSetTheorems, WellFoundedInduction, TLAPS

\* The arithmetic facts of the cursor, stated for one profile.
LEMMA KPositive ==
  ASSUME NEW p \in Profile
  PROVE  Cursor(p)!K \in Nat \ {0}
BY PipelineAssumption DEF Cursor!K, Cursor!Limit

LEMMA SameCardinality ==
  ASSUME NEW p \in Profile, NEW S
  PROVE  Cursor(p)!Cardinality(S) = Cardinality(S)
BY DEF Cardinality, Cursor!Cardinality

LEMMA OffsetType ==
  ASSUME TypeOK, NEW p \in Profile
  PROVE  Cursor(p)!Offset(cursor[p]) \in 0 .. Cardinality(Account)
<1>1. Cardinality(Account) \in Nat
  BY PipelineAssumption, FS_CardinalityType
<1> QED  BY <1>1 DEF Cursor!Offset, TypeOK, NoRow, Cursor!NoRow

LEMMA AdvanceTypes ==
  ASSUME NEW p \in Profile, NEW L \in SUBSET Account, NEW o \in 0 .. Cardinality(Account)
  PROVE  /\ Cursor(p)!BatchOf(L, o) \in SUBSET L
         /\ Cursor(p)!NextOffset(o, Cardinality(L), Cursor(p)!K) \in 0 .. Cardinality(Account)
<1>1. Cardinality(L) \in Nat /\ Cardinality(L) <= Cardinality(Account)
        /\ Cardinality(Account) \in Nat
  BY PipelineAssumption, FS_Subset, FS_CardinalityType
<1> QED
  BY <1>1, KPositive DEF Cursor!BatchOf, Cursor!NextOffset, Cursor!EndOf, Cursor!StartOf

-----------------------------------------------------------------------------
(* Type correctness, one lemma per group of actions. *)

LEMMA EnqueueType ==
  ASSUME TypeOK, NEW p \in Profile, EnqueueSyncProfile(p)
  PROVE  /\ lock' \in [Profile -> Slot \cup {Free}]
         /\ task' \in [Profile -> [Slot -> {"none", "waiting", "active"}]]
         /\ tries' \in [Profile -> [Slot -> 0 .. MaxRetry]]
BY PipelineAssumption DEF TypeOK, EnqueueSyncProfile, queueVars

LEMMA ClaimType ==
  ASSUME TypeOK, NEW p \in Profile,
         UNCHANGED registryVars \/ \E S \in (SUBSET Account) \ {{}} : Registry!Claim(p, S)
  PROVE  Registry!TypeOK' /\ gone' = gone
<1>1. CASE UNCHANGED registryVars
  BY <1>1 DEF TypeOK, Registry!TypeOK, registryVars, claimVars
<1>2. ASSUME NEW S \in (SUBSET Account) \ {{}}, Registry!Claim(p, S)
      PROVE  Registry!TypeOK' /\ gone' = gone
  BY <1>2 DEF TypeOK, Registry!TypeOK, Registry!Claim
<1> QED  BY <1>1, <1>2

LEMMA CurrentInTodo ==
  ASSUME TypeOK, todo # {} PROVE Current \in todo /\ Current \in Profile
<1>1. \E p \in todo : \A q \in todo : p <= q
  <2> DEFINE R == {ss \in Nat \X Nat : ss[1] < ss[2]}
  <2>1. todo \subseteq Nat
    BY PipelineAssumption DEF TypeOK
  <2>2. IsWellFoundedOn(R, Nat)
    BY NatLessThanWellFounded DEF OpToRel
  <2>3. PICK p \in todo : \A q \in todo : <<q, p>> \notin R
    <3> HIDE DEF R
    <3> QED  BY <2>1, <2>2, WFMin
  <2>4. \A q \in todo : ~ (q < p)
    BY <2>1, <2>3
  <2> QED  BY <2>1, <2>4
<1> QED  BY <1>1 DEF Current, TypeOK

LEMMA SchedulerType ==
  ASSUME TypeOK, SchedulerStep PROVE TypeOK'
<1>1. CASE Tick
  BY <1>1 DEF Tick, TypeOK, Registry!TypeOK, registryVars, claimVars, queueVars, schedVars, Live
<1>2. CASE Resync
  <2>1. Registry!TypeOK' /\ gone' = gone
    BY <1>2, CurrentInTodo, ClaimType DEF Resync
  <2> QED  BY <1>2, <2>1 DEF Resync, TypeOK, queueVars, claimVars
<1>6. CASE MarkResynced
  <2>1. resynced' \in [Profile -> BOOLEAN]
    BY <1>6 DEF MarkResynced, TypeOK
  <2> QED
    BY <1>6, <2>1 DEF MarkResynced, TypeOK, Registry!TypeOK, registryVars, claimVars, queueVars
<1>3. CASE ResyncFails
  BY <1>3 DEF ResyncFails, TypeOK, Registry!TypeOK, registryVars, claimVars, queueVars, schedVars, Live
<1>4. CASE EnqueueChunk
  BY <1>4, CurrentInTodo, EnqueueType DEF EnqueueChunk, TypeOK, Registry!TypeOK, registryVars, claimVars
<1>5. CASE TickEnds \/ TickFails
  BY <1>5 DEF TickEnds, TickFails, TypeOK, Registry!TypeOK, registryVars, claimVars, queueVars, schedVars,
         Live
<1> QED  BY <1>1, <1>2, <1>3, <1>4, <1>5, <1>6 DEF SchedulerStep

LEMMA OAuthType ==
  ASSUME TypeOK, NEW p \in Profile, OAuthStep(p) \/ DeleteFBProfile(p) \/ LockExpires(p)
  PROVE  TypeOK'
<1>1. CASE OAuthStore(p)
  BY <1>1 DEF OAuthStore, TypeOK, Registry!TypeOK, registryVars, claimVars, queueVars, schedVars, Live
<1>2. CASE OAuthImport(p)
  <2>1. Registry!TypeOK' /\ gone' = gone
    BY <1>2, ClaimType DEF OAuthImport
  <2> QED  BY <1>2, <2>1 DEF OAuthImport, TypeOK, queueVars, claimVars, schedVars
<1>7. CASE OAuthMark(p)
  <2>1. resynced' \in [Profile -> BOOLEAN]
    BY <1>7 DEF OAuthMark, TypeOK
  <2> QED
    BY <1>7, <2>1 DEF OAuthMark, TypeOK, Registry!TypeOK, registryVars, claimVars, queueVars, schedVars
<1>3. CASE OAuthFails(p)
  BY <1>3 DEF OAuthFails, TypeOK, Registry!TypeOK, registryVars, claimVars, queueVars, schedVars, Live
<1>4. CASE OAuthEnqueue(p)
  BY <1>4, EnqueueType DEF OAuthEnqueue, TypeOK, Registry!TypeOK, registryVars, claimVars, schedVars
<1>5. CASE DeleteFBProfile(p)
  BY <1>5 DEF DeleteFBProfile, Registry!Release, TypeOK, Registry!TypeOK, registryVars, claimVars,
         queueVars, schedVars, Live
<1>6. CASE LockExpires(p)
  BY <1>6 DEF LockExpires, TypeOK, Registry!TypeOK, registryVars, claimVars, queueVars, schedVars, Live
<1> QED  BY <1>1, <1>2, <1>3, <1>4, <1>5, <1>6, <1>7 DEF OAuthStep

LEMMA DoneType ==
  ASSUME TypeOK, NEW w \in Worker, run[w].pc # "idle", Done(w)
  PROVE  /\ lock' \in [Profile -> Slot \cup {Free}]
         /\ task' \in [Profile -> [Slot -> {"none", "waiting", "active"}]]
         /\ tries' = tries
BY DEF TypeOK, Done

\* A step that gives worker w a new record and leaves the rest of the type alone.
LEMMA RunUpdate ==
  ASSUME TypeOK, NEW w \in Worker, NEW r \in Runs, run' = [run EXCEPT ![w] = r]
  PROVE  run' \in [Worker -> Runs]
BY DEF TypeOK, Runs

LEMMA BusyRun ==
  ASSUME TypeOK, NEW w \in Worker, run[w].pc # "idle"
  PROVE  run[w] \in Busy
BY DEF TypeOK, Runs, Idle

LEMMA BusyFields ==
  ASSUME NEW r \in Busy
  PROVE  /\ r.profile \in Profile /\ r.slot \in Slot /\ r.batch \in SUBSET Account
         /\ r.list \in SUBSET Account /\ r.offset \in 0 .. Cardinality(Account)
         /\ \A B \in SUBSET Account : [r EXCEPT !.batch = B] \in Runs
         /\ \A c \in {"read", "claim", "call", "save"} \cup Claiming :
              /\ [r EXCEPT !.pc = c] \in Runs
              /\ \A B \in SUBSET Account : /\ [r EXCEPT !.pc = c, !.batch = B] \in Runs
                                          /\ [r EXCEPT !.pc = c, !.list = B] \in Runs
              /\ \A o \in 0 .. Cardinality(Account) : [r EXCEPT !.pc = c, !.offset = o] \in Runs
BY DEF Runs, Busy

LEMMA WorkerType ==
  ASSUME TypeOK, NEW w \in Worker,
         \/ RunStep(w) \/ MetaRefuses(w) \/ TaskFails(w)
         \/ \E p \in Profile, s \in Slot : Dequeue(w, p, s)
  PROVE  TypeOK'
<1> USE DEF registryVars, claimVars, schedVars, queueVars
<1>0. Idle \in Runs
  BY DEF Runs
<1>1. ASSUME NEW p \in Profile, NEW s \in Slot, Dequeue(w, p, s)
      PROVE  TypeOK'
  <2>1. [pc |-> "read", profile |-> p, slot |-> s, list |-> {}, offset |-> 0, batch |-> {}]
          \in Runs
    <3>1. 0 \in 0 .. Cardinality(Account)
      BY PipelineAssumption, FS_CardinalityType
    <3> QED  BY <3>1 DEF Runs, Busy
  <2>2. run' \in [Worker -> Runs]
    BY <1>1, <2>1, RunUpdate DEF Dequeue
  <2> QED  BY <1>1, <2>2 DEF Dequeue, TypeOK, Registry!TypeOK, Runs
<1>2. CASE ReadProfile(w)
  <2>1. run' \in [Worker -> Runs]
    <3>1. [run EXCEPT ![w].pc = "claim"] = [run EXCEPT ![w] = [run[w] EXCEPT !.pc = "claim"]]
      OBVIOUS
    <3>2. run[w] \in Busy
      BY <1>2, BusyRun DEF ReadProfile
    <3> QED  BY <1>0, <1>2, <3>1, <3>2, BusyFields, RunUpdate DEF ReadProfile, Done
  <2>2. \/ UNCHANGED queueVars
        \/ /\ lock' \in [Profile -> Slot \cup {Free}]
           /\ task' \in [Profile -> [Slot -> {"none", "waiting", "active"}]]
           /\ tries' = tries
    BY <1>2, DoneType DEF ReadProfile
  <2> QED  BY <1>2, <2>1, <2>2 DEF ReadProfile, TypeOK, Registry!TypeOK, Runs
<1>3. CASE ReadList(w)
  <2>0. run[w] \in Busy
    BY <1>3, BusyRun DEF ReadList
  <2> DEFINE L == Owned(run[w].profile)
             r == [run[w] EXCEPT !.pc = "insert", !.list = L]
  <2>1. L \in SUBSET Account
    BY DEF Owned
  <2>2. r \in Runs
    <3> HIDE DEF L
    <3> QED  BY <2>0, <2>1, BusyFields DEF Claiming
  <2>3. run' = [run EXCEPT ![w] = Idle] \/ run' = [run EXCEPT ![w] = r]
    BY <1>3 DEF ReadList, Done
  <2>4. run' \in [Worker -> Runs]
    <3> HIDE DEF r
    <3> QED  BY <1>0, <2>2, <2>3, RunUpdate
  <2>5. \/ UNCHANGED queueVars
        \/ /\ lock' \in [Profile -> Slot \cup {Free}]
           /\ task' \in [Profile -> [Slot -> {"none", "waiting", "active"}]]
           /\ tries' = tries
    BY <1>3, DoneType DEF ReadList
  <2> QED  BY <1>3, <2>4, <2>5 DEF ReadList, TypeOK, Registry!TypeOK, Runs
<1>9. CASE InsertRow(w)
  <2>0. run[w] \in Busy
    BY <1>9, BusyRun DEF InsertRow
  <2>1. run' = [run EXCEPT ![w] = [run[w] EXCEPT !.pc = "lock"]]
    BY <1>9 DEF InsertRow
  <2>2. run' \in [Worker -> Runs]
    BY <2>0, <2>1, BusyFields, RunUpdate DEF Claiming
  <2>3. rowLock' \in [Profile -> Worker \cup {NoWorker}]
    BY <1>9 DEF InsertRow, TypeOK
  <2> QED  BY <1>9, <2>2, <2>3 DEF InsertRow, TypeOK, Registry!TypeOK, Runs
<1>10. CASE LockRow(w)
  <2> DEFINE o == Cursor(run[w].profile)!Offset(cursor[run[w].profile])
  <2>0. run[w] \in Busy
    BY <1>10, BusyRun DEF LockRow
  <2>1. o \in 0 .. Cardinality(Account)
    BY <2>0, BusyFields, OffsetType
  <2>2. run' = [run EXCEPT ![w] = [run[w] EXCEPT !.pc = "update", !.offset = o]]
    BY <1>10 DEF LockRow
  <2>3. run' \in [Worker -> Runs]
    <3> HIDE DEF o
    <3> QED  BY <2>0, <2>1, <2>2, BusyFields, RunUpdate DEF Claiming
  <2>4. rowLock' \in [Profile -> Worker \cup {NoWorker}]
    BY <1>10 DEF LockRow, TypeOK
  <2> QED  BY <1>10, <2>3, <2>4 DEF LockRow, TypeOK, Registry!TypeOK, Runs
<1>11. CASE Advance(w)
  <2> DEFINE p == run[w].profile
             L == run[w].list
             B == Cursor(p)!BatchOf(L, run[w].offset)
             n == Cursor(p)!NextOffset(run[w].offset, Cardinality(L), Cursor(p)!K)
             r == [run[w] EXCEPT !.pc = "call", !.list = {}, !.offset = 0, !.batch = B]
  <2>0. /\ run[w] \in Busy /\ p \in Profile /\ L \in SUBSET Account
        /\ run[w].offset \in 0 .. Cardinality(Account)
    BY <1>11, BusyRun, BusyFields DEF Advance
  <2>1. B \in SUBSET Account /\ n \in 0 .. Cardinality(Account)
    BY <2>0, AdvanceTypes
  <2>2. /\ cursor' = [cursor EXCEPT ![p] = n]
        /\ lastBatch' = [lastBatch EXCEPT ![p] = B] /\ lastList' = [lastList EXCEPT ![p] = L]
        /\ run' = [run EXCEPT ![w] = r]
    BY <1>11 DEF Advance
  <2>3. r \in Runs
    <3>1. 0 \in 0 .. Cardinality(Account)
      BY PipelineAssumption, FS_CardinalityType
    <3> HIDE DEF B
    <3> QED  BY <2>0, <2>1, <3>1 DEF Runs, Busy
  <2>4. run' \in [Worker -> Runs]
    <3> HIDE DEF r
    <3> QED  BY <2>2, <2>3, RunUpdate
  <2>5. /\ cursor' \in [Profile -> {NoRow} \cup 0 .. Cardinality(Account)]
        /\ lastBatch' \in [Profile -> SUBSET Account]
        /\ lastList' \in [Profile -> SUBSET Account]
    <3> HIDE DEF B, n, L
    <3> QED  BY <2>0, <2>1, <2>2 DEF TypeOK
  <2>6. rowLock' \in [Profile -> Worker \cup {NoWorker}]
    BY <1>11 DEF Advance, EndTx, TypeOK
  <2> QED  BY <1>11, <2>4, <2>5, <2>6 DEF Advance, TypeOK, Registry!TypeOK, Runs
<1>4. CASE MetaAnswers(w)
  <2>1. PICK F \in SUBSET run[w].batch :
               run' = [run EXCEPT ![w].pc = "save", ![w].batch = @ \ F]
    BY <1>4 DEF MetaAnswers
  <2>0. run[w] \in Busy
    BY <1>4, BusyRun DEF MetaAnswers
  <2>2. run' = [run EXCEPT ![w] = [run[w] EXCEPT !.pc = "save",
                                                 !.batch = run[w].batch \ F]]
    BY <2>1
  <2>3. run' \in [Worker -> Runs]
    BY <2>0, <2>2, BusyFields, RunUpdate
  <2> QED  BY <1>4, <2>3 DEF MetaAnswers, TypeOK, Registry!TypeOK, Runs
<1>5. CASE MetaRefuses(w)
  <2>1. run' \in [Worker -> Runs]
    BY <1>5, <1>0, RunUpdate DEF MetaRefuses
  <2> QED  BY <1>5, <2>1 DEF MetaRefuses, TypeOK, Registry!TypeOK, Runs
<1>6. CASE SaveSnapshot(w)
  <2>1. PICK a \in run[w].batch : /\ run' = [run EXCEPT ![w].batch = @ \ {a}]
                                  /\ stale' = stale \ {a}
    BY <1>6 DEF SaveSnapshot
  <2>0. run[w] \in Busy
    BY <1>6, BusyRun DEF SaveSnapshot
  <2>2. run' = [run EXCEPT ![w] = [run[w] EXCEPT !.batch = run[w].batch \ {a}]]
    BY <2>1
  <2>3. run' \in [Worker -> Runs]
    BY <2>0, <2>2, BusyFields, RunUpdate
  <2> QED  BY <1>6, <2>1, <2>3 DEF SaveSnapshot, TypeOK, Registry!TypeOK, Runs
<1>7. CASE Finish(w)
  <2>1. run' \in [Worker -> Runs]
    BY <1>7, <1>0, RunUpdate DEF Finish, Done
  <2> QED  BY <1>7, <2>1, DoneType DEF Finish, TypeOK, Registry!TypeOK, Runs
<1>8. CASE TaskFails(w) \/ ClaimFails(w)
  <2>0. Fail(w) /\ run[w].pc # "idle"
    BY <1>8 DEF TaskFails, ClaimFails
  <2>1. run' \in [Worker -> Runs]
    BY <2>0, <1>0, RunUpdate DEF Fail
  <2>2. tries' \in [Profile -> [Slot -> 0 .. MaxRetry]]
    <3> DEFINE p == run[w].profile
               s == run[w].slot
               n == IF tries[p][s] < MaxRetry THEN tries[p][s] + 1 ELSE tries[p][s]
    <3>1. p \in Profile /\ s \in Slot
      BY <2>0, BusyRun, BusyFields
    <3>2. tries[p][s] \in 0 .. MaxRetry
      BY <3>1 DEF TypeOK
    <3>3. n \in 0 .. MaxRetry
      BY <3>2, PipelineAssumption
    <3>4. tries' = [tries EXCEPT ![p][s] = n]
      BY <2>0 DEF Fail, Retryable, NextTries
    <3> HIDE DEF n, p, s
    <3> QED  BY <3>1, <3>3, <3>4 DEF TypeOK
  <2>3. rowLock' \in [Profile -> Worker \cup {NoWorker}]
    BY <2>0 DEF Fail, EndTx, TypeOK
  <2> QED  BY <2>0, <2>1, <2>2, <2>3 DEF Fail, TypeOK, Registry!TypeOK, Runs
<1> QED
  BY <1>1, <1>2, <1>3, <1>4, <1>5, <1>6, <1>7, <1>8, <1>9, <1>10, <1>11 DEF RunStep

LEMMA InitType == Init => TypeOK
BY PipelineAssumption, FS_CardinalityType
   DEF Init, TypeOK, Registry!Init, Registry!TypeOK, Runs, Slot

LEMMA NextType == TypeOK /\ [Next]_vars => TypeOK'
<1> SUFFICES ASSUME TypeOK, [Next]_vars PROVE TypeOK'
  OBVIOUS
<1>1. CASE Outage \/ Midnight
  BY <1>1 DEF Outage, Midnight, TypeOK, Registry!TypeOK, registryVars, claimVars, queueVars, schedVars
<1>2. CASE UNCHANGED vars
  BY <1>2 DEF vars, TypeOK, Registry!TypeOK, registryVars, claimVars, queueVars, schedVars
<1> QED  BY <1>1, <1>2, SchedulerType, OAuthType, WorkerType DEF Next

\* Type correctness of the whole pipeline.
THEOREM TypeCorrect == Safety => []TypeOK
BY InitType, NextType, PTL DEF Safety

-----------------------------------------------------------------------------
(* The claims of each profile are a CursorClaim.  What else the argument     *)
(* needs: who holds a cursor row is in the middle of a claim for it, and a   *)
(* worker that is not claiming has no list and no offset.                    *)

Held ==
  /\ \A p \in Profile, w \in Worker : rowLock[p] = w => ClaimsFor(w, p)
  /\ \A w \in Worker : run[w].pc \notin Claiming => run[w].list = {} /\ run[w].offset = 0

\* The five statements of a claim.
ClaimStep(w) ==
  \/ ReadList(w) /\ Owned(run[w].profile) # {}
  \/ InsertRow(w) \/ LockRow(w) \/ Advance(w)
  \/ Fail(w) /\ run[w].pc # "idle"

\* Another step of a worker, before its claim or after it.
OtherStep(w) ==
  /\ run[w].pc \notin Claiming
  /\ \E r \in Runs :
       /\ run' = [run EXCEPT ![w] = r] /\ r.pc \notin Claiming
       /\ run[w].list = {} /\ run[w].offset = 0 => r.list = {} /\ r.offset = 0
       /\ \/ r.batch = {}
          \/ r.profile = run[w].profile /\ r.batch \subseteq run[w].batch

LEMMA OtherStepBy ==
  ASSUME NEW w \in Worker, NEW r \in Runs,
         run[w].pc \notin Claiming, r.pc \notin Claiming,
         run' = [run EXCEPT ![w] = r],
         (run[w].list = {} /\ run[w].offset = 0) => (r.list = {} /\ r.offset = 0),
         r.batch = {} \/ (r.profile = run[w].profile /\ r.batch \subseteq run[w].batch)
  PROVE  OtherStep(w)
BY Zenon DEF OtherStep

LEMMA OtherSteps ==
  ASSUME TypeOK, NEW w \in Worker,
         \/ ReadProfile(w) \/ MetaAnswers(w) \/ SaveSnapshot(w) \/ Finish(w) \/ MetaRefuses(w)
         \/ ReadList(w) /\ Owned(run[w].profile) = {}
         \/ \E p \in Profile, s \in Slot : Dequeue(w, p, s)
  PROVE  OtherStep(w) /\ UNCHANGED <<owner, gone, claimVars>>
<1> USE DEF registryVars
<1>0. UNCHANGED <<owner, gone, claimVars>>
  BY DEF ReadProfile, MetaAnswers, SaveSnapshot, Finish, MetaRefuses, ReadList, Dequeue
<1>1. ASSUME run[w].pc \notin Claiming, run' = [run EXCEPT ![w] = Idle]
      PROVE  OtherStep(w)
  <2>1. /\ Idle \in Runs /\ Idle.pc \notin Claiming /\ Idle.list = {} /\ Idle.offset = 0
        /\ Idle.batch = {}
    BY DEF Runs, Idle, Claiming
  <2> QED  BY <1>1, <2>1, OtherStepBy
<1>2. CASE ReadProfile(w)
  <2>0. run[w] \in Busy /\ run[w].pc \notin Claiming
    BY <1>2, BusyRun DEF ReadProfile, Claiming
  <2> DEFINE r == [run[w] EXCEPT !.pc = "claim"]
  <2>1. run' = [run EXCEPT ![w] = Idle] \/ run' = [run EXCEPT ![w] = r]
    BY <1>2 DEF ReadProfile, Done
  <2>2. /\ r \in Runs /\ r.pc \notin Claiming /\ r.list = run[w].list
        /\ r.offset = run[w].offset /\ r.profile = run[w].profile /\ r.batch = run[w].batch
    BY <2>0, BusyFields DEF Busy, Claiming
  <2> HIDE DEF r
  <2> QED  BY <1>0, <1>1, <2>0, <2>1, <2>2, OtherStepBy
<1>3. CASE MetaAnswers(w)
  <2>0. run[w] \in Busy /\ run[w].pc \notin Claiming
    BY <1>3, BusyRun DEF MetaAnswers, Claiming
  <2>1. PICK F \in SUBSET run[w].batch :
               run' = [run EXCEPT ![w].pc = "save", ![w].batch = @ \ F]
    BY <1>3 DEF MetaAnswers
  <2> DEFINE r == [run[w] EXCEPT !.pc = "save", !.batch = run[w].batch \ F]
  <2>2. run' = [run EXCEPT ![w] = r]
    BY <2>1
  <2>3. /\ r \in Runs /\ r.pc \notin Claiming /\ r.list = run[w].list
        /\ r.offset = run[w].offset /\ r.profile = run[w].profile
        /\ r.batch \subseteq run[w].batch
    BY <2>0, BusyFields DEF Busy, Claiming
  <2> HIDE DEF r
  <2> QED  BY <1>0, <2>0, <2>2, <2>3, OtherStepBy
<1>4. CASE SaveSnapshot(w)
  <2>0. run[w] \in Busy /\ run[w].pc \notin Claiming
    BY <1>4, BusyRun DEF SaveSnapshot, Claiming
  <2>1. PICK a \in run[w].batch : run' = [run EXCEPT ![w].batch = @ \ {a}]
    BY <1>4 DEF SaveSnapshot
  <2> DEFINE r == [run[w] EXCEPT !.batch = run[w].batch \ {a}]
  <2>2. run' = [run EXCEPT ![w] = r]
    BY <2>1
  <2>3. /\ r \in Runs /\ r.pc = run[w].pc /\ r.list = run[w].list
        /\ r.offset = run[w].offset /\ r.profile = run[w].profile
        /\ r.batch \subseteq run[w].batch
    BY <2>0, BusyFields DEF Busy
  <2> HIDE DEF r
  <2> QED  BY <1>0, <2>0, <2>2, <2>3, OtherStepBy
<1>5. CASE Finish(w) \/ MetaRefuses(w) \/ (ReadList(w) /\ Owned(run[w].profile) = {})
  BY <1>0, <1>1, <1>5 DEF Finish, MetaRefuses, ReadList, Done, Claiming
<1>6. ASSUME NEW p \in Profile, NEW s \in Slot, Dequeue(w, p, s)
      PROVE  OtherStep(w)
  <2> DEFINE r == [pc |-> "read", profile |-> p, slot |-> s, list |-> {}, offset |-> 0,
                   batch |-> {}]
  <2>1. run' = [run EXCEPT ![w] = r] /\ run[w].pc \notin Claiming
    BY <1>6 DEF Dequeue, Claiming
  <2>2. r \in Runs /\ r.pc \notin Claiming /\ r.list = {} /\ r.offset = 0 /\ r.batch = {}
    <3>1. 0 \in 0 .. Cardinality(Account)
      BY PipelineAssumption, FS_CardinalityType
    <3> QED  BY <3>1 DEF Runs, Busy, Claiming
  <2> HIDE DEF r
  <2> QED  BY <2>1, <2>2, OtherStepBy
<1> QED  BY <1>0, <1>2, <1>3, <1>4, <1>5, <1>6

\* What a step does to the registry, the cursors and the workers.
LEMMA StepKinds ==
  ASSUME TypeOK, [Next]_vars
  PROVE  \/ UNCHANGED <<owner, gone, claimVars, run>>
         \/ \E p \in Profile, S \in (SUBSET Account) \ {{}} :
              Registry!Claim(p, S) /\ UNCHANGED <<claimVars, run>>
         \/ \E p \in Profile : DeleteFBProfile(p)
         \/ \E w \in Worker : ClaimStep(w)
         \/ \E w \in Worker : OtherStep(w) /\ UNCHANGED <<owner, gone, claimVars>>
<1> USE DEF registryVars
<1>1. CASE Resync
  <2>1. Current \in Profile
    BY <1>1, CurrentInTodo DEF Resync
  <2> QED  BY <1>1, <2>1 DEF Resync
<1>2. ASSUME NEW p \in Profile, OAuthStep(p) \/ LockExpires(p)
      PROVE  \/ UNCHANGED <<owner, gone, claimVars, run>>
             \/ \E S \in (SUBSET Account) \ {{}} :
                  Registry!Claim(p, S) /\ UNCHANGED <<claimVars, run>>
  BY <1>2 DEF OAuthStep, OAuthStore, OAuthImport, OAuthMark, OAuthFails, OAuthEnqueue,
              LockExpires
<1>3. CASE \/ Tick \/ MarkResynced \/ ResyncFails \/ EnqueueChunk \/ TickEnds \/ TickFails
           \/ Outage \/ Midnight
  BY <1>3 DEF Tick, MarkResynced, ResyncFails, EnqueueChunk, TickEnds, TickFails, Outage,
              Midnight
<1>4. ASSUME NEW w \in Worker,
             \/ RunStep(w) \/ MetaRefuses(w) \/ TaskFails(w)
             \/ \E p \in Profile, s \in Slot : Dequeue(w, p, s)
      PROVE  ClaimStep(w) \/ (OtherStep(w) /\ UNCHANGED <<owner, gone, claimVars>>)
  BY <1>4, OtherSteps DEF RunStep, ClaimStep, TaskFails, ClaimFails
<1>5. CASE UNCHANGED vars
  BY <1>5 DEF vars
<1> QED  BY <1>1, <1>2, <1>3, <1>4, <1>5 DEF Next, SchedulerStep

\* What each statement of a claim writes, one record per worker.
LEMMA ClaimWrites ==
  ASSUME TypeOK, NEW w \in Worker, ClaimStep(w)
  PROVE  /\ run[w] \in Busy /\ UNCHANGED <<owner, gone>>
         /\ \E r \in Runs : run' = [run EXCEPT ![w] = r]
         /\ rowLock' = [rowLock EXCEPT ![run[w].profile] = rowLock'[run[w].profile]]
<1> USE DEF registryVars
<1>1. run[w] \in Busy
  BY BusyRun DEF ClaimStep, ReadList, InsertRow, LockRow, Advance
<1>2. UNCHANGED <<owner, gone>>
  BY DEF ClaimStep, ReadList, InsertRow, LockRow, Advance, Fail
<1>3. run' \in [Worker -> Runs]
  <2>1. \/ RunStep(w) \/ TaskFails(w)
        \/ Fail(w)
    BY DEF ClaimStep, RunStep
  <2>2. Fail(w) => run' \in [Worker -> Runs]
    BY RunUpdate DEF Fail, Runs
  <2> QED  BY <2>1, <2>2, WorkerType DEF TypeOK
<1>4. run' = [run EXCEPT ![w] = run'[w]]
  BY DEF ClaimStep, ReadList, InsertRow, LockRow, Advance, Fail, TypeOK
<1>5. rowLock' = [rowLock EXCEPT ![run[w].profile] = rowLock'[run[w].profile]]
  BY <1>1, BusyFields
     DEF ClaimStep, ReadList, InsertRow, LockRow, Advance, Fail, EndTx, TypeOK, claimVars
<1> QED  BY <1>1, <1>2, <1>3, <1>4, <1>5

\* Who holds the row of a profile after a statement of a claim for it.
LEMMA ClaimLocks ==
  ASSUME TypeOK, NEW w \in Worker, ClaimStep(w)
  PROVE  LET p == run[w].profile
         IN  /\ rowLock'[p] \in {rowLock[p], w, NoWorker}
             /\ rowLock'[p] = w => \/ run'[w].profile = p /\ run'[w].pc \in Claiming
                                   \/ rowLock[p] = w /\ run[w].pc \notin Claiming
             /\ \A q \in Profile \ {p} : rowLock'[q] = rowLock[q]
             /\ run'[w].profile = p \/ run'[w].pc \notin Claiming
             /\ run'[w].pc \notin Claiming => run'[w].list = {} /\ run'[w].offset = 0
             /\ \A v \in Worker \ {w} : run'[v] = run[v]
<1> DEFINE p == run[w].profile
<1>1. run[w] \in Busy /\ p \in Profile
  BY ClaimWrites, BusyFields
<1>2. \A v \in Worker \ {w} : run'[v] = run[v]
  BY ClaimWrites DEF TypeOK
<1>3. \A q \in Profile \ {p} : rowLock'[q] = rowLock[q]
  BY ClaimWrites DEF TypeOK
<1>4. CASE ReadList(w) /\ Owned(p) # {}
  <2>1. run'[w] = [run[w] EXCEPT !.pc = "insert", !.list = Owned(p)] /\ rowLock' = rowLock
    BY <1>4 DEF ReadList, TypeOK, claimVars
  <2>2. run'[w].pc = "insert" /\ run'[w].profile = p /\ run[w].pc = "claim"
    BY <1>1, <1>4, <2>1 DEF Busy, ReadList
  <2> QED  BY <1>2, <1>3, <2>1, <2>2 DEF Claiming
<1>5. CASE InsertRow(w) \/ LockRow(w)
  <2>1. run'[w].pc \in Claiming /\ run'[w].profile = p
    BY <1>1, <1>5 DEF InsertRow, LockRow, TypeOK, Busy, Claiming
  <2>2. rowLock'[p] \in {rowLock[p], w}
    BY <1>1, <1>5 DEF InsertRow, LockRow, TypeOK
  <2> QED  BY <1>2, <1>3, <2>1, <2>2
<1>6. CASE Advance(w) \/ Fail(w)
  <2>1. rowLock'[p] = IF rowLock[p] = w THEN NoWorker ELSE rowLock[p]
    BY <1>1, <1>6 DEF Advance, Fail, EndTx, TypeOK
  <2>2. run'[w].pc \notin Claiming /\ run'[w].list = {} /\ run'[w].offset = 0
    <3>1. CASE Advance(w)
      <4> DEFINE B == Cursor(p)!BatchOf(run[w].list, run[w].offset)
      <4>1. run'[w] = [run[w] EXCEPT !.pc = "call", !.list = {}, !.offset = 0, !.batch = B]
        BY <3>1 DEF Advance, TypeOK
      <4> HIDE DEF B
      <4> QED  BY <1>1, <4>1 DEF Busy, Claiming
    <3>2. CASE Fail(w)
      BY <3>2 DEF Fail, TypeOK, Idle, Claiming
    <3> QED  BY <1>6, <3>1, <3>2
  <2> QED  BY <1>2, <1>3, <2>1, <2>2, PipelineAssumption
<1> QED  BY <1>4, <1>5, <1>6 DEF ClaimStep

LEMMA HeldInv == TypeOK /\ Held /\ [Next]_vars => Held'
<1> SUFFICES ASSUME TypeOK, Held, [Next]_vars PROVE Held'
  OBVIOUS
<1>1. CASE rowLock' = rowLock /\ run' = run
  BY <1>1 DEF Held, ClaimsFor
<1>2. ASSUME NEW w \in Worker, ClaimStep(w)
      PROVE  Held'
  <2>1. run[w].profile \in Profile
    BY <1>2, ClaimWrites, BusyFields
  <2>2. ASSUME NEW q \in Profile, NEW v \in Worker, rowLock'[q] = v
        PROVE  ClaimsFor(v, q)'
    <3>1. CASE v # w
      BY <1>2, <2>1, <2>2, <3>1, ClaimLocks, PipelineAssumption DEF Held, ClaimsFor
    <3>2. CASE v = w /\ q # run[w].profile
      BY <1>2, <2>2, <3>2, ClaimLocks DEF Held, ClaimsFor
    <3>3. CASE v = w /\ q = run[w].profile
      BY <1>2, <2>2, <3>3, ClaimLocks DEF Held, ClaimsFor
    <3> QED  BY <3>1, <3>2, <3>3
  <2>3. \A v \in Worker : run'[v].pc \notin Claiming => run'[v].list = {} /\ run'[v].offset = 0
    BY <1>2, ClaimLocks DEF Held
  <2> QED  BY <2>2, <2>3 DEF Held
<1>3. ASSUME NEW w \in Worker, OtherStep(w), rowLock' = rowLock
      PROVE  Held'
  BY <1>3 DEF OtherStep, Held, ClaimsFor, TypeOK
<1>4. ASSUME NEW p \in Profile, DeleteFBProfile(p)
      PROVE  rowLock' = rowLock /\ run' = run
  BY <1>4 DEF DeleteFBProfile
<1> QED  BY <1>1, <1>2, <1>3, <1>4, StepKinds DEF claimVars

\* The locals of the claims for p, as Cursor(p) sees them.
PcOf(p) == [v \in Worker |-> IF ClaimsFor(v, p) THEN run[v].pc ELSE "idle"]
ListOf(p) == [v \in Worker |-> IF ClaimsFor(v, p) THEN run[v].list ELSE {}]
OffsetOf(p) == [v \in Worker |-> IF ClaimsFor(v, p) THEN run[v].offset ELSE 0]

LEMMA Mapped ==
  ASSUME TypeOK, NEW p \in Profile, NEW w \in Worker,
         \A v \in Worker \ {w} : run'[v] = run[v]
  PROVE  /\ PcOf(p)' = [PcOf(p) EXCEPT ![w] =
                          IF ClaimsFor(w, p)' THEN run'[w].pc ELSE "idle"]
         /\ ListOf(p)' = [ListOf(p) EXCEPT ![w] =
                            IF ClaimsFor(w, p)' THEN run'[w].list ELSE {}]
         /\ OffsetOf(p)' = [OffsetOf(p) EXCEPT ![w] =
                              IF ClaimsFor(w, p)' THEN run'[w].offset ELSE 0]
BY DEF PcOf, ListOf, OffsetOf, ClaimsFor

\* Steps that do not concern p leave all of it alone.
LEMMA MappedSame ==
  ASSUME NEW p \in Profile,
         \A v \in Worker : \/ run'[v] = run[v]
                           \/ ~ ClaimsFor(v, p) /\ ~ ClaimsFor(v, p)'
  PROVE  UNCHANGED <<PcOf(p), ListOf(p), OffsetOf(p)>>
BY DEF PcOf, ListOf, OffsetOf, ClaimsFor

\* The cursor and the histories of q only change by a claim or the deletion of q.
LEMMA CursorStep ==
  ASSUME TypeOK, Held, [Next]_vars, NEW p \in Profile
  PROVE  [Cursor(p)!ClaimNext]_(Cursor(p)!claimVars)
<1> DEFINE Step == [Cursor(p)!ClaimNext]_(Cursor(p)!claimVars)
<1> USE DEF Cursor!claimVars, Cursor!vars, Cursor!taskVars
<1>1. ASSUME UNCHANGED <<owner, gone>>,
             UNCHANGED <<cursor[p], rowLock[p], lastBatch[p], lastList[p]>>,
             UNCHANGED <<PcOf(p), ListOf(p), OffsetOf(p)>>
      PROVE  Step
  BY <1>1 DEF Owned, PcOf, ListOf, OffsetOf
<1>2. CASE UNCHANGED <<owner, gone, claimVars, run>>
  BY <1>1, <1>2, MappedSame DEF claimVars
<1>3. ASSUME NEW q \in Profile, NEW S \in (SUBSET Account) \ {{}}, Registry!Claim(q, S),
             UNCHANGED <<claimVars, run>>
      PROVE  Step
  <2>0. UNCHANGED <<PcOf(p), ListOf(p), OffsetOf(p)>> /\ gone' = gone
    BY <1>3, MappedSame DEF Registry!Claim
  <2>1. \A a \in S : owner[a] = NoProfile
    BY <1>3 DEF Registry!Claim
  <2>2. CASE q = p
    <3>1. S \in (SUBSET (Account \ Owned(p))) \ {{}}
      BY <2>1, PipelineAssumption DEF Owned
    <3>2. Owned(p)' = Owned(p) \cup S
      BY <1>3, <2>2 DEF Owned, Registry!Claim
    <3>3. Cursor(p)!ImportAccounts
      <4>1. p \notin gone /\ UNCHANGED <<cursor, lastBatch>>
        BY <1>3, <2>2 DEF Registry!Claim, claimVars
      <4> QED  BY <2>0, <3>1, <3>2, <4>1 DEF Cursor!ImportAccounts
    <3>4. Cursor(p)!ImportMeanwhile
      BY <1>3, <2>0, <3>3 DEF Cursor!ImportMeanwhile, claimVars, PcOf, ListOf, OffsetOf
    <3> QED  BY <3>4 DEF Cursor!ClaimNext
  <2>3. CASE q # p
    <3>1. Owned(p)' = Owned(p)
      BY <1>3, <2>1, <2>3, PipelineAssumption DEF Owned, Registry!Claim
    <3> QED  BY <1>3, <2>0, <3>1 DEF claimVars, PcOf, ListOf, OffsetOf
  <2> QED  BY <2>2, <2>3
<1>4. ASSUME NEW q \in Profile, DeleteFBProfile(q)
      PROVE  Step
  <2>0. UNCHANGED <<PcOf(p), ListOf(p), OffsetOf(p)>> /\ rowLock' = rowLock
    BY <1>4, MappedSame DEF DeleteFBProfile
  <2>1. CASE q = p
    <3>1. Owned(p)' = {} /\ p \notin gone /\ p \in gone'
      BY <1>4, <2>1, PipelineAssumption
         DEF DeleteFBProfile, Registry!Release, Owned, Live, TypeOK, Registry!TypeOK
    <3>2. cursor'[p] = NoRow /\ lastBatch'[p] = {} /\ lastList'[p] = {}
      BY <1>4, <2>1 DEF DeleteFBProfile, TypeOK
    <3>3. Cursor(p)!DeleteProfile
      BY <3>1, <3>2 DEF Cursor!DeleteProfile, NoRow, Cursor!NoRow
    <3>4. Cursor(p)!DeleteMeanwhile
      BY <1>4, <2>0, <2>1, <3>2, <3>3
         DEF DeleteFBProfile, Cursor!DeleteMeanwhile, PcOf, ListOf, OffsetOf
    <3> QED  BY <3>4 DEF Cursor!ClaimNext
  <2>2. CASE q # p
    <3>1. Owned(p)' = Owned(p) /\ (p \in gone' <=> p \in gone)
      BY <1>4, <2>2, PipelineAssumption
         DEF DeleteFBProfile, Registry!Release, Owned, TypeOK, Registry!TypeOK
    <3>2. cursor'[p] = cursor[p] /\ lastBatch'[p] = lastBatch[p] /\ lastList'[p] = lastList[p]
      BY <1>4, <2>2 DEF DeleteFBProfile, TypeOK
    <3> QED  BY <2>0, <3>1, <3>2 DEF PcOf, ListOf, OffsetOf
  <2> QED  BY <2>1, <2>2
<1>5. ASSUME NEW w \in Worker, ClaimStep(w)
      PROVE  Step
  <2> DEFINE q == run[w].profile
  <2>0. /\ run[w] \in Busy /\ q \in Profile /\ UNCHANGED <<owner, gone>>
        /\ \A v \in Worker \ {w} : run'[v] = run[v]
    BY <1>5, ClaimWrites, ClaimLocks, BusyFields
  <2>1. CASE q # p
    <3>1. UNCHANGED <<cursor[p], lastBatch[p], lastList[p]>>
      BY <1>5, <2>0, <2>1
         DEF ClaimStep, ReadList, InsertRow, LockRow, Advance, Fail, TypeOK, claimVars
    <3>2. rowLock'[p] = rowLock[p] /\ ~ ClaimsFor(w, p) /\ ~ ClaimsFor(w, p)'
      BY <1>5, <2>1, ClaimLocks DEF ClaimsFor
    <3>3. UNCHANGED <<PcOf(p), ListOf(p), OffsetOf(p)>>
      BY <2>0, <3>2, MappedSame
    <3> QED  BY <1>1, <2>0, <3>1, <3>2, <3>3
  <2>2. CASE q = p
    <3>0. /\ Owned(p)' = Owned(p) /\ (p \in gone' <=> p \in gone)
          /\ PcOf(p)' = [PcOf(p) EXCEPT ![w] =
                           IF ClaimsFor(w, p)' THEN run'[w].pc ELSE "idle"]
          /\ ListOf(p)' = [ListOf(p) EXCEPT ![w] =
                             IF ClaimsFor(w, p)' THEN run'[w].list ELSE {}]
          /\ OffsetOf(p)' = [OffsetOf(p) EXCEPT ![w] =
                               IF ClaimsFor(w, p)' THEN run'[w].offset ELSE 0]
      BY <2>0, Mapped DEF Owned
    <3>00. /\ PcOf(p)[w] = IF run[w].pc \in Claiming THEN run[w].pc ELSE "idle"
           /\ ListOf(p)[w] = IF run[w].pc \in Claiming THEN run[w].list ELSE {}
           /\ OffsetOf(p)[w] = IF run[w].pc \in Claiming THEN run[w].offset ELSE 0
           /\ OffsetOf(p) = [OffsetOf(p) EXCEPT ![w] = OffsetOf(p)[w]]
           /\ ListOf(p) = [ListOf(p) EXCEPT ![w] = ListOf(p)[w]]
           /\ PcOf(p) = [PcOf(p) EXCEPT ![w] = PcOf(p)[w]]
      BY <2>2 DEF PcOf, ListOf, OffsetOf, ClaimsFor
    <3>1. CASE ReadList(w) /\ Owned(q) # {}
      <4>1. run'[w] = [run[w] EXCEPT !.pc = "insert", !.list = Owned(p)]
        BY <2>2, <3>1 DEF ReadList, TypeOK
      <4>2. /\ run[w].pc = "claim" /\ run[w].offset = 0 /\ UNCHANGED claimVars
            /\ run'[w].pc = "insert" /\ run'[w].list = Owned(p) /\ run'[w].offset = 0
            /\ run'[w].profile = p
        BY <2>0, <2>2, <3>1, <4>1 DEF ReadList, Held, Claiming, Busy
      <4>3. /\ PcOf(p)' = [PcOf(p) EXCEPT ![w] = "insert"] /\ PcOf(p)[w] = "idle"
            /\ ListOf(p)' = [ListOf(p) EXCEPT ![w] = Owned(p)]
            /\ OffsetOf(p)' = OffsetOf(p)
        BY <3>0, <3>00, <4>2 DEF ClaimsFor, Claiming
      <4>4. Cursor(p)!ReadList(w)
        BY <2>2, <3>0, <3>1, <4>2, <4>3
           DEF Cursor!ReadList, claimVars, PcOf, ListOf, OffsetOf
      <4> QED  BY <4>4 DEF Cursor!ClaimNext
    <3>2. CASE InsertRow(w)
      <4>1. run'[w] = [run[w] EXCEPT !.pc = "lock"]
        BY <3>2 DEF InsertRow, TypeOK
      <4>2. /\ run[w].pc = "insert" /\ run'[w].pc = "lock" /\ run'[w].list = run[w].list
            /\ run'[w].offset = run[w].offset /\ run'[w].profile = p
        BY <2>0, <2>2, <3>2, <4>1 DEF InsertRow, Busy
      <4>3. /\ PcOf(p)' = [PcOf(p) EXCEPT ![w] = "lock"] /\ PcOf(p)[w] = "insert"
            /\ ListOf(p)' = ListOf(p) /\ OffsetOf(p)' = OffsetOf(p)
        BY <3>0, <3>00, <4>2 DEF ClaimsFor, Claiming
      <4>4. /\ UNCHANGED <<cursor[p], lastBatch[p], lastList[p]>> /\ p \notin gone
            /\ \/ cursor[p] # NoRow /\ rowLock'[p] = rowLock[p]
               \/ cursor[p] = NoRow /\ rowLock[p] = NoWorker /\ rowLock'[p] = w
        BY <2>2, <3>2 DEF InsertRow, TypeOK
      <4>5. Cursor(p)!InsertRow(w)
        BY <3>0, <4>3, <4>4
           DEF Cursor!InsertRow, NoRow, Cursor!NoRow, PcOf, ListOf, OffsetOf
      <4> QED  BY <4>5 DEF Cursor!ClaimNext
    <3>3. CASE LockRow(w)
      <4> DEFINE o == Cursor(p)!Offset(cursor[p])
      <4>1. run'[w] = [run[w] EXCEPT !.pc = "update", !.offset = o]
        BY <2>2, <3>3 DEF LockRow, TypeOK
      <4>2. /\ run[w].pc = "lock" /\ run'[w].pc = "update" /\ run'[w].list = run[w].list
            /\ run'[w].offset = o /\ run'[w].profile = p
        <5>1. run[w].pc = "lock"
          BY <3>3 DEF LockRow
        <5> HIDE DEF o
        <5> QED  BY <2>0, <2>2, <4>1, <5>1 DEF Busy
      <4>3. /\ PcOf(p)' = [PcOf(p) EXCEPT ![w] = "update"] /\ PcOf(p)[w] = "lock"
            /\ ListOf(p)' = ListOf(p) /\ OffsetOf(p)' = [OffsetOf(p) EXCEPT ![w] = o]
        <5> HIDE DEF o
        <5> QED  BY <3>0, <3>00, <4>2 DEF ClaimsFor, Claiming
      <4>4. /\ UNCHANGED <<cursor[p], lastBatch[p], lastList[p]>> /\ p \notin gone
            /\ rowLock[p] \in {w, NoWorker} /\ rowLock'[p] = w
        BY <2>2, <3>3 DEF LockRow, TypeOK
      <4>5. Cursor(p)!LockRow(w)
        BY <3>0, <4>3, <4>4 DEF Cursor!LockRow, PcOf, ListOf, OffsetOf
      <4> QED  BY <4>5 DEF Cursor!ClaimNext
    <3>4. CASE Advance(w)
      <4> DEFINE L == run[w].list
                 B == Cursor(p)!BatchOf(L, run[w].offset)
                 n == Cursor(p)!NextOffset(run[w].offset, Cursor(p)!Total(L), Cursor(p)!K)
      <4>1. run[w].pc = "update" /\ run'[w].pc \notin Claiming
        BY <2>0, <3>4 DEF Advance, TypeOK, Busy, Claiming
      <4>2. /\ PcOf(p)' = [PcOf(p) EXCEPT ![w] = "idle"] /\ PcOf(p)[w] = "update"
            /\ ListOf(p)' = [ListOf(p) EXCEPT ![w] = {}] /\ ListOf(p)[w] = L
            /\ OffsetOf(p)' = [OffsetOf(p) EXCEPT ![w] = 0] /\ OffsetOf(p)[w] = run[w].offset
        BY <3>0, <3>00, <4>1 DEF ClaimsFor, Claiming
      <4>3. /\ cursor'[p] = n /\ lastBatch'[p] = B /\ lastList'[p] = L
            /\ rowLock'[p] = IF rowLock[p] = w THEN NoWorker ELSE rowLock[p]
        BY <2>2, <3>4, SameCardinality DEF Advance, EndTx, TypeOK, Cursor!Total
      <4>4. Cursor(p)!Advance(w)
        <5> HIDE DEF L
        <5> QED
          BY <3>0, <4>2, <4>3 DEF Cursor!Advance, PcOf, ListOf, OffsetOf
      <4> QED  BY <4>4 DEF Cursor!ClaimNext
    <3>5. CASE Fail(w) /\ run[w].pc # "idle"
      <4>1. /\ run'[w] = Idle
            /\ rowLock'[p] = IF rowLock[p] = w THEN NoWorker ELSE rowLock[p]
            /\ UNCHANGED <<cursor, lastBatch, lastList>>
        BY <2>2, <3>5 DEF Fail, EndTx, TypeOK
      <4>2. /\ PcOf(p)' = [PcOf(p) EXCEPT ![w] = "idle"]
            /\ ListOf(p)' = [ListOf(p) EXCEPT ![w] = {}]
            /\ OffsetOf(p)' = [OffsetOf(p) EXCEPT ![w] = 0]
        BY <3>0, <4>1 DEF ClaimsFor, Claiming, Idle
      <4>3. CASE run[w].pc \in Claiming
        <5>1. PcOf(p)[w] \in {"insert", "lock", "update"}
          BY <3>00, <4>3 DEF Claiming
        <5>2. Cursor(p)!Rollback(w)
          BY <3>0, <4>1, <4>2, <5>1 DEF Cursor!Rollback, PcOf, ListOf, OffsetOf
        <5> QED  BY <5>2 DEF Cursor!ClaimNext
      <4>4. CASE run[w].pc \notin Claiming
        <5>1. UNCHANGED <<PcOf(p), ListOf(p), OffsetOf(p)>>
          BY <3>00, <4>2, <4>4
        <5>2. rowLock[p] # w
          BY <4>4 DEF Held, ClaimsFor
        <5> QED  BY <1>1, <2>0, <4>1, <5>1, <5>2
      <4> QED  BY <4>3, <4>4
    <3> QED  BY <1>5, <3>1, <3>2, <3>3, <3>4, <3>5 DEF ClaimStep
  <2> QED  BY <2>1, <2>2
<1>6. ASSUME NEW w \in Worker, OtherStep(w), UNCHANGED <<owner, gone, claimVars>>
      PROVE  Step
  <2>1. /\ \A v \in Worker \ {w} : run'[v] = run[v]
        /\ run[w].pc \notin Claiming /\ run'[w].pc \notin Claiming
    BY <1>6 DEF OtherStep, TypeOK
  <2>2. UNCHANGED <<PcOf(p), ListOf(p), OffsetOf(p)>>
    BY <2>1, MappedSame DEF ClaimsFor
  <2> QED  BY <1>1, <1>6, <2>2 DEF claimVars
<1> QED  BY <1>2, <1>3, <1>4, <1>5, <1>6, StepKinds

\* For every profile, what outages, retries, lost workers, imports and deletions do
\* to its claims is a behaviour of CursorClaim, whose theorems are in CursorProofs:
\* the committed offset stays in the list however stale the list was, and a deleted
\* profile gets no cursor row back.
THEOREM PipelineRefinesClaim == Safety => RefinesClaim
<1>1. Init => Held /\ \A p \in Profile : Cursor(p)!ClaimInit
  <2> SUFFICES ASSUME Init PROVE Held /\ \A p \in Profile : Cursor(p)!ClaimInit
    OBVIOUS
  <2>1. Held /\ \A v \in Worker, p \in Profile : ~ ClaimsFor(v, p)
    BY PipelineAssumption DEF Init, Held, ClaimsFor, Claiming, Idle
  <2>2. ASSUME NEW p \in Profile PROVE Cursor(p)!ClaimInit
    <3>1. Cursor(p)!Init
      BY PipelineAssumption DEF Init, Registry!Init, Cursor!Init, Owned, NoRow, Cursor!NoRow
    <3> QED  BY <2>1, <3>1 DEF Init, Cursor!ClaimInit
  <2> QED  BY <2>1, <2>2
<1>2. TypeOK /\ Held /\ [Next]_vars =>
        [\A p \in Profile : [Cursor(p)!ClaimNext]_(Cursor(p)!claimVars)]_vars
  BY CursorStep
<1> QED
  BY <1>1, <1>2, HeldInv, TypeCorrect, PTL DEF Safety, RefinesClaim

-----------------------------------------------------------------------------
(* Two workers and one account. *)

\* The accounts a worker fetches or is about to.
InHand(w) == run[w].list \cup run[w].batch

\* A worker has accounts its profile is primary for in hand, unless the profile
\* has been deleted since it read them.
FetchedByOwner ==
  \A w \in Worker : \A a \in InHand(w) :
    run[w].profile \in gone \/ owner[a] = run[w].profile

\* A step of a worker adds accounts its profile owns, and nothing else.
LEMMA HandGrows ==
  ASSUME TypeOK, Held, NEW w \in Worker, ClaimStep(w) \/ OtherStep(w)
  PROVE  /\ \A v \in Worker \ {w} : run'[v] = run[v]
         /\ \/ InHand(w)' = {}
            \/ /\ run'[w].profile = run[w].profile
               /\ InHand(w)' \subseteq InHand(w) \cup Owned(run[w].profile)
<1>1. CASE OtherStep(w)
  BY <1>1 DEF OtherStep, TypeOK, Held, InHand
<1>2. CASE ClaimStep(w)
  <2>0. /\ run[w] \in Busy
        /\ \A v \in Worker \ {w} : run'[v] = run[v]
    BY <1>2, ClaimWrites, ClaimLocks
  <2>1. CASE ReadList(w) /\ Owned(run[w].profile) # {}
    <3>1. run'[w] = [run[w] EXCEPT !.pc = "insert", !.list = Owned(run[w].profile)]
      BY <2>1 DEF ReadList, TypeOK
    <3> QED  BY <2>0, <3>1 DEF Busy, InHand
  <2>2. CASE InsertRow(w)
    <3>1. run'[w] = [run[w] EXCEPT !.pc = "lock"]
      BY <2>2 DEF InsertRow, TypeOK
    <3> QED  BY <2>0, <3>1 DEF Busy, InHand
  <2>3. CASE LockRow(w)
    <3> DEFINE o == Cursor(run[w].profile)!Offset(cursor[run[w].profile])
    <3>1. run'[w] = [run[w] EXCEPT !.pc = "update", !.offset = o]
      BY <2>3 DEF LockRow, TypeOK
    <3> HIDE DEF o
    <3> QED  BY <2>0, <3>1 DEF Busy, InHand
  <2>4. CASE Advance(w)
    <3> DEFINE B == Cursor(run[w].profile)!BatchOf(run[w].list, run[w].offset)
    <3>1. run'[w] = [run[w] EXCEPT !.pc = "call", !.list = {}, !.offset = 0, !.batch = B]
      BY <2>4 DEF Advance, TypeOK
    <3>2. B \in SUBSET run[w].list
      BY <2>0, BusyFields, AdvanceTypes
    <3> HIDE DEF B
    <3> QED  BY <2>0, <3>1, <3>2 DEF Busy, InHand
  <2>5. CASE Fail(w)
    BY <2>0, <2>5 DEF Fail, TypeOK, InHand, Idle
  <2> QED  BY <1>2, <2>1, <2>2, <2>3, <2>4, <2>5 DEF ClaimStep
<1> QED  BY <1>1, <1>2

LEMMA FetchedByOwnerInv == TypeOK /\ Held /\ FetchedByOwner /\ [Next]_vars => FetchedByOwner'
<1> SUFFICES ASSUME TypeOK, Held, FetchedByOwner, [Next]_vars PROVE FetchedByOwner'
  OBVIOUS
<1>1. ASSUME NEW w \in Worker, ClaimStep(w) \/ OtherStep(w), UNCHANGED <<owner, gone>>
      PROVE  FetchedByOwner'
  BY <1>1, HandGrows DEF FetchedByOwner, InHand, Owned
<1>2. CASE UNCHANGED <<owner, gone, run>>
  BY <1>2 DEF FetchedByOwner, InHand
<1>3. \A w \in Worker : \A a \in InHand(w) : run[w].profile \in Profile /\ a \in Account
  <2> SUFFICES ASSUME NEW w \in Worker, NEW a \in InHand(w)
               PROVE  run[w].profile \in Profile /\ a \in Account
    OBVIOUS
  <2>1. run[w] \in Busy
    BY DEF InHand, TypeOK, Runs, Idle
  <2> QED  BY <2>1, BusyFields DEF InHand
<1>4. ASSUME NEW p \in Profile, NEW S \in SUBSET Account, Registry!Claim(p, S), UNCHANGED run
      PROVE  FetchedByOwner'
  BY <1>3, <1>4, PipelineAssumption DEF FetchedByOwner, InHand, Registry!Claim
<1>5. ASSUME NEW p \in Profile, DeleteFBProfile(p)
      PROVE  FetchedByOwner'
  BY <1>3, <1>5 DEF FetchedByOwner, InHand, DeleteFBProfile, Registry!Release
<1> QED  BY <1>1, <1>2, <1>4, <1>5, StepKinds, ClaimWrites

\* Two workers never fetch one account for two profiles that both exist, however
\* tasks are retried, keys expire, lists go stale and imports race: accounts have
\* one primary, and keep it.
THEOREM NeverFetchedTwice == Safety => []InFlightOnce
<1>1. Init => FetchedByOwner /\ Held
  BY PipelineAssumption DEF Init, FetchedByOwner, InHand, Held, Idle, Claiming
<1>2. FetchedByOwner => InFlightOnce
  BY DEF FetchedByOwner, InHand, InFlightOnce
<1> QED  BY <1>1, <1>2, FetchedByOwnerInv, HeldInv, TypeCorrect, PTL DEF Safety
=============================================================================
