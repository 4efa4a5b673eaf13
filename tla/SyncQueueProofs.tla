-------------------------- MODULE SyncQueueProofs --------------------------
(***************************************************************************)
(* Proofs about the clock of the sync queue, for any number of profiles,    *)
(* any cadence, any retry policy and any number of reconnects: a key costs  *)
(* a profile one tick at most, if the loop of a tick is short enough; and   *)
(* while loops and runs fit the share of a profile and no run fails, every  *)
(* profile that no tick has missed gets its chunk in every window, even in  *)
(* the one in which a reconnect asks for a first sync.                      *)
(***************************************************************************)
EXTENDS SyncQueue, WellFoundedInduction, TLAPS

Delay(p) == staggerDelay(p, Profiles)
Window == uniqueWindow(Cadence)
Share == Cadence \div Profiles

\* Time since the tick.
Elapsed == Cadence - nextTick

-----------------------------------------------------------------------------
(* The arithmetic of the stagger and of the window. *)

LEMMA Multiples ==
  ASSUME NEW m \in Nat, NEW n \in Nat, NEW d \in Nat, m < n
  PROVE  m * d + d <= n * d
<1>1. PICK k \in Nat : n = m + 1 + k
  <2>1. n - m - 1 \in Nat /\ n = m + 1 + (n - m - 1)
    OBVIOUS
  <2> QED BY <2>1
<1>2. n * d = m * d + d + k * d
  BY <1>1
<1>3. k * d \in Nat /\ m * d \in Nat
  BY <1>1
<1> QED BY <1>2, <1>3

LEMMA Quotient ==
  ASSUME NEW x \in Nat, NEW k \in Nat \ {0}
  PROVE  /\ x \div k \in Nat
         /\ k * (x \div k) <= x
OBVIOUS

\* Every profile has a share of the cadence of its own, in the order of the loop.
LEMMA Shares ==
  /\ Share \in Nat /\ Share <= Cadence
  /\ \A p \in Profile : Delay(p) \in Nat /\ Delay(p) + Share <= Cadence
  /\ \A p, q \in Profile : p < q => Delay(p) + Share <= Delay(q)
<1>1. Share \in Nat /\ Profiles * Share <= Cadence
  BY QueueAssumption, Quotient DEF Share
<1>2. \A p \in Profile : Delay(p) = p * Share
  <2> TAKE p \in Profile
  <2>1. CASE p = 0
    <3>1. 0 * Share = 0
      BY <1>1
    <3> QED BY <2>1, <3>1 DEF Delay, staggerDelay
  <2>2. CASE p > 0
    <3>1. Profiles > 1
      BY <2>2, QueueAssumption DEF Profile
    <3> QED BY <2>2, <3>1, QueueAssumption DEF Delay, staggerDelay, Share, Profile
  <2> QED BY <2>1, <2>2, QueueAssumption DEF Profile
<1>3. \A p \in Profile : p \in Nat /\ p < Profiles
  BY QueueAssumption DEF Profile
<1>4. \A p \in Profile : p * Share \in Nat /\ p * Share + Share <= Profiles * Share
  BY <1>1, <1>3, Multiples, QueueAssumption
<1>5. \A p, q \in Profile : p < q => p * Share + Share <= q * Share
  BY <1>1, <1>3, Multiples
<1>6. Share <= Cadence
  <2>1. 0 \in Profile /\ 0 * Share = 0
    BY <1>1, QueueAssumption DEF Profile
  <2>2. Profiles * Share \in Nat
    BY <1>1, QueueAssumption
  <2>3. 0 * Share + Share <= Profiles * Share
    BY <2>1, <1>4
  <2> QED BY <1>1, <2>1, <2>2, <2>3, QueueAssumption
<1>7. Profiles * Share \in Nat
  BY <1>1, QueueAssumption
<1>8. \A p \in Profile : p * Share + Share <= Cadence
  <2> HIDE DEF Share
  <2> TAKE p \in Profile
  <2> QED BY <1>1, <1>4, <1>7, QueueAssumption
<1> HIDE DEF Share
<1> QED BY <1>1, <1>2, <1>4, <1>5, <1>6, <1>8

\* A key outlives its moment by less than a cadence.
LEMMA WindowBound == Window \in 0 .. Cadence
<1>1. Cadence \div 12 \in Nat /\ 12 * (Cadence \div 12) <= Cadence
  BY QueueAssumption, Quotient
<1> QED BY <1>1, QueueAssumption DEF Window, uniqueWindow

LEMMA KeyBound ==
  /\ \A p \in Profile : Delay(p) + Window \in 0 .. 2 * Cadence
  /\ 0 + Window \in 0 .. Cadence
BY Shares, WindowBound, QueueAssumption

\* The loop comes to the profiles in their order.
LEMMA HeadInTodo ==
  ASSUME todo \subseteq Profile, todo # {}
  PROVE  Head \in todo /\ Head \in Profile /\ \A q \in todo : Head <= q
<1>1. \E p \in todo : \A q \in todo : p <= q
  <2> DEFINE R == {ss \in Nat \X Nat : ss[1] < ss[2]}
  <2>1. todo \subseteq Nat
    BY QueueAssumption DEF Profile
  <2>2. IsWellFoundedOn(R, Nat)
    BY NatLessThanWellFounded DEF OpToRel
  <2>3. PICK p \in todo : \A q \in todo : <<q, p>> \notin R
    <3> HIDE DEF R
    <3> QED BY <2>1, <2>2, WFMin
  <2>4. \A q \in todo : ~ (q < p)
    BY <2>1, <2>3
  <2> QED BY <2>1, <2>4
<1> QED BY <1>1 DEF Head

-----------------------------------------------------------------------------
(* A key costs a profile one tick at most. *)

\* The loop of a tick comes to the profiles in their order, and ends in MaxLoop.
Loop ==
  todo # {} => /\ Elapsed <= MaxLoop /\ scheduler # "stopped"
               /\ \A p \in Profile \ todo, q \in todo : p < q

KInv == TypeOK /\ Loop

\* The resyncs of a tick take less time than a key stops short of a cadence.
LoopFits == MaxLoop <= Cadence \div 12

\* Whatever happens, a key is free at the second tick after it was taken.
Released ==
  \A p \in Profile :
    /\ blocked[p] \in 0 .. 1
    /\ IF p \in todo
         THEN keyLeft[p] <= (IF blocked[p] = 0 THEN nextTick ELSE 0)
         ELSE keyLeft[p] <= nextTick + (IF blocked[p] = 0 THEN Cadence ELSE 0)

TaskRecord == [st : {"none", "waiting", "active"}, in : Nat, tries : 0 .. MaxRetry]
Tasks == [Profile -> [Slot -> TaskRecord]]

LEMMA TaskWritten ==
  ASSUME task \in Tasks, NEW p \in Profile, NEW s \in Slot, NEW t \in TaskRecord
  PROVE  [task EXCEPT ![p][s] = t] \in Tasks
BY DEF Tasks

\* A call to enqueue a task of p puts its key into force or leaves it.
LEMMA EnqueueType ==
  ASSUME TypeOK, NEW p \in Profile, NEW d \in Nat, d + Window \in 0 .. 2 * Cadence,
         EnqueueSyncProfile(p, d)
  PROVE  /\ keyLeft' \in [Profile -> 0 .. 2 * Cadence]
         /\ keyOf' \in [Profile -> Slot \cup {0}]
         /\ task' \in Tasks
         /\ \/ keyLeft[p] > 0 /\ keyLeft' = keyLeft
            \/ keyLeft[p] = 0 /\ keyLeft' = [keyLeft EXCEPT ![p] = d + Window]
<1>1. CASE keyLeft[p] > 0 /\ UNCHANGED <<keyLeft, keyOf, task>>
  BY <1>1 DEF TypeOK, Tasks, TaskRecord
<1>2. ASSUME NEW s \in Slot, keyLeft[p] = 0,
             task' = [task EXCEPT ![p][s] = [st |-> "waiting", in |-> d, tries |-> 0]],
             keyOf' = [keyOf EXCEPT ![p] = s],
             keyLeft' = [keyLeft EXCEPT ![p] = d + Window]
      PROVE  /\ keyLeft' \in [Profile -> 0 .. 2 * Cadence]
             /\ keyOf' \in [Profile -> Slot \cup {0}]
             /\ task' \in Tasks
  <2>1. [st |-> "waiting", in |-> d, tries |-> 0] \in TaskRecord
    BY QueueAssumption DEF TaskRecord
  <2>2. task' \in Tasks
    BY <1>2, <2>1, TaskWritten DEF TypeOK, Tasks, TaskRecord
  <2> QED BY <1>2, <2>2 DEF TypeOK
<1> QED BY <1>1, <1>2 DEF EnqueueSyncProfile, Window

LEMMA RetryType ==
  ASSUME TypeOK, NEW p \in Profile, NEW s \in Slot, Retry(p, s) PROVE task' \in Tasks
<1>1. PICK d \in Backoff :
        task' = [task EXCEPT ![p][s] =
          IF task[p][s].tries = MaxRetry THEN Empty
          ELSE [st |-> "waiting", in |-> d, tries |-> task[p][s].tries + 1]]
  BY DEF Retry, TypeOK
<1>2. task[p][s] \in TaskRecord
  BY DEF TypeOK, TaskRecord
<1>3. (IF task[p][s].tries = MaxRetry THEN Empty
       ELSE [st |-> "waiting", in |-> d, tries |-> task[p][s].tries + 1]) \in TaskRecord
  BY <1>2, QueueAssumption DEF TaskRecord, Empty
<1> QED BY <1>1, <1>3, TaskWritten DEF TypeOK, Tasks, TaskRecord

\* A run is of a slot of a profile.
LEMMA RunType ==
  ASSUME TypeOK, running # Nobody
  PROVE  running.profile \in Profile /\ running.slot \in Slot
BY DEF TypeOK

LEMMA TypeInit == Init => TypeOK
<1> SUFFICES ASSUME Init PROVE TypeOK
  OBVIOUS
<1>1. task \in Tasks
  <2>1. Empty \in TaskRecord
    BY QueueAssumption DEF Empty, TaskRecord
  <2> QED BY <2>1 DEF Init, Tasks
<1>2. keyLeft \in [Profile -> 0 .. 2 * Cadence] /\ keyOf \in [Profile -> Slot \cup {0}]
  <2>1. 0 \in 0 .. 2 * Cadence
    BY QueueAssumption
  <2> QED BY <2>1 DEF Init
<1>3. /\ blocked \in [Profile -> Nat] /\ claimed \in [Profile -> {Never} \cup 0 .. Longest]
      /\ chunks \in [Profile -> 0 .. 1]
  BY DEF Init
<1>6. scheduler \in {"starting"} /\ skipped \in [Profile -> {"no", "now", "before"}]
  BY DEF Init
<1>4. nextTick \in 0 .. Cadence /\ reconnects \in 0 .. MaxReconnect
  BY QueueAssumption DEF Init
<1>5. todo \subseteq Profile /\ running \in {Nobody} /\ failed \in BOOLEAN
  BY DEF Init
<1> QED BY <1>1, <1>2, <1>3, <1>4, <1>5, <1>6 DEF TypeOK, Tasks, TaskRecord

LEMMA TypeTick ==
  /\ TypeOK /\ Tick => TypeOK'
  /\ TypeOK /\ TickFails => TypeOK'
<1>1. TypeOK /\ TickComes => /\ nextTick' \in 0 .. Cadence /\ chunks' \in [Profile -> 0 .. 1]
                             /\ UNCHANGED <<queueVars, running, claimed, failed, reconnects>>
  BY QueueAssumption DEF TickComes
<1>2. TypeOK /\ Tick => /\ todo' \subseteq Profile /\ scheduler' = scheduler
                        /\ skipped' \in [Profile -> {"no", "now", "before"}]
  BY DEF Tick, Earlier, TypeOK
<1>3. TypeOK /\ TickFails => /\ todo' \subseteq Profile
                             /\ scheduler' \in {"starting", "running", "stopped"}
                             /\ skipped' \in [Profile -> {"no", "now", "before"}]
  BY DEF TickFails, TickGivesUp, TypeOK
<1> QED BY <1>1, <1>2, <1>3 DEF Tick, TickFails, TypeOK, queueVars

LEMMA TypeLoopPast ==
  ASSUME TypeOK, NEW p, LoopPast(p)
  PROVE  /\ todo' \subseteq Profile /\ nextTick' \in 0 .. Cadence
         /\ scheduler' \in {"starting", "running", "stopped"}
BY QueueAssumption DEF LoopPast, TypeOK

LEMMA EnqueueHead ==
  ASSUME TypeOK, todo # {}, EnqueueSyncProfile(Head, staggerDelay(Head, Profiles))
  PROVE  /\ keyLeft' \in [Profile -> 0 .. 2 * Cadence]
         /\ keyOf' \in [Profile -> Slot \cup {0}]
         /\ task' \in Tasks
         /\ \/ keyLeft[Head] > 0 /\ keyLeft' = keyLeft
            \/ keyLeft[Head] = 0 /\ keyLeft' = [keyLeft EXCEPT ![Head] = Delay(Head) + Window]
<1>1. Head \in todo /\ Head \in Profile
  BY HeadInTodo DEF TypeOK
<1>2. EnqueueSyncProfile(Head, Delay(Head))
  BY DEF Delay
<1>3. Delay(Head) \in Nat /\ Delay(Head) + Window \in 0 .. 2 * Cadence
  BY <1>1, KeyBound, Shares
<1> QED BY <1>1, <1>2, <1>3, EnqueueType

LEMMA TypeEnqueue ==
  /\ TypeOK /\ EnqueueChunk => TypeOK'
  /\ TypeOK /\ SkipProfile => TypeOK'
  /\ TypeOK /\ EnqueueFails => TypeOK'
<1>1. ASSUME TypeOK, EnqueueChunk PROVE TypeOK'
  <2>1. Head \in Profile /\ blocked' \in [Profile -> Nat]
    BY <1>1, HeadInTodo DEF EnqueueChunk, TypeOK
  <2>2. /\ keyLeft' \in [Profile -> 0 .. 2 * Cadence]
        /\ keyOf' \in [Profile -> Slot \cup {0}]
        /\ task' \in Tasks
    BY <1>1, EnqueueHead DEF EnqueueChunk
  <2>3. /\ todo' \subseteq Profile /\ nextTick' \in 0 .. Cadence
        /\ scheduler' \in {"starting", "running", "stopped"}
    BY <1>1, TypeLoopPast DEF EnqueueChunk
  <2> QED BY <1>1, <2>1, <2>2, <2>3 DEF EnqueueChunk, TypeOK, Tasks, TaskRecord
<1>2. ASSUME TypeOK, SkipProfile PROVE TypeOK'
  <2>1. /\ todo' \subseteq Profile /\ nextTick' \in 0 .. Cadence
        /\ scheduler' \in {"starting", "running", "stopped"}
    BY <1>2, TypeLoopPast DEF SkipProfile
  <2>2. skipped' \in [Profile -> {"no", "now", "before"}]
    BY <1>2 DEF SkipProfile, TypeOK
  <2> QED BY <1>2, <2>1, <2>2 DEF SkipProfile, TypeOK, queueVars
<1>3. ASSUME TypeOK, EnqueueFails PROVE TypeOK'
  <2>1. /\ todo' \subseteq Profile
        /\ scheduler' \in {"starting", "running", "stopped"}
        /\ skipped' \in [Profile -> {"no", "now", "before"}]
    BY <1>3 DEF EnqueueFails, TickGivesUp, TypeOK
  <2>2. CASE UNCHANGED queueVars
    BY <1>3, <2>1, <2>2 DEF EnqueueFails, TypeOK, queueVars
  <2>3. CASE /\ EnqueueSyncProfile(Head, staggerDelay(Head, Profiles))
             /\ blocked' = [blocked EXCEPT ![Head] = 0]
    <3>1. /\ keyLeft' \in [Profile -> 0 .. 2 * Cadence]
          /\ keyOf' \in [Profile -> Slot \cup {0}]
          /\ task' \in Tasks
      BY <1>3, <2>3, EnqueueHead DEF EnqueueFails
    <3>2. blocked' \in [Profile -> Nat]
      BY <2>3, <1>3 DEF TypeOK
    <3> QED BY <1>3, <2>1, <3>1, <3>2 DEF EnqueueFails, TypeOK, Tasks, TaskRecord
  <2> QED BY <1>3, <2>2, <2>3 DEF EnqueueFails
<1> QED BY <1>1, <1>2, <1>3

LEMMA TypeOAuth == \A p \in Profile : TypeOK /\ OAuthEnqueue(p) => TypeOK'
<1> SUFFICES ASSUME NEW p \in Profile, TypeOK, OAuthEnqueue(p) PROVE TypeOK'
  OBVIOUS
<1>1. /\ keyLeft' \in [Profile -> 0 .. 2 * Cadence]
      /\ keyOf' \in [Profile -> Slot \cup {0}]
      /\ task' \in Tasks
  BY KeyBound, EnqueueType, QueueAssumption DEF OAuthEnqueue
<1>2. blocked' \in [Profile -> Nat]
  BY DEF OAuthEnqueue, TypeOK
<1>3. reconnects' \in 0 .. MaxReconnect
  BY QueueAssumption DEF OAuthEnqueue, TypeOK
<1> QED BY <1>1, <1>2, <1>3 DEF OAuthEnqueue, TypeOK, Tasks, TaskRecord, tickVars

LEMMA TypeDequeue ==
  \A p \in Profile, s \in Slot : TypeOK /\ Dequeue(p, s) => TypeOK'
<1> SUFFICES ASSUME NEW p \in Profile, NEW s \in Slot, TypeOK, Dequeue(p, s) PROVE TypeOK'
  OBVIOUS
<1>1. task' \in Tasks
  <2>1. task[p][s] \in TaskRecord
    BY DEF TypeOK, TaskRecord
  <2>2. [task[p][s] EXCEPT !.st = "active"] \in TaskRecord
    BY <2>1 DEF TaskRecord
  <2>3. task' = [task EXCEPT ![p][s] = [task[p][s] EXCEPT !.st = "active"]]
    BY DEF Dequeue, TypeOK
  <2> QED BY <2>2, <2>3, TaskWritten DEF TypeOK, Tasks, TaskRecord
<1>2. running' \in [profile : Profile, slot : Slot, age : 0 .. MaxDuration]
  BY QueueAssumption DEF Dequeue
<1>3. claimed' \in [Profile -> {Never} \cup 0 .. Longest]
  BY QueueAssumption DEF Dequeue, TypeOK, Longest
<1>4. skipped' \in [Profile -> {"no", "now", "before"}]
  BY DEF Dequeue, TypeOK
<1> QED BY <1>4, <1>1, <1>2, <1>3 DEF Dequeue, TypeOK, Tasks, TaskRecord

LEMMA TypeSucceed == TypeOK /\ Succeed => TypeOK'
<1> SUFFICES ASSUME TypeOK, Succeed PROVE TypeOK'
  OBVIOUS
<1>1. running.profile \in Profile /\ running.slot \in Slot
  BY RunType DEF Succeed
<1>2. task' \in Tasks
  <2>1. Empty \in TaskRecord
    BY QueueAssumption DEF Empty, TaskRecord
  <2> QED BY <1>1, <2>1, TaskWritten DEF Succeed, TypeOK, Tasks, TaskRecord
<1>3. keyLeft' \in [Profile -> 0 .. 2 * Cadence] /\ keyOf' \in [Profile -> Slot \cup {0}]
  BY <1>1, QueueAssumption DEF Succeed, TypeOK
<1>4. chunks' \in [Profile -> 0 .. 1]
  BY <1>1 DEF Succeed, TypeOK
<1> QED BY <1>2, <1>3, <1>4 DEF Succeed, TypeOK, Tasks, TaskRecord, tickVars

LEMMA TypeFail ==
  /\ TypeOK /\ Fail => TypeOK'
  /\ \A p \in Profile, s \in Slot : TypeOK /\ FailEarly(p, s) => TypeOK'
<1>1. ASSUME TypeOK, Fail PROVE TypeOK'
  <2>1. task' \in Tasks
    BY <1>1, RunType, RetryType DEF Fail
  <2> QED BY <1>1, <2>1 DEF Fail, TypeOK, Tasks, TaskRecord, tickVars
<1>2. ASSUME NEW p \in Profile, NEW s \in Slot, TypeOK, FailEarly(p, s) PROVE TypeOK'
  <2>1. task' \in Tasks
    BY <1>2, RetryType DEF FailEarly
  <2> QED BY <1>2, <2>1 DEF FailEarly, TypeOK, Tasks, TaskRecord, tickVars
<1> QED BY <1>1, <1>2

LEMMA TypeElapse == TypeOK /\ Elapse => TypeOK'
<1> SUFFICES ASSUME TypeOK, Elapse PROVE TypeOK'
  OBVIOUS
<1>1. nextTick' \in 0 .. Cadence
  BY QueueAssumption DEF Elapse, TypeOK
<1>2. keyLeft' \in [Profile -> 0 .. 2 * Cadence]
  <2>1. ASSUME NEW p \in Profile
        PROVE  (IF keyLeft[p] = 0 THEN 0 ELSE keyLeft[p] - 1) \in 0 .. 2 * Cadence
    <3>1. keyLeft[p] \in 0 .. 2 * Cadence
      BY DEF TypeOK
    <3> QED BY <3>1, QueueAssumption
  <2> QED BY <2>1 DEF Elapse
<1>3. task' \in Tasks
  <2>1. ASSUME NEW p \in Profile, NEW s \in Slot
        PROVE  [task[p][s] EXCEPT !.in = IF @ = 0 THEN 0 ELSE @ - 1] \in TaskRecord
    <3>1. task[p][s] \in TaskRecord
      BY DEF TypeOK, TaskRecord
    <3> QED BY <3>1 DEF TaskRecord
  <2> QED BY <2>1 DEF Elapse, Tasks
<1>4. running' \in {Nobody} \cup [profile : Profile, slot : Slot, age : 0 .. MaxDuration]
  <2>1. CASE running = Nobody
    BY <2>1 DEF Elapse
  <2>2. CASE running # Nobody
    <3>1. running \in [profile : Profile, slot : Slot, age : 0 .. MaxDuration]
      BY <2>2 DEF TypeOK
    <3>2. running' = [running EXCEPT !.age = @ + 1] /\ running.age < MaxDuration
      BY <2>2 DEF Elapse
    <3>3. running.age + 1 \in 0 .. MaxDuration
      BY <3>1, <3>2, QueueAssumption
    <3> QED BY <3>1, <3>2, <3>3
  <2> QED BY <2>1, <2>2
<1>5. claimed' \in [Profile -> {Never} \cup 0 .. Longest]
  <2>1. ASSUME NEW p \in Profile
        PROVE  (IF claimed[p] \in {Never, Longest} THEN claimed[p] ELSE claimed[p] + 1)
                 \in {Never} \cup 0 .. Longest
    <3>1. claimed[p] \in {Never} \cup 0 .. Longest /\ Longest \in Nat
      BY QueueAssumption DEF TypeOK, Longest
    <3> HIDE DEF Longest
    <3> QED BY <3>1
  <2> QED BY <2>1 DEF Elapse
<1> QED BY <1>1, <1>2, <1>3, <1>4, <1>5 DEF Elapse, TypeOK, Tasks, TaskRecord

LEMMA TypeStep == TypeOK /\ [Next]_vars => TypeOK'
<1>1. TypeOK /\ UNCHANGED vars => TypeOK'
  BY DEF TypeOK, vars, queueVars, tickVars
<1> QED BY <1>1, TypeTick, TypeEnqueue, TypeOAuth, TypeDequeue, TypeSucceed, TypeFail,
           TypeElapse DEF Next

\* The loop leaves a profile behind, or the last of them, and its clock is not
\* turned back but when the first loop is over.
LEMMA LoopGoesOn ==
  ASSUME KInv, todo # {}
  PROVE  /\ LoopPast(Head) =>
              /\ Head \in todo /\ Head \in Profile /\ todo' = todo \ {Head}
              /\ \A p \in Profile \ todo' : p <= Head /\ (p = Head \/ p \notin todo)
              /\ \A q \in todo' : Head < q
              /\ nextTick' = nextTick \/ (todo' = {} /\ nextTick' = Cadence)
         /\ TickGivesUp => todo' = {}
<1>1. Head \in todo /\ Head \in Profile /\ \A q \in todo : Head <= q
  BY HeadInTodo DEF KInv, TypeOK
<1>2. todo \subseteq Profile /\ Profile \subseteq Int
  BY QueueAssumption DEF KInv, TypeOK, Profile
<1>3. \A p \in Profile \ todo : p < Head
  BY <1>1 DEF KInv, Loop
<1>4. ASSUME LoopPast(Head)
      PROVE  /\ todo' = todo \ {Head}
             /\ nextTick' = nextTick \/ (todo' = {} /\ nextTick' = Cadence)
  BY <1>4 DEF LoopPast
<1>5. ASSUME LoopPast(Head), NEW p \in Profile \ todo' PROVE p <= Head /\ (p = Head \/ p \notin todo)
  BY <1>1, <1>2, <1>3, <1>4, <1>5
<1>6. ASSUME LoopPast(Head), NEW q \in todo' PROVE Head < q
  <2>1. q \in todo /\ q # Head
    BY <1>4, <1>6
  <2>2. Head <= q /\ Head \in Int /\ q \in Int
    BY <1>1, <1>2, <2>1
  <2> QED BY <2>1, <2>2
<1> QED BY <1>1, <1>4, <1>5, <1>6 DEF TickGivesUp

LEMMA LoopStep == ASSUME KInv, TypeOK', [Next]_vars PROVE Loop'
<1> USE DEF KInv
<1>1. CASE Tick \/ TickFails
  <2>1. nextTick' = Cadence /\ (todo' = {} \/ (todo' = Profile /\ scheduler' # "stopped"))
    BY <1>1 DEF Tick, TickFails, TickComes, TickGivesUp
  <2>2. Elapsed' = 0
    BY <2>1, QueueAssumption DEF Elapsed
  <2> QED BY <2>1, <2>2, QueueAssumption DEF Loop
<1>2. CASE EnqueueChunk \/ SkipProfile
  <2>1. todo # {} /\ LoopPast(Head)
    BY <1>2 DEF EnqueueChunk, SkipProfile
  <2>2. /\ todo' = todo \ {Head} /\ \A q \in todo' : Head < q
        /\ \A p \in Profile \ todo' : p <= Head
        /\ todo' # {} => nextTick' = nextTick /\ scheduler' = scheduler
    BY <2>1, LoopGoesOn DEF LoopPast
  <2>3. \A p \in Profile \ todo', q \in todo' : p < q
    <3>1. Head \in Int /\ Profile \subseteq Int /\ todo' \subseteq Profile
      BY <2>1, <2>2, HeadInTodo, QueueAssumption DEF TypeOK, Profile
    <3>2. ASSUME NEW p \in Profile \ todo', NEW q \in todo' PROVE p < q
      <4>1. p <= Head /\ Head < q /\ p \in Int /\ q \in Int
        BY <2>2, <3>1, <3>2
      <4> QED BY <3>1, <4>1
    <3> QED BY <3>2
  <2> QED BY <2>1, <2>2, <2>3 DEF Loop, Elapsed
<1>3. CASE EnqueueFails
  BY <1>3 DEF EnqueueFails, TickGivesUp, Loop
<1>4. CASE Elapse
  <2>1. todo # {} => nextTick' = nextTick - 1 /\ Cadence - nextTick < MaxLoop
    BY <1>4 DEF Elapse, Loop
  <2>2. todo # {} => Elapsed' <= MaxLoop
    <3>1. nextTick \in Int /\ MaxLoop \in Int /\ Cadence \in Int
      BY QueueAssumption DEF TypeOK
    <3> QED BY <2>1, <3>1 DEF Elapsed
  <2> QED BY <1>4, <2>2 DEF Elapse, Loop
<1>5. CASE UNCHANGED <<scheduler, nextTick, todo>>
  BY <1>5 DEF Loop, Elapsed
<1>6. ASSUME NEW p \in Profile, NEW s \in Slot, Dequeue(p, s) \/ FailEarly(p, s)
      PROVE  UNCHANGED <<scheduler, nextTick, todo>>
  BY <1>6 DEF Dequeue, FailEarly, tickVars
<1>7. Fail \/ Succeed \/ UNCHANGED vars => UNCHANGED <<scheduler, nextTick, todo>>
  BY DEF Fail, Succeed, vars, tickVars
<1>8. \A p \in Profile : OAuthEnqueue(p) => UNCHANGED <<scheduler, nextTick, todo>>
  BY DEF OAuthEnqueue, tickVars
<1> QED BY <1>1, <1>2, <1>3, <1>4, <1>5, <1>6, <1>7, <1>8 DEF Next

LEMMA LoopInvariant == Spec => []KInv
<1>1. Init => KInv
  BY TypeInit DEF Init, Loop, KInv
<1>2. KInv /\ [Next]_vars => KInv'
  BY TypeStep, LoopStep DEF KInv
<1> QED BY <1>1, <1>2, PTL DEF Spec

\* No profile is kept from two ticks in a row: the bound on its key moves on with
\* the ticks.
LEMMA ReleasedStep ==
  ASSUME LoopFits, KInv, KInv', Released, [Next]_vars PROVE Released'
<1> USE DEF KInv
<1>0. /\ nextTick \in Nat /\ nextTick' \in Nat /\ Cadence \in Nat /\ MaxLoop \in Nat
      /\ todo \subseteq Profile
      /\ \A p \in Profile : keyLeft[p] \in Nat /\ keyLeft'[p] \in Nat
  BY QueueAssumption DEF TypeOK
<1>1. CASE Tick \/ TickFails
  BY <1>0, <1>1 DEF Tick, TickFails, TickComes, TickGivesUp, Released, queueVars
\* The loop goes on to todo', or ends, and leaves the keys alone.
<1>2. ASSUME todo # {}, todo' \subseteq todo, keyLeft' = keyLeft, blocked' = blocked,
             nextTick <= nextTick', todo' # {} => nextTick' = nextTick
      PROVE  Released'
  <2>1. ASSUME NEW p \in Profile
        PROVE  /\ blocked'[p] \in 0 .. 1
               /\ IF p \in todo'
                    THEN keyLeft'[p] <= (IF blocked'[p] = 0 THEN nextTick' ELSE 0)
                    ELSE keyLeft'[p] <= nextTick' + (IF blocked'[p] = 0 THEN Cadence ELSE 0)
    BY <1>0, <1>2, <2>1 DEF Released
  <2> QED BY <2>1 DEF Released
\* The loop goes on, and queues a task of the profile it has come to.
<1>3. ASSUME todo # {}, Head \in todo, Head \in Profile, todo' \subseteq todo, Head \notin todo',
             nextTick <= nextTick', todo' # {} => nextTick' = nextTick,
             keyLeft' = [keyLeft EXCEPT ![Head] = Delay(Head) + Window],
             blocked' = [blocked EXCEPT ![Head] = 0]
      PROVE  Released'
  <2>1. Delay(Head) \in Nat /\ Delay(Head) <= Cadence
    BY <1>0, <1>3, Shares
  <2>2. Window \in Nat /\ Window <= Cadence - MaxLoop
    <3>1. Cadence \div 12 \in Nat
      BY <1>0, Quotient
    <3> QED BY <1>0, <3>1, WindowBound DEF Window, uniqueWindow, LoopFits
  <2>3. Cadence - MaxLoop <= nextTick
    BY <1>0, <1>3 DEF Loop, Elapsed
  <2>4. keyLeft'[Head] = Delay(Head) + Window /\ blocked'[Head] = 0
    BY <1>3 DEF TypeOK
  <2>5. keyLeft'[Head] <= nextTick' + Cadence
    <3> HIDE DEF Window
    <3> QED BY <1>0, <1>3, <2>1, <2>2, <2>3, <2>4
  <2>6. ASSUME NEW p \in Profile, p # Head
        PROVE  /\ blocked'[p] \in 0 .. 1
               /\ IF p \in todo'
                    THEN keyLeft'[p] <= (IF blocked'[p] = 0 THEN nextTick' ELSE 0)
                    ELSE keyLeft'[p] <= nextTick' + (IF blocked'[p] = 0 THEN Cadence ELSE 0)
    <3>1. keyLeft'[p] = keyLeft[p] /\ blocked'[p] = blocked[p]
      BY <1>3, <2>6 DEF TypeOK
    <3> QED BY <1>0, <1>3, <2>6, <3>1 DEF Released
  <2> QED BY <1>3, <2>4, <2>5, <2>6 DEF Released
<1>4. CASE EnqueueChunk
  <2>1. todo # {} /\ LoopPast(Head) /\ EnqueueSyncProfile(Head, staggerDelay(Head, Profiles))
        /\ blocked' = [blocked EXCEPT ![Head] = IF keyLeft[Head] > 0 THEN @ + 1 ELSE 0]
    BY <1>4 DEF EnqueueChunk
  <2>2. /\ Head \in todo /\ Head \in Profile /\ todo' = todo \ {Head} /\ nextTick <= nextTick'
        /\ todo' # {} => nextTick' = nextTick
    BY <1>0, <2>1, LoopGoesOn DEF TypeOK
  <2>3. \/ keyLeft[Head] > 0 /\ keyLeft' = keyLeft
        \/ keyLeft[Head] = 0 /\ keyLeft' = [keyLeft EXCEPT ![Head] = Delay(Head) + Window]
    BY <2>1, EnqueueHead
  <2>4. CASE keyLeft[Head] > 0
    <3>1. blocked[Head] = 0 /\ keyLeft[Head] <= nextTick
      BY <1>0, <2>2, <2>4 DEF Released
    <3>2. blocked'[Head] = 1 /\ keyLeft' = keyLeft
      BY <2>1, <2>2, <2>3, <2>4, <3>1 DEF TypeOK
    <3>3. \A p \in Profile \ {Head} : blocked'[p] = blocked[p]
      BY <2>1 DEF TypeOK
    <3>4. ASSUME NEW p \in Profile, p # Head
          PROVE  /\ blocked'[p] \in 0 .. 1
                 /\ IF p \in todo'
                      THEN keyLeft'[p] <= (IF blocked'[p] = 0 THEN nextTick' ELSE 0)
                      ELSE keyLeft'[p] <= nextTick' + (IF blocked'[p] = 0 THEN Cadence ELSE 0)
      BY <1>0, <2>2, <3>2, <3>3, <3>4 DEF Released
    <3>5. Head \notin todo' /\ keyLeft'[Head] <= nextTick'
      BY <1>0, <2>2, <3>1, <3>2
    <3> QED BY <1>0, <3>2, <3>4, <3>5 DEF Released
  <2>5. CASE keyLeft[Head] = 0
    <3>1. blocked' = [blocked EXCEPT ![Head] = 0]
      BY <2>1, <2>5
    <3> QED BY <1>3, <2>1, <2>2, <2>3, <2>5, <3>1
  <2> QED BY <1>0, <2>2, <2>4, <2>5
<1>5. CASE SkipProfile
  <2>1. todo # {} /\ LoopPast(Head) /\ keyLeft' = keyLeft /\ blocked' = blocked
    BY <1>5 DEF SkipProfile, queueVars
  <2>2. /\ todo' = todo \ {Head} /\ nextTick <= nextTick'
        /\ todo' # {} => nextTick' = nextTick
    BY <1>0, <2>1, LoopGoesOn DEF TypeOK
  <2> QED BY <1>2, <2>1, <2>2
<1>6. CASE EnqueueFails
  <2>1. todo # {} /\ todo' = {} /\ nextTick' = nextTick /\ nextTick <= nextTick'
    BY <1>0, <1>6 DEF EnqueueFails, TickGivesUp
  <2>2. CASE UNCHANGED queueVars
    BY <1>2, <2>1, <2>2 DEF queueVars
  <2>3. CASE /\ keyLeft[Head] = 0
             /\ EnqueueSyncProfile(Head, staggerDelay(Head, Profiles))
             /\ blocked' = [blocked EXCEPT ![Head] = 0]
    <3>1. keyLeft' = [keyLeft EXCEPT ![Head] = Delay(Head) + Window]
      BY <2>1, <2>3, EnqueueHead
    <3>2. Head \in todo /\ Head \in Profile
      BY <1>0, <2>1, HeadInTodo
    <3> QED BY <1>3, <2>1, <2>3, <3>1, <3>2
  <2> QED BY <1>6, <2>2, <2>3 DEF EnqueueFails
<1>7. ASSUME NEW p \in Profile, OAuthEnqueue(p) PROVE Released'
  <2>1. \/ keyLeft[p] > 0 /\ keyLeft' = keyLeft
        \/ keyLeft[p] = 0 /\ keyLeft' = [keyLeft EXCEPT ![p] = 0 + Window]
    BY <1>7, KeyBound, EnqueueType, QueueAssumption DEF OAuthEnqueue
  <2>2. /\ todo' = todo /\ nextTick' = nextTick
        /\ blocked' = [blocked EXCEPT ![p] = IF keyLeft[p] > 0 THEN blocked[p] ELSE 0]
    BY <1>7 DEF OAuthEnqueue, TypeOK, tickVars
  <2>3. CASE keyLeft[p] > 0
    <3>1. keyLeft' = keyLeft /\ blocked' = blocked
      BY <1>0, <2>1, <2>2, <2>3 DEF TypeOK
    <3> QED BY <2>2, <3>1 DEF Released
  <2>4. CASE keyLeft[p] = 0
    <3>1. Window \in Nat /\ Window <= Cadence - MaxLoop
      <4>1. Cadence \div 12 \in Nat
        BY <1>0, Quotient
      <4> QED BY <1>0, <4>1, WindowBound DEF Window, uniqueWindow, LoopFits
    <3>2. p \in todo => Cadence - MaxLoop <= nextTick
      BY <1>0 DEF Loop, Elapsed
    <3>3. blocked'[p] = 0 /\ keyLeft'[p] = Window
      <4> HIDE DEF Window
      <4> QED BY <2>1, <2>2, <2>4, <3>1 DEF TypeOK
    <3>4. \A q \in Profile \ {p} : keyLeft'[q] = keyLeft[q] /\ blocked'[q] = blocked[q]
      BY <2>1, <2>2, <2>4 DEF TypeOK
    <3>5. keyLeft'[p] <= nextTick + Cadence /\ (p \in todo => keyLeft'[p] <= nextTick)
      <4> HIDE DEF Window
      <4> QED BY <1>0, <3>1, <3>2, <3>3
    <3>6. \A q \in Profile \ {p} :
            /\ blocked'[q] \in 0 .. 1
            /\ IF q \in todo'
                 THEN keyLeft'[q] <= (IF blocked'[q] = 0 THEN nextTick' ELSE 0)
                 ELSE keyLeft'[q] <= nextTick' + (IF blocked'[q] = 0 THEN Cadence ELSE 0)
      BY <2>2, <3>4 DEF Released
    <3> QED BY <2>2, <3>3, <3>5, <3>6 DEF Released
  <2> QED BY <1>0, <2>3, <2>4
<1>8. CASE Succeed
  <2>1. \A p \in Profile : keyLeft'[p] = keyLeft[p] \/ keyLeft'[p] = 0
    BY <1>8 DEF Succeed, TypeOK
  <2>2. UNCHANGED <<todo, blocked, nextTick>>
    BY <1>8 DEF Succeed, tickVars
  <2>3. ASSUME NEW p \in Profile
        PROVE  /\ blocked'[p] \in 0 .. 1
               /\ IF p \in todo'
                    THEN keyLeft'[p] <= (IF blocked'[p] = 0 THEN nextTick' ELSE 0)
                    ELSE keyLeft'[p] <= nextTick' + (IF blocked'[p] = 0 THEN Cadence ELSE 0)
    <3>1. keyLeft'[p] <= keyLeft[p]
      BY <1>0, <2>1
    <3> QED BY <1>0, <2>2, <3>1 DEF Released
  <2> QED BY <2>3 DEF Released
<1>9. CASE Elapse
  <2>1. /\ todo' = todo /\ blocked' = blocked /\ nextTick - 1 <= nextTick'
        /\ \A p \in Profile :
             keyLeft'[p] = (IF keyLeft[p] = 0 THEN 0 ELSE keyLeft[p] - 1)
    BY <1>0, <1>9 DEF Elapse
  <2>2. ASSUME NEW p \in Profile
        PROVE  /\ blocked'[p] \in 0 .. 1
               /\ IF p \in todo'
                    THEN keyLeft'[p] <= (IF blocked'[p] = 0 THEN nextTick' ELSE 0)
                    ELSE keyLeft'[p] <= nextTick' + (IF blocked'[p] = 0 THEN Cadence ELSE 0)
    <3>1. keyLeft'[p] = (IF keyLeft[p] = 0 THEN 0 ELSE keyLeft[p] - 1)
      BY <2>1
    <3>2. /\ blocked[p] \in 0 .. 1
          /\ IF p \in todo
               THEN keyLeft[p] <= (IF blocked[p] = 0 THEN nextTick ELSE 0)
               ELSE keyLeft[p] <= nextTick + (IF blocked[p] = 0 THEN Cadence ELSE 0)
      BY DEF Released
    <3> QED BY <1>0, <2>1, <3>1, <3>2
  <2> QED BY <2>2 DEF Released
<1>10. CASE UNCHANGED <<todo, nextTick, keyLeft, blocked>>
  BY <1>10 DEF Released
<1>11. ASSUME NEW p \in Profile, NEW s \in Slot, Dequeue(p, s) \/ FailEarly(p, s)
       PROVE  UNCHANGED <<todo, nextTick, keyLeft, blocked>>
  BY <1>11 DEF Dequeue, FailEarly, tickVars
<1>12. Fail \/ UNCHANGED vars => UNCHANGED <<todo, nextTick, keyLeft, blocked>>
  BY DEF Fail, vars, queueVars, tickVars
<1> QED BY <1>1, <1>4, <1>5, <1>6, <1>7, <1>8, <1>9, <1>10, <1>11, <1>12 DEF Next

\* Tasks, keys and clocks are typed: no key is ever held for more than two
\* cadences.
THEOREM QueueTypeCorrect == Spec => []TypeOK
<1>1. KInv => TypeOK
  BY DEF KInv
<1> QED BY <1>1, LoopInvariant, PTL

\* Whatever fails, however long it is retried, whatever the ticks miss and whenever
\* reconnects ask for a first sync, no profile is kept from two ticks in a row, if
\* no loop takes more than a twelfth of the cadence: the key stops short of a
\* cadence by as much.
THEOREM OneTickLost == LoopFits => (Spec => []BlockedOnce)
<1> SUFFICES ASSUME LoopFits PROVE Spec => []BlockedOnce
  OBVIOUS
<1>1. Init => Released
  BY QueueAssumption DEF Init, Released
<1>2. KInv /\ KInv' /\ Released /\ [Next]_vars => Released'
  BY ReleasedStep
<1>3. Released => BlockedOnce
  BY DEF Released, BlockedOnce
<1> QED BY <1>1, <1>2, <1>3, LoopInvariant, PTL DEF Spec

-----------------------------------------------------------------------------
(* While runs fit the share of a profile and nothing is out of the ordinary, *)
(* every profile gets its chunk in its share of the window.                  *)

FitsShare == MaxLoop + MaxDuration < Share

\* No run has failed and no first sync was asked for.
Undisturbed == ~failed /\ reconnects = 0

Ticking == scheduler # "stopped"

Running(p) == running # Nobody /\ running.profile = p

NoTask(p) == task[p] = [s \in Slot |-> Empty] /\ keyLeft[p] = 0

OneTask(p, s, t) ==
  /\ s \in Slot /\ keyOf[p] = s
  /\ task[p] = [r \in Slot |-> IF r = s THEN t ELSE Empty]

\* The life of a chunk in its window: the loop has not come to its profile yet;
\* it waits for its moment, which was o ago; it is run at once when that has come;
\* and it is done, or was missed, before the next profile is due.
Listed(p) ==
  /\ NoTask(p) /\ chunks[p] = 0 /\ skipped[p] # "now"
  /\ skipped[p] = "no" /\ claimed[p] # Never =>
       claimed[p] - Elapsed + Delay(p) \in Cadence - MaxLoop .. Cadence + MaxLoop

Waits(p, o) ==
  /\ \E s \in Slot : OneTask(p, s, [st |-> "waiting", in |-> 0 - o, tries |-> 0])
  /\ o <= 0
  /\ skipped[p] = "no" /\ claimed[p] # Never =>
       claimed[p] - o \in Cadence - MaxLoop .. Longest

Runs(p, o) ==
  /\ OneTask(p, running.slot, [st |-> "active", in |-> 0, tries |-> 0])
  /\ running.age = o /\ claimed[p] = o

Done(p, o) ==
  /\ NoTask(p) /\ (chunks[p] = 1 \/ skipped[p] = "now")
  /\ skipped[p] = "no" => \/ claimed[p] = o /\ o >= 0
                          \/ claimed[p] = Never /\ nextTick = 0

Timely(p, o) ==
  \/ p \in todo /\ ~Running(p) /\ Listed(p)
  \/ p \notin todo /\ ~Running(p) /\ (Waits(p, o) \/ Done(p, o))
  \/ p \notin todo /\ Running(p) /\ Runs(p, o)

\* The moments of the window, each o[p] ago: they follow the loop, a share apart.
\* The window counts from its tick, the first one from the end of the first loop.
Placed(o) ==
  /\ o \in [Profile -> Int]
  /\ \A p \in Profile \ todo :
       /\ Elapsed - o[p] \in Delay(p) - MaxLoop .. Delay(p) + MaxLoop
       /\ todo # {} => Delay(p) <= Elapsed - o[p] /\ 0 - o[p] <= Delay(p)
       /\ \A q \in Profile \ todo : p < q => o[q] + Share <= o[p]

OnTimeBy(o) == Placed(o) /\ \A p \in Profile : Timely(p, o[p])

OnTime == \E o \in [Profile -> Int] : OnTimeBy(o)

NoneBlocked == \A p \in Profile : blocked[p] = 0

QInv == KInv /\ (Undisturbed => NoneBlocked /\ (Ticking => OnTime))

\* What the life of a chunk is made of.
SameChunk(p) ==
  /\ task'[p] = task[p] /\ keyLeft'[p] = keyLeft[p] /\ keyOf'[p] = keyOf[p]
  /\ chunks'[p] = chunks[p] /\ claimed'[p] = claimed[p] /\ skipped'[p] = skipped[p]
  /\ (p \in todo' <=> p \in todo)

LEMMA Clock ==
  ASSUME KInv
  PROVE  /\ Elapsed \in Nat /\ Elapsed <= Cadence /\ nextTick \in Nat
         /\ nextTick = 0 => Elapsed = Cadence
         /\ todo # {} => Elapsed <= MaxLoop
         /\ \A p \in Profile : keyLeft[p] \in Nat /\ Delay(p) \in Nat
         /\ Share \in Nat /\ MaxLoop \in Nat /\ MaxDuration \in Nat /\ Cadence \in Nat
BY Shares, QueueAssumption DEF KInv, TypeOK, Loop, Elapsed

\* The moments of two profiles are a share apart.
LEMMA Distant ==
  ASSUME NEW o, Placed(o), NEW p \in Profile \ todo, NEW q \in Profile \ todo, p # q
  PROVE  o[p] + Share <= o[q] \/ o[q] + Share <= o[p]
<1>1. p < q \/ q < p
  BY QueueAssumption DEF Profile
<1> QED BY <1>1 DEF Placed

\* The loop comes to the profiles of T, or gives them up, and places them.
LEMMA Place ==
  ASSUME KInv, todo # {}, NEW o, Placed(o), NEW T, T \subseteq todo, todo' = todo \ T,
         \A p \in Profile \ todo', q \in todo' : p < q,
         nextTick' = nextTick \/ (todo' = {} /\ nextTick' = Cadence)
  PROVE  Placed([p \in Profile |-> IF p \in T THEN 0 - Delay(p) ELSE o[p]])'
<1> DEFINE n == [p \in Profile |-> IF p \in T THEN 0 - Delay(p) ELSE o[p]]
<1>1. /\ Elapsed \in Nat /\ Elapsed <= MaxLoop /\ MaxLoop \in Nat /\ Share \in Nat
      /\ \A p \in Profile : Delay(p) \in Nat
      /\ \A p \in Profile : o[p] \in Int
      /\ Elapsed' = Elapsed \/ (todo' = {} /\ Elapsed' = 0)
  BY Clock, QueueAssumption DEF Placed, Elapsed
<1>2. \A p \in Profile : n[p] = IF p \in T THEN 0 - Delay(p) ELSE o[p]
  OBVIOUS
<1>3. n \in [Profile -> Int]
  BY <1>1
<1> HIDE DEF n
<1>4. ASSUME NEW p \in Profile \ todo'
      PROVE  Delay(p) <= Elapsed - n[p] /\ 0 - n[p] <= Delay(p)
  <2>1. CASE p \in T
    BY <1>1, <1>2, <2>1
  <2>2. CASE p \notin T
    <3>1. p \in Profile \ todo /\ n[p] = o[p]
      BY <1>2, <2>2
    <3> QED BY <3>1 DEF Placed
  <2> QED BY <2>1, <2>2
<1>5. ASSUME NEW p \in Profile \ todo', NEW q \in Profile \ todo', p < q
      PROVE  n[q] + Share <= n[p]
  <2>1. CASE q \in T
    <3>1. Delay(p) + Share <= Delay(q)
      BY <1>5, Shares
    <3>2. 0 - n[p] <= Delay(p) /\ n[q] = 0 - Delay(q)
      BY <1>2, <1>4, <2>1
    <3>3. n[p] \in Int /\ n[q] \in Int /\ Delay(p) \in Int /\ Delay(q) \in Int
      BY <1>1, <1>3
    <3> QED BY <1>1, <3>1, <3>2, <3>3
  <2>2. CASE q \notin T
    <3>1. q \in Profile \ todo /\ p \in Int /\ q \in Int
      BY <2>2, QueueAssumption DEF Profile
    <3>2. p \in T => q < p
      BY <3>1 DEF KInv, Loop
    <3>3. p \notin T
      BY <1>5, <3>1, <3>2
    <3>4. p \in Profile \ todo /\ n[p] = o[p] /\ n[q] = o[q]
      BY <1>2, <2>2, <3>1, <3>3
    <3> QED BY <1>5, <3>1, <3>4 DEF Placed
  <2> QED BY <2>1, <2>2
<1>6. ASSUME NEW p \in Profile \ todo'
      PROVE  /\ Elapsed' - n[p] \in Delay(p) - MaxLoop .. Delay(p) + MaxLoop
             /\ todo' # {} => Delay(p) <= Elapsed' - n[p] /\ 0 - n[p] <= Delay(p)
  BY <1>1, <1>3, <1>4
<1>7. \A p : Delay(p)' = Delay(p)
  BY DEF Delay, staggerDelay
<1> QED BY <1>3, <1>5, <1>6, <1>7 DEF Placed, n, Share

\* Nothing but time moves the moments when the loop stays where it is.
LEMMA StillPlaced ==
  ASSUME NEW o, Placed(o), todo' = todo, nextTick' = nextTick
  PROVE  Placed(o)'
BY DEF Placed, Elapsed, Delay, staggerDelay, Share

\* Time moves them all.
LEMMA MomentsElapse ==
  ASSUME KInv, Ticking, Elapse, NEW o \in [Profile -> Int], Placed(o)
  PROVE  \E n \in [Profile -> Int] : n = [p \in Profile |-> o[p] + 1] /\ Placed(n)'
<1>1. PICK n \in [Profile -> Int] : n = [p \in Profile |-> o[p] + 1]
  <2>1. \A p \in Profile : o[p] + 1 \in Int
    OBVIOUS
  <2> QED BY <2>1
<1>2. todo' = todo /\ nextTick' = nextTick - 1
  BY DEF Elapse, Ticking
<1>3. /\ Elapsed \in Nat /\ Elapsed' = Elapsed + 1
      /\ \A p \in Profile : Delay(p) \in Nat /\ Delay(p)' = Delay(p) /\ n[p] = o[p] + 1
      /\ MaxLoop \in Nat /\ Share \in Nat
  BY <1>1, <1>2, Clock DEF Elapsed, Delay, staggerDelay
<1>4. ASSUME NEW p \in Profile \ todo
      PROVE  /\ (Elapsed + 1) - n[p] \in Delay(p) - MaxLoop .. Delay(p) + MaxLoop
             /\ todo # {} => Delay(p) <= (Elapsed + 1) - n[p] /\ 0 - n[p] <= Delay(p)
  <2>1. /\ Elapsed - o[p] \in Delay(p) - MaxLoop .. Delay(p) + MaxLoop
        /\ todo # {} => Delay(p) <= Elapsed - o[p] /\ 0 - o[p] <= Delay(p)
    BY <1>4 DEF Placed
  <2> QED BY <1>3, <2>1
<1>5. ASSUME NEW p \in Profile \ todo, NEW q \in Profile \ todo, p < q
      PROVE  n[q] + Share <= n[p]
  <2>1. o[q] + Share <= o[p]
    BY <1>5 DEF Placed
  <2> QED BY <1>3, <2>1
<1>6. Placed(n)'
  BY <1>1, <1>2, <1>3, <1>4, <1>5 DEF Placed, Share
<1> QED BY <1>1, <1>6

LEMMA Undisturbing ==
  ASSUME KInv, NEW p \in Profile, NEW o \in Int, SameChunk(p), p \in todo => nextTick' = nextTick,
         p \notin todo => nextTick' = nextTick \/ nextTick # 0,
         ~Running(p), ~Running(p)', Timely(p, o)
  PROVE  Timely(p, o)'
<1>1. Delay(p)' = Delay(p)
  BY DEF Delay, staggerDelay
<1>2. NoTask(p)' <=> NoTask(p)
  BY DEF SameChunk, NoTask
<1>3. Waits(p, o) => Waits(p, o)'
  BY DEF SameChunk, Waits, OneTask
<1>4. p \notin todo /\ Done(p, o) => Done(p, o)'
  BY <1>2 DEF SameChunk, Done
<1>5. p \in todo /\ Listed(p) => Listed(p)'
  BY <1>1, <1>2 DEF SameChunk, Listed, Elapsed
<1> QED BY <1>3, <1>4, <1>5 DEF Timely, SameChunk

\* So it is for the chunk that runs.
LEMMA StillRuns ==
  ASSUME NEW p \in Profile, NEW o, SameChunk(p), running' = running, Running(p), Timely(p, o)
  PROVE  Timely(p, o)'
<1>1. p \notin todo /\ Runs(p, o)
  BY DEF Timely
<1>2. p \notin todo' /\ Running(p)' /\ Runs(p, o)'
  BY <1>1 DEF SameChunk, Running, Runs, OneTask
<1> QED BY <1>2 DEF Timely

\* Nobody waits or runs any more when the tick comes.
LEMMA AllDone ==
  ASSUME KInv, FitsShare, NEW o, OnTimeBy(o), nextTick = 0, todo = {}
  PROVE  running = Nobody /\ \A p \in Profile : Done(p, o[p])
<1>1. ASSUME NEW p \in Profile PROVE ~Running(p) /\ Done(p, o[p])
  <2>1. /\ Elapsed = Cadence /\ Delay(p) \in Nat /\ Delay(p) + Share <= Cadence
        /\ o[p] \in Int /\ MaxLoop + MaxDuration < Share
        /\ MaxLoop \in Nat /\ MaxDuration \in Nat /\ Share \in Nat /\ Cadence \in Nat
    BY Clock, Shares DEF OnTimeBy, Placed, FitsShare
  <2>2. Elapsed - o[p] <= Delay(p) + MaxLoop
    BY <2>1 DEF OnTimeBy, Placed
  <2>3. o[p] > MaxDuration
    BY <2>1, <2>2
  <2>4. ~Running(p)
    <3>1. Running(p) => running.age \in 0 .. MaxDuration
      BY DEF KInv, TypeOK, Running
    <3>2. Running(p) => running.age = o[p]
      BY DEF OnTimeBy, Timely, Runs
    <3> QED BY <2>1, <2>3, <3>1, <3>2
  <2>5. ~Waits(p, o[p])
    BY <2>1, <2>3 DEF Waits
  <2> QED BY <2>4, <2>5 DEF OnTimeBy, Timely
<1>2. running = Nobody
  BY <1>1, RunType DEF KInv, Running
<1> QED BY <1>1, <1>2

LEMMA OnTimeInit == Init => OnTime
<1> SUFFICES ASSUME Init PROVE OnTime
  OBVIOUS
<1> DEFINE o == [p \in Profile |-> Cadence - Delay(p)]
<1>1. \A p \in Profile : Delay(p) \in Nat
  BY Shares
<1>2. Elapsed = Cadence /\ todo = {} /\ MaxLoop \in Nat /\ Cadence \in Nat /\ Share \in Nat
  BY Shares, QueueAssumption DEF Init, Elapsed
<1>3. o \in [Profile -> Int] /\ \A p \in Profile : o[p] = Cadence - Delay(p)
  BY <1>1, <1>2
<1> HIDE DEF o
<1>4. ASSUME NEW p \in Profile, NEW q \in Profile, p < q PROVE o[q] + Share <= o[p]
  <2>1. Delay(p) + Share <= Delay(q)
    BY <1>4, Shares
  <2> QED BY <1>1, <1>2, <1>3, <2>1
<1>5. ASSUME NEW p \in Profile
      PROVE  Elapsed - o[p] \in Delay(p) - MaxLoop .. Delay(p) + MaxLoop
  BY <1>1, <1>2, <1>3
<1>6. Placed(o)
  BY <1>2, <1>3, <1>4, <1>5 DEF Placed
<1>7. \A p \in Profile : Timely(p, o[p])
  BY DEF Init, Timely, Running, Done, NoTask
<1> QED BY <1>3, <1>6, <1>7 DEF OnTime, OnTimeBy

LEMMA OnTimeTick ==
  ASSUME KInv, FitsShare, NEW o \in [Profile -> Int], OnTimeBy(o), Tick
  PROVE  OnTimeBy(o)'
<1>1. /\ nextTick = 0 /\ todo = {} /\ nextTick' = Cadence /\ todo' = Profile
      /\ chunks' = [p \in Profile |-> 0] /\ skipped' = [p \in Profile |-> Earlier(p)]
      /\ UNCHANGED <<queueVars, running, claimed>>
  BY DEF Tick, TickComes
<1>2. running = Nobody /\ \A p \in Profile : Done(p, o[p])
  BY <1>1, AllDone
<1>3. Placed(o)'
  BY <1>1 DEF Placed
<1> SUFFICES ASSUME NEW p \in Profile PROVE Timely(p, o[p])'
  BY <1>3 DEF OnTimeBy
<1>4. /\ Elapsed = Cadence /\ Elapsed' = 0 /\ Delay(p) \in Nat /\ Delay(p)' = Delay(p)
      /\ Cadence \in Nat /\ MaxLoop \in Nat
  BY <1>1, Clock, QueueAssumption DEF Elapsed, Delay, staggerDelay
<1>5. p \in todo' /\ chunks'[p] = 0 /\ ~Running(p)' /\ NoTask(p)' /\ claimed'[p] = claimed[p]
  BY <1>1, <1>2 DEF Running, queueVars, Done, NoTask
<1>6. skipped'[p] = (IF skipped[p] = "no" THEN "no" ELSE "before")
  BY <1>1 DEF Earlier
<1>7. skipped[p] = "no" /\ claimed[p] # Never =>
        claimed[p] + Delay(p) \in Cadence - MaxLoop .. Cadence + MaxLoop
  <2>1. skipped[p] = "no" /\ claimed[p] # Never => claimed[p] = o[p]
    BY <1>2 DEF Done
  <2>2. Cadence - o[p] \in Delay(p) - MaxLoop .. Delay(p) + MaxLoop
    BY <1>1, <1>4 DEF OnTimeBy, Placed
  <2> QED BY <1>4, <2>1, <2>2
<1>8. claimed[p] # Never => claimed[p] \in Nat
  BY QueueAssumption DEF KInv, TypeOK, Longest
<1> QED BY <1>4, <1>5, <1>6, <1>7, <1>8 DEF Timely, Listed

\* A tick that fails misses everyone.
LEMMA OnTimeTickFails ==
  ASSUME KInv, FitsShare, NEW o \in [Profile -> Int], OnTimeBy(o), TickFails
  PROVE  OnTime'
<1>1. /\ nextTick = 0 /\ todo = {} /\ nextTick' = Cadence /\ todo' = {}
      /\ skipped' = [p \in Profile |-> "now"]
      /\ UNCHANGED <<queueVars, running>>
  BY DEF TickFails, TickComes, TickGivesUp
<1>2. running = Nobody /\ \A p \in Profile : Done(p, o[p])
  BY <1>1, AllDone
<1> DEFINE n == [p \in Profile |-> 0 - Delay(p)]
<1>3. /\ Elapsed' = 0 /\ MaxLoop \in Nat /\ Share \in Nat
      /\ \A p \in Profile : Delay(p) \in Nat /\ Delay(p)' = Delay(p)
  BY <1>1, Clock, QueueAssumption DEF Elapsed, Delay, staggerDelay
<1>4. n \in [Profile -> Int] /\ \A p \in Profile : n[p] = 0 - Delay(p)
  BY <1>3
<1> HIDE DEF n
<1>5. ASSUME NEW p \in Profile, NEW q \in Profile, p < q PROVE n[q] + Share <= n[p]
  <2>1. Delay(p) + Share <= Delay(q)
    BY <1>5, Shares
  <2> QED BY <1>3, <1>4, <2>1
<1>6. ASSUME NEW p \in Profile
      PROVE  Elapsed' - n[p] \in Delay(p) - MaxLoop .. Delay(p) + MaxLoop
  BY <1>3, <1>4
<1>7. PICK k \in [Profile -> Int] : k = n
  BY <1>4
<1>8. Placed(k)'
  BY <1>1, <1>3, <1>4, <1>5, <1>6, <1>7 DEF Placed, Share
<1>9. \A p \in Profile : Timely(p, k[p])'
  BY <1>1, <1>2 DEF Timely, Done, NoTask, Running, queueVars
<1> QED BY <1>8, <1>9 DEF OnTime, OnTimeBy

\* The loop leaves T behind: whoever is not in T is not concerned.
LEMMA LoopLeaves ==
  ASSUME KInv, FitsShare, todo # {}, NEW o \in [Profile -> Int], OnTimeBy(o),
         NEW T, T \subseteq todo, todo' = todo \ T,
         \A p \in Profile \ todo', q \in todo' : p < q,
         nextTick' = nextTick \/ (todo' = {} /\ nextTick' = Cadence),
         UNCHANGED <<running, claimed, chunks>>,
         NEW h \in T,
         \A p \in Profile \ {h} : /\ task'[p] = task[p] /\ keyLeft'[p] = keyLeft[p]
                                 /\ keyOf'[p] = keyOf[p],
         \A p \in Profile \ T : skipped'[p] = skipped[p],
         \A p \in T \ {h} : skipped'[p] = "now",
         NEW m \in [Profile -> Int],
         m = [p \in Profile |-> IF p \in T THEN 0 - Delay(p) ELSE o[p]],
         Waits(h, 0 - Delay(h))' \/ Done(h, 0 - Delay(h))'
  PROVE  OnTimeBy(m)'
<1>1. Placed(m)'
  <2>1. Placed([p \in Profile |-> IF p \in T THEN 0 - Delay(p) ELSE o[p]])'
    BY Place DEF OnTimeBy
  <2>2. \A p : Delay(p)' = Delay(p)
    BY DEF Delay, staggerDelay
  <2> QED BY <2>1, <2>2
<1> SUFFICES ASSUME NEW p \in Profile PROVE Timely(p, m[p])'
  BY <1>1 DEF OnTimeBy
<1>2. /\ T \subseteq Profile /\ p \in todo' <=> (p \in todo /\ p \notin T)
      /\ m[p] = IF p \in T THEN 0 - Delay(p) ELSE o[p]
      /\ Timely(p, o[p]) /\ o[p] \in Int
  BY DEF KInv, TypeOK, OnTimeBy
<1>3. p \in T => ~Running(p)' /\ Listed(p) /\ p \notin todo'
  BY <1>2 DEF Timely, Running
<1>4. CASE p = h
  <2>1. m[p] = 0 - Delay(h)
    BY <1>2, <1>4
  <2>2. Waits(p, m[p])' \/ Done(p, m[p])'
    <3>1. \A q : Delay(q)' = Delay(q)
      BY DEF Delay, staggerDelay
    <3> QED BY <1>4, <2>1, <3>1
  <2> QED BY <1>3, <1>4, <2>2 DEF Timely
<1>5. CASE p \in T /\ p # h
  <2>1. NoTask(p)' /\ skipped'[p] = "now"
    BY <1>2, <1>3, <1>5 DEF Listed, NoTask
  <2>2. Done(p, m[p])'
    BY <2>1 DEF Done
  <2> QED BY <1>3, <1>5, <2>2 DEF Timely
<1>6. CASE p \notin T
  <2>1. SameChunk(p) /\ m[p] = o[p]
    BY <1>2, <1>6 DEF SameChunk
  <2>2. (p \in todo => nextTick' = nextTick) /\ (nextTick' = nextTick \/ nextTick # 0)
    <3>1. MaxLoop < Cadence
      BY Clock, Shares DEF FitsShare
    <3>2. nextTick # 0
      BY <3>1, Clock
    <3> QED BY <1>2, <1>6, <3>2
  <2>3. CASE ~Running(p)
    BY <1>2, <2>1, <2>2, <2>3, Undisturbing DEF Running
  <2>4. CASE Running(p)
    BY <1>2, <2>1, <2>4, StillRuns
  <2> QED BY <2>3, <2>4
<1> QED BY <1>4, <1>5, <1>6

\* The task of a profile the loop has come to.
LEMMA HeadWaits ==
  ASSUME KInv, todo # {}, NEW o \in [Profile -> Int], OnTimeBy(o),
         EnqueueSyncProfile(Head, staggerDelay(Head, Profiles)), claimed' = claimed,
         skipped'[Head] \in {skipped[Head], "now"},
         NEW h, h = Head
  PROVE  /\ Waits(h, 0 - Delay(h))' /\ keyLeft[h] = 0
         /\ \A p \in Profile \ {h} : /\ task'[p] = task[p] /\ keyLeft'[p] = keyLeft[p]
                                   /\ keyOf'[p] = keyOf[p]
<1>1. h \in todo /\ h \in Profile
  BY HeadInTodo DEF KInv, TypeOK
<1>2. Listed(h) /\ NoTask(h)
  BY <1>1 DEF OnTimeBy, Timely, Listed
<1>3. keyLeft[h] = 0
  BY <1>2 DEF NoTask
<1>4. PICK s \in Slot :
        /\ task' = [task EXCEPT ![h][s] = [st |-> "waiting", in |-> Delay(h), tries |-> 0]]
        /\ keyOf' = [keyOf EXCEPT ![h] = s]
        /\ keyLeft' = [keyLeft EXCEPT ![h] = Delay(h) + Window]
  BY <1>3 DEF EnqueueSyncProfile, Window, Delay
<1>5. /\ Delay(h) \in Nat /\ Delay(h)' = Delay(h) /\ Elapsed \in Nat /\ Elapsed <= MaxLoop
      /\ MaxLoop \in Nat /\ Cadence \in Nat
  BY <1>1, Clock DEF Delay, staggerDelay
<1>6. OneTask(h, s, [st |-> "waiting", in |-> Delay(h), tries |-> 0])'
  BY <1>1, <1>2, <1>4 DEF KInv, TypeOK, NoTask, OneTask
<1>7. 0 - (0 - Delay(h)) = Delay(h) /\ 0 - Delay(h) <= 0
  BY <1>5
<1>8. skipped'[h] = "no" /\ claimed'[h] # Never =>
        claimed'[h] - (0 - Delay(h)) \in Cadence - MaxLoop .. Longest
  <2>1. claimed[h] # Never => claimed[h] \in Nat
    BY <1>1, QueueAssumption DEF KInv, TypeOK, Longest
  <2>2. skipped'[h] = "no" /\ claimed'[h] # Never =>
          claimed[h] - Elapsed + Delay(h) \in Cadence - MaxLoop .. Cadence + MaxLoop
    BY <1>2 DEF Listed
  <2> QED BY <1>5, <2>1, <2>2 DEF Longest
<1>9. (0 - Delay(h))' = 0 - Delay(h)
  BY <1>5
<1>10. Waits(h, 0 - Delay(h))'
  BY <1>5, <1>6, <1>7, <1>8, <1>9 DEF Waits
<1> QED BY <1>1, <1>3, <1>4, <1>10 DEF KInv, TypeOK

LEMMA OnTimeEnqueue ==
  ASSUME KInv, Loop', FitsShare, NEW o \in [Profile -> Int], OnTimeBy(o),
         EnqueueChunk \/ SkipProfile \/ EnqueueFails
  PROVE  OnTime' /\ (NoneBlocked => NoneBlocked')
<1>1. PICK h \in Profile : h = Head /\ h \in todo /\ todo # {}
  BY HeadInTodo DEF EnqueueChunk, SkipProfile, EnqueueFails, KInv, TypeOK
<1>2. Listed(h) /\ NoTask(h) /\ keyLeft[h] = 0
  BY <1>1 DEF OnTimeBy, Timely, Listed, NoTask
<1>3. todo \subseteq Profile
  BY DEF KInv, TypeOK
<1>4. ASSUME NEW T, T \subseteq Profile
      PROVE  [p \in Profile |-> IF p \in T THEN 0 - Delay(p) ELSE o[p]] \in [Profile -> Int]
  BY <1>4, Shares
<1>5. CASE EnqueueChunk \/ SkipProfile
  <2>1. LoopPast(Head) /\ UNCHANGED <<running, claimed, chunks>>
    BY <1>5 DEF EnqueueChunk, SkipProfile
  <2>2. /\ todo' = todo \ {h}
        /\ nextTick' = nextTick \/ (todo' = {} /\ nextTick' = Cadence)
    BY <1>1, <2>1, LoopGoesOn
  <2>3. \A p \in Profile \ todo', q \in todo' : p < q
    BY <2>2 DEF Loop
  <2>4. PICK m \in [Profile -> Int] :
          m = [p \in Profile |-> IF p \in {h} THEN 0 - Delay(p) ELSE o[p]]
    BY <1>4
  <2>5. /\ \A p \in Profile \ {h} : /\ task'[p] = task[p] /\ keyLeft'[p] = keyLeft[p]
                                 /\ keyOf'[p] = keyOf[p] /\ skipped'[p] = skipped[p]
        /\ Waits(h, 0 - Delay(h))' \/ Done(h, 0 - Delay(h))'
    <3>1. CASE EnqueueChunk
      BY <1>1, <3>1, HeadWaits DEF EnqueueChunk
    <3>2. CASE SkipProfile
      <4>1. skipped' = [skipped EXCEPT ![h] = "now"] /\ UNCHANGED queueVars
        BY <1>1, <3>2 DEF SkipProfile
      <4>2. skipped'[h] = "now" /\ NoTask(h)'
        BY <1>2, <4>1 DEF KInv, TypeOK, NoTask, queueVars
      <4>3. Done(h, 0 - Delay(h))'
        BY <4>2 DEF Done
      <4> QED BY <4>1, <4>3 DEF queueVars, KInv, TypeOK
    <3> QED BY <1>5, <3>1, <3>2
  <2>6. OnTimeBy(m)'
    BY <1>1, <2>1, <2>2, <2>3, <2>4, <2>5, LoopLeaves
  <2>7. \A p \in Profile : blocked[p] = 0 => blocked'[p] = 0
    BY <1>1, <1>2, <1>5 DEF EnqueueChunk, SkipProfile, queueVars, KInv, TypeOK
  <2> QED BY <2>6, <2>7 DEF OnTime, NoneBlocked
<1>6. CASE EnqueueFails
  <2>1. /\ todo' = {} /\ nextTick' = nextTick /\ UNCHANGED <<running, claimed, chunks>>
        /\ skipped' = [p \in Profile |-> IF p \in todo THEN "now" ELSE skipped[p]]
    BY <1>6 DEF EnqueueFails, TickGivesUp
  <2>2. PICK T : T = todo
    OBVIOUS
  <2>3. PICK m \in [Profile -> Int] :
          m = [p \in Profile |-> IF p \in T THEN 0 - Delay(p) ELSE o[p]]
    BY <1>3, <1>4, <2>2
  <2>4. /\ \A p \in Profile \ {h} : /\ task'[p] = task[p] /\ keyLeft'[p] = keyLeft[p]
                                 /\ keyOf'[p] = keyOf[p]
        /\ Waits(h, 0 - Delay(h))' \/ Done(h, 0 - Delay(h))'
        /\ \A p \in Profile : blocked[p] = 0 => blocked'[p] = 0
    <3>1. skipped'[h] = "now"
      BY <1>1, <2>1
    <3>2. CASE UNCHANGED queueVars
      <4>1. NoTask(h)'
        BY <1>2, <3>2 DEF NoTask, queueVars
      <4>2. Done(h, 0 - Delay(h))'
        BY <3>1, <4>1 DEF Done
      <4> QED BY <3>2, <4>2 DEF queueVars
    <3>3. CASE /\ EnqueueSyncProfile(Head, staggerDelay(Head, Profiles))
               /\ blocked' = [blocked EXCEPT ![Head] = 0]
      BY <1>1, <2>1, <3>1, <3>3, HeadWaits DEF KInv, TypeOK
    <3> QED BY <1>6, <3>2, <3>3 DEF EnqueueFails
  <2>5. /\ T \subseteq todo /\ h \in T /\ todo' = todo \ T
        /\ \A p \in Profile \ todo', q \in todo' : p < q
        /\ \A p \in Profile \ T : skipped'[p] = skipped[p]
        /\ \A p \in T \ {h} : skipped'[p] = "now"
    BY <1>1, <1>3, <2>1, <2>2
  <2>6. OnTimeBy(m)'
    BY <1>1, <2>1, <2>3, <2>4, <2>5, LoopLeaves
  <2> QED BY <2>4, <2>6 DEF OnTime, NoneBlocked
<1> QED BY <1>5, <1>6

\* A task that is due is the one its profile waits for.
LEMMA DueWaits ==
  ASSUME KInv, NEW o \in [Profile -> Int], OnTimeBy(o), running = Nobody,
         NEW p \in Profile, NEW s \in Slot, Due(p, s)
  PROVE  /\ p \notin todo /\ Waits(p, o[p]) /\ o[p] = 0
         /\ OneTask(p, s, [st |-> "waiting", in |-> 0, tries |-> 0])
<1>1. ~Running(p)
  BY DEF Running
<1>2. ~NoTask(p)
  BY DEF Due, NoTask, Empty
<1>3. p \notin todo /\ Waits(p, o[p])
  BY <1>1, <1>2 DEF OnTimeBy, Timely, Listed, Done
<1>4. PICK r \in Slot : OneTask(p, r, [st |-> "waiting", in |-> 0 - o[p], tries |-> 0])
  BY <1>3 DEF Waits
<1>5. r = s /\ 0 - o[p] = 0
  BY <1>4 DEF OneTask, Due, Empty
<1> QED BY <1>3, <1>4, <1>5

LEMMA OnTimeDequeue ==
  ASSUME KInv, NEW o \in [Profile -> Int], OnTimeBy(o),
         NEW p \in Profile, NEW s \in Slot, Dequeue(p, s)
  PROVE  OnTimeBy(o)'
<1>1. /\ p \notin todo /\ o[p] = 0
      /\ OneTask(p, s, [st |-> "waiting", in |-> 0, tries |-> 0])
  BY DueWaits DEF Dequeue
<1>2. /\ running' = [profile |-> p, slot |-> s, age |-> 0] /\ running = Nobody
      /\ task' = [task EXCEPT ![p][s].st = "active"]
      /\ claimed' = [claimed EXCEPT ![p] = 0]
      /\ skipped' = [skipped EXCEPT ![p] = IF @ = "before" THEN "no" ELSE @]
      /\ UNCHANGED <<nextTick, todo, keyLeft, keyOf, chunks>>
  BY DEF Dequeue
<1>3. Placed(o)'
  BY <1>2, StillPlaced DEF OnTimeBy
<1> SUFFICES ASSUME NEW q \in Profile PROVE Timely(q, o[q])'
  BY <1>3 DEF OnTimeBy
<1>4. CASE q = p
  <2>1. running' # Nobody /\ running'.profile = p /\ running'.slot = s /\ running'.age = 0
    BY <1>2, QueueAssumption DEF Nobody, Profile
  <2>2. task'[p] = [task[p] EXCEPT ![s] = [task[p][s] EXCEPT !.st = "active"]]
    BY <1>2 DEF KInv, TypeOK
  <2>3. task'[p] = [r \in Slot |-> IF r = s THEN [st |-> "active", in |-> 0, tries |-> 0]
                                   ELSE Empty]
    BY <1>1, <2>2 DEF OneTask
  <2>4. claimed'[p] = 0 /\ keyOf'[p] = s
    BY <1>1, <1>2 DEF KInv, TypeOK, OneTask
  <2>5. Runs(p, o[p])'
    BY <1>1, <2>1, <2>3, <2>4 DEF Runs, OneTask
  <2> QED BY <1>1, <1>2, <1>4, <2>1, <2>5 DEF Timely, Running
<1>5. CASE q # p
  <2>1. SameChunk(q)
    BY <1>2, <1>5 DEF SameChunk, KInv, TypeOK
  <2>2. ~Running(q) /\ ~Running(q)'
    BY <1>2, <1>5 DEF Running
  <2> QED BY <1>2, <2>1, <2>2, Undisturbing DEF OnTimeBy
<1> QED BY <1>4, <1>5

LEMMA OnTimeSucceed ==
  ASSUME KInv, NEW o \in [Profile -> Int], OnTimeBy(o), Succeed
  PROVE  OnTimeBy(o)'
<1>1. PICK p \in Profile, s \in Slot :
        /\ p = running.profile /\ s = running.slot /\ Running(p)
        /\ running \in [profile : Profile, slot : Slot, age : 0 .. MaxDuration]
  BY RunType DEF Succeed, KInv, Running, TypeOK
<1>2. p \notin todo /\ Runs(p, o[p])
  BY <1>1 DEF OnTimeBy, Timely
<1>3. /\ task' = [task EXCEPT ![p][s] = Empty]
      /\ keyLeft' = (IF keyLeft[p] > 0 /\ keyOf[p] = s THEN [keyLeft EXCEPT ![p] = 0] ELSE keyLeft)
      /\ keyOf' = (IF keyLeft[p] > 0 /\ keyOf[p] = s THEN [keyOf EXCEPT ![p] = 0] ELSE keyOf)
      /\ chunks' = [chunks EXCEPT ![p] = IF @ = 0 THEN 1 ELSE @]
      /\ running' = Nobody
      /\ UNCHANGED <<nextTick, todo, skipped, claimed>>
  BY <1>1 DEF Succeed, tickVars
<1>4. Placed(o)'
  BY <1>3, StillPlaced DEF OnTimeBy
<1> SUFFICES ASSUME NEW q \in Profile PROVE Timely(q, o[q])'
  BY <1>4 DEF OnTimeBy
<1>5. ~Running(q)'
  BY <1>3 DEF Running
<1>6. CASE q = p
  <2>1. task'[p] = [r \in Slot |-> Empty]
    <3>1. task'[p] = [task[p] EXCEPT ![s] = Empty]
      BY <1>1, <1>3 DEF KInv, TypeOK
    <3>2. task[p] = [r \in Slot |-> IF r = s THEN [st |-> "active", in |-> 0, tries |-> 0]
                                    ELSE Empty]
      BY <1>1, <1>2 DEF Runs, OneTask
    <3> QED BY <1>1, <3>1, <3>2
  <2>2. keyLeft'[p] = 0
    <3>1. keyOf[p] = s /\ keyLeft[p] \in Nat /\ keyLeft \in [Profile -> 0 .. 2 * Cadence]
      BY <1>1, <1>2, QueueAssumption DEF Runs, OneTask, KInv, TypeOK
    <3> QED BY <1>1, <1>3, <3>1
  <2>3. chunks'[p] = 1
    BY <1>1, <1>3 DEF KInv, TypeOK
  <2>4. claimed'[p] = o[p] /\ o[p] >= 0
    BY <1>1, <1>2, <1>3 DEF Runs
  <2>5. Done(p, o[p])'
    BY <2>1, <2>2, <2>3, <2>4 DEF Done, NoTask
  <2> QED BY <1>2, <1>3, <1>5, <1>6, <2>5 DEF Timely
<1>7. CASE q # p
  <2>1. SameChunk(q)
    BY <1>1, <1>3, <1>7 DEF SameChunk, KInv, TypeOK
  <2>2. ~Running(q)
    BY <1>1, <1>7 DEF Running
  <2> QED BY <1>3, <1>5, <2>1, <2>2, Undisturbing DEF OnTimeBy
<1> QED BY <1>6, <1>7

\* Time passes only while everyone who waits has time left.
LEMMA NotYet ==
  ASSUME KInv, FitsShare, NEW o \in [Profile -> Int], OnTimeBy(o), Elapse,
         NEW p \in Profile, p \notin todo, ~Running(p), Waits(p, o[p])
  PROVE  o[p] < 0
<1>1. o[p] \in Int /\ o[p] <= 0
  BY DEF Waits
<1>2. CASE running = Nobody
  <2>1. PICK s \in Slot : OneTask(p, s, [st |-> "waiting", in |-> 0 - o[p], tries |-> 0])
    BY DEF Waits
  <2>2. ~Due(p, s)
    BY <1>2 DEF Elapse
  <2>3. 0 - o[p] # 0
    BY <2>1, <2>2 DEF Due, OneTask
  <2> QED BY <1>1, <2>3
<1>3. CASE running # Nobody
  <2> DEFINE q == running.profile
  <2>1. /\ q \in Profile /\ Running(q) /\ q # p
        /\ running \in [profile : Profile, slot : Slot, age : 0 .. MaxDuration]
    BY <1>3, RunType DEF KInv, Running, TypeOK
  <2>2. q \notin todo /\ Runs(q, o[q])
    BY <2>1 DEF OnTimeBy, Timely
  <2>3. running.age \in Nat /\ running.age = o[q] /\ running.age < MaxDuration
    BY <1>3, <2>1, <2>2 DEF Runs, Elapse
  <2>4. o[p] + Share <= o[q] \/ o[q] + Share <= o[p]
    BY <2>1, <2>2, Distant DEF OnTimeBy
  <2>5. MaxLoop \in Nat /\ MaxDuration \in Nat /\ Share \in Nat
    BY Clock
  <2> HIDE DEF q
  <2> QED BY <1>1, <2>3, <2>4, <2>5 DEF FitsShare
<1> QED BY <1>2, <1>3

\* No claim is older than the longest time that is told apart.
LEMMA NotLongest ==
  ASSUME KInv, FitsShare, NEW o \in [Profile -> Int], OnTimeBy(o), Elapse, Ticking,
         NEW p \in Profile, skipped[p] = "no" \/ Running(p), claimed[p] # Never
  PROVE  claimed[p] < Longest
<1>1. /\ Elapsed \in Nat /\ Elapsed < Cadence /\ nextTick # 0 /\ Delay(p) \in Nat
      /\ Delay(p) + Share <= Cadence /\ MaxLoop + MaxDuration < Share
      /\ MaxLoop \in Nat /\ MaxDuration \in Nat /\ Share \in Nat /\ Cadence \in Nat
      /\ claimed[p] \in Nat /\ o[p] \in Int
  <2>1. nextTick > 0 /\ nextTick \in Nat
    BY Clock DEF Elapse, Ticking
  <2>2. Elapsed < Cadence
    BY <2>1, Clock DEF Elapsed
  <2>3. claimed[p] \in Nat
    BY QueueAssumption DEF KInv, TypeOK, Longest
  <2> QED BY <2>1, <2>2, <2>3, Clock, Shares DEF FitsShare
<1>2. CASE Running(p)
  <2>1. running.age \in 0 .. MaxDuration
    BY <1>2 DEF KInv, TypeOK, Running
  <2>2. claimed[p] = running.age
    BY <1>2 DEF OnTimeBy, Timely, Runs
  <2> QED BY <1>1, <2>1, <2>2 DEF Longest
<1>3. CASE p \in todo /\ ~Running(p)
  <2>1. claimed[p] - Elapsed + Delay(p) <= Cadence + MaxLoop
    BY <1>1, <1>3 DEF OnTimeBy, Timely, Listed
  <2>2. Elapsed < MaxLoop
    BY <1>3 DEF Elapse, Elapsed
  <2> QED BY <1>1, <2>1, <2>2 DEF Longest
<1>4. CASE p \notin todo /\ ~Running(p) /\ Waits(p, o[p])
  <2>1. o[p] < 0
    BY <1>4, NotYet
  <2>2. claimed[p] - o[p] <= Longest
    BY <1>1, <1>4 DEF Waits, Longest
  <2> QED BY <1>1, <2>1, <2>2 DEF Longest
<1>5. CASE p \notin todo /\ ~Running(p) /\ Done(p, o[p])
  <2>1. claimed[p] = o[p]
    BY <1>1, <1>5 DEF Done
  <2>2. Delay(p) - MaxLoop <= Elapsed - o[p]
    BY <1>1, <1>5 DEF OnTimeBy, Placed
  <2> QED BY <1>1, <2>1, <2>2 DEF Longest
<1> QED BY <1>2, <1>3, <1>4, <1>5 DEF OnTimeBy, Timely

LEMMA OnTimeElapse ==
  ASSUME KInv, FitsShare, NEW o \in [Profile -> Int], OnTimeBy(o), Ticking, Elapse
  PROVE  OnTime'
<1>1. PICK n \in [Profile -> Int] : n = [p \in Profile |-> o[p] + 1] /\ Placed(n)'
  BY MomentsElapse DEF OnTimeBy
<1>2. /\ nextTick > 0 /\ todo' = todo /\ nextTick' = nextTick - 1 /\ keyOf' = keyOf
      /\ skipped' = skipped /\ chunks' = chunks
  BY DEF Elapse, Ticking
<1>3. /\ Elapsed \in Nat /\ Elapsed' = Elapsed + 1 /\ nextTick # 0
      /\ \A p \in Profile : Delay(p) \in Nat /\ Delay(p)' = Delay(p) /\ n[p] = o[p] + 1
      /\ MaxLoop \in Nat /\ Share \in Nat /\ Cadence \in Nat
  BY <1>1, <1>2, Clock DEF Elapsed, Delay, staggerDelay
<1>5. ASSUME NEW p \in Profile PROVE Timely(p, n[p])'
  <2>0. n[p] = o[p] + 1 /\ o[p] \in Int /\ n[p] \in Int
    BY <1>3
  <2>1. task'[p] = [r \in Slot |-> [task[p][r] EXCEPT !.in = IF @ = 0 THEN 0 ELSE @ - 1]]
    BY DEF Elapse
  <2>2. claimed'[p] = IF claimed[p] \in {Never, Longest} THEN claimed[p] ELSE claimed[p] + 1
    BY DEF Elapse
  <2>3. keyLeft[p] = 0 => keyLeft'[p] = 0
    BY DEF Elapse
  <2>4. /\ claimed[p] = Never => claimed'[p] = Never
        /\ claimed[p] # Never => claimed'[p] # Never
        /\ (skipped[p] = "no" \/ Running(p)) /\ claimed[p] # Never => claimed'[p] = claimed[p] + 1
        /\ claimed[p] # Never => claimed[p] \in Nat
    <3>1. claimed[p] \in {Never} \cup 0 .. Longest
      BY DEF KInv, TypeOK
    <3>2. claimed[p] # Never => claimed[p] \in Nat
      BY <3>1, QueueAssumption DEF Longest
    <3>3. (skipped[p] = "no" \/ Running(p)) /\ claimed[p] # Never => claimed[p] < Longest
      BY NotLongest
    <3>4. Longest \in Nat
      BY QueueAssumption DEF Longest
    <3> HIDE DEF Longest
    <3> QED BY <2>2, <3>2, <3>3, <3>4 DEF Never
  <2>7. [Empty EXCEPT !.in = IF @ = 0 THEN 0 ELSE @ - 1] = Empty
    BY DEF Empty
  <2>8. NoTask(p) => NoTask(p)'
    BY <2>1, <2>3, <2>7 DEF NoTask
  <2>9. ASSUME NEW s \in Slot, NEW st \in {"waiting", "active"}, NEW d \in Nat,
               OneTask(p, s, [st |-> st, in |-> d, tries |-> 0])
        PROVE  OneTask(p, s, [st |-> st, in |-> IF d = 0 THEN 0 ELSE d - 1, tries |-> 0])'
    <3>1. \A r \in Slot : task[p][r] = IF r = s THEN [st |-> st, in |-> d, tries |-> 0] ELSE Empty
      BY <2>9 DEF OneTask
    <3>2. \A r \in Slot :
            [task[p][r] EXCEPT !.in = IF @ = 0 THEN 0 ELSE @ - 1] =
              IF r = s THEN [st |-> st, in |-> IF d = 0 THEN 0 ELSE d - 1, tries |-> 0] ELSE Empty
      BY <3>1, <2>7
    <3> QED BY <1>2, <2>1, <2>9, <3>2 DEF OneTask
  <2>10. CASE Running(p)
    <3>1. /\ p \notin todo /\ Runs(p, o[p])
          /\ running \in [profile : Profile, slot : Slot, age : 0 .. MaxDuration]
          /\ running.age < MaxDuration /\ running' = [running EXCEPT !.age = @ + 1]
      BY <1>5, <2>10 DEF OnTimeBy, Timely, Running, KInv, TypeOK, Elapse
    <3>2. running.age \in Nat /\ running.age = o[p] /\ claimed[p] = o[p]
      BY <3>1 DEF Runs
    <3>3. /\ running'.profile = p /\ running'.slot = running.slot
          /\ running'.age = running.age + 1 /\ running' # Nobody
      BY <2>10, <3>1, QueueAssumption DEF Running, Nobody, Profile
    <3>4. claimed'[p] = n[p] /\ running'.age = n[p]
      BY <2>0, <2>4, <2>10, <3>2, <3>3 DEF Never
    <3>5. OneTask(p, running.slot, [st |-> "active", in |-> 0, tries |-> 0])'
      BY <2>9, <3>1 DEF Runs
    <3>6. Runs(p, n[p])'
      BY <3>3, <3>4, <3>5 DEF Runs, OneTask
    <3> QED BY <1>2, <3>1, <3>3, <3>6 DEF Timely, Running
  <2>11. CASE ~Running(p)
    <3>1. ~Running(p)'
      <4>1. CASE running = Nobody
        BY <4>1 DEF Elapse, Running
      <4>2. CASE running # Nobody
        <5>1. running'.profile = running.profile
          BY <4>2 DEF Elapse, KInv, TypeOK
        <5> QED BY <2>11, <4>2, <5>1 DEF Running
      <4> QED BY <4>1, <4>2
    <3>2. CASE p \in todo /\ Listed(p)
      <4>1. skipped'[p] = "no" /\ claimed'[p] # Never =>
              claimed'[p] - (Elapsed + 1) + Delay(p) \in Cadence - MaxLoop .. Cadence + MaxLoop
        <5>1. skipped[p] = "no" /\ claimed[p] # Never =>
                claimed[p] - Elapsed + Delay(p) \in Cadence - MaxLoop .. Cadence + MaxLoop
          BY <3>2 DEF Listed
        <5> QED BY <1>2, <1>3, <2>4, <5>1
      <4>2. Listed(p)'
        BY <1>2, <1>3, <2>8, <3>2, <4>1 DEF Listed
      <4> QED BY <1>2, <3>1, <3>2, <4>2 DEF Timely
    <3>3. CASE p \notin todo /\ Waits(p, o[p])
      <4>1. o[p] < 0
        BY <2>11, <3>3, NotYet
      <4>2. PICK s \in Slot, d \in Nat :
              /\ d = 0 - o[p] /\ d # 0
              /\ OneTask(p, s, [st |-> "waiting", in |-> d, tries |-> 0])
        BY <2>0, <3>3, <4>1 DEF Waits
      <4>3. OneTask(p, s, [st |-> "waiting", in |-> d - 1, tries |-> 0])'
        BY <2>9, <4>2
      <4>4. 0 - n[p] = d - 1 /\ n[p] <= 0
        BY <2>0, <4>1, <4>2
      <4>5. skipped'[p] = "no" /\ claimed'[p] # Never =>
              claimed'[p] - n[p] \in Cadence - MaxLoop .. Longest
        <5>1. skipped[p] = "no" /\ claimed[p] # Never =>
                claimed[p] - o[p] \in Cadence - MaxLoop .. Longest
          BY <3>3 DEF Waits
        <5>2. Longest \in Int
          BY <1>3 DEF Longest
        <5> HIDE DEF Longest
        <5> QED BY <1>2, <1>3, <2>0, <2>4, <5>1, <5>2
      <4>6. Waits(p, n[p])'
        BY <4>3, <4>4, <4>5 DEF Waits
      <4> QED BY <1>2, <3>1, <3>3, <4>6 DEF Timely
    <3>4. CASE p \notin todo /\ Done(p, o[p])
      <4>1. skipped[p] = "no" => claimed[p] = o[p]
        BY <1>3, <3>4 DEF Done
      <4>2. skipped[p] = "no" => claimed'[p] = n[p] /\ n[p] >= 0
        <5>1. skipped[p] = "no" => claimed[p] # Never /\ o[p] >= 0
          BY <1>3, <2>0, <3>4 DEF Done, Never
        <5> QED BY <2>0, <2>4, <4>1, <5>1
      <4>3. Done(p, n[p])'
        BY <1>2, <2>8, <3>4, <4>2 DEF Done
      <4> QED BY <1>2, <3>1, <3>4, <4>3 DEF Timely
    <3> QED BY <2>11, <3>2, <3>3, <3>4 DEF OnTimeBy, Timely
  <2> QED BY <2>10, <2>11
<1> QED BY <1>1, <1>5 DEF OnTime, OnTimeBy

LEMMA OnTimeStep ==
  ASSUME FitsShare, QInv, KInv', [Next]_vars, Undisturbed'
  PROVE  NoneBlocked' /\ (Ticking' => OnTime')
<1>1. Undisturbed
  <2>1. CASE UNCHANGED vars
    BY <2>1 DEF vars, Undisturbed
  <2>2. ASSUME NEW p \in Profile, OAuthEnqueue(p) PROVE FALSE
    BY <2>2 DEF OAuthEnqueue, Undisturbed, QInv, KInv, TypeOK
  <2>3. CASE ~UNCHANGED vars
    BY <2>2, <2>3 DEF Next, Tick, TickFails, TickComes, EnqueueChunk, SkipProfile, EnqueueFails,
       Succeed, Fail, Elapse, Dequeue, FailEarly, Undisturbed
  <2> QED BY <2>1, <2>3
<1>2. KInv /\ NoneBlocked /\ (Ticking => OnTime) /\ Loop'
  BY <1>1 DEF QInv, KInv
<1>3. ~Fail /\ \A p \in Profile : ~OAuthEnqueue(p) /\ \A s \in Slot : ~FailEarly(p, s)
  BY <1>1 DEF Fail, FailEarly, OAuthEnqueue, Undisturbed
<1>4. CASE ~Ticking
  <2>1. ~ (Tick \/ TickFails)
    BY <1>4 DEF Tick, TickFails, TickComes, Ticking
  <2>2. ~ (EnqueueChunk \/ SkipProfile \/ EnqueueFails)
    BY <1>2, <1>4 DEF EnqueueChunk, SkipProfile, EnqueueFails, KInv, Loop, Ticking
  <2>3. blocked' = blocked /\ ~Ticking'
    BY <1>3, <1>4, <2>1, <2>2 DEF Next, Elapse, Succeed, Dequeue, Ticking, tickVars, vars, queueVars
  <2> QED BY <1>2, <2>3 DEF NoneBlocked
<1>5. CASE Ticking
  <2>1. PICK o \in [Profile -> Int] : OnTimeBy(o)
    BY <1>2, <1>5 DEF OnTime
  <2>2. CASE Tick
    BY <1>2, <2>1, <2>2, OnTimeTick DEF OnTime, NoneBlocked, Tick, TickComes, queueVars
  <2>3. CASE TickFails
    BY <1>2, <2>1, <2>3, OnTimeTickFails DEF NoneBlocked, TickFails, TickComes, queueVars
  <2>4. CASE EnqueueChunk \/ SkipProfile \/ EnqueueFails
    BY <1>2, <2>1, <2>4, OnTimeEnqueue
  <2>5. ASSUME NEW p \in Profile, NEW s \in Slot, Dequeue(p, s) PROVE NoneBlocked' /\ OnTime'
    BY <1>2, <2>1, <2>5, OnTimeDequeue DEF OnTime, NoneBlocked, Dequeue
  <2>6. CASE Succeed
    BY <1>2, <2>1, <2>6, OnTimeSucceed DEF OnTime, NoneBlocked, Succeed
  <2>7. CASE Elapse
    BY <1>2, <1>5, <2>1, <2>7, OnTimeElapse DEF NoneBlocked, Elapse
  <2>8. CASE UNCHANGED vars
    <3>1. UNCHANGED <<nextTick, todo, skipped, keyLeft, keyOf, task, running, claimed, chunks>>
      BY <2>8 DEF vars, queueVars, tickVars
    <3>2. Placed(o)'
      BY <2>1, <3>1, StillPlaced DEF OnTimeBy
    <3>3. ASSUME NEW p \in Profile PROVE Timely(p, o[p])'
      <4>1. SameChunk(p) /\ Timely(p, o[p]) /\ o[p] \in Int
        BY <2>1, <3>1 DEF SameChunk, OnTimeBy, Placed
      <4>2. CASE Running(p)
        BY <3>1, <4>1, <4>2, StillRuns
      <4>3. CASE ~Running(p)
        <5>1. ~Running(p)'
          BY <3>1, <4>3 DEF Running
        <5> QED BY <1>2, <3>1, <4>1, <4>3, <5>1, Undisturbing
      <4> QED BY <4>2, <4>3
    <3>4. OnTimeBy(o)'
      BY <3>2, <3>3 DEF OnTimeBy
    <3>5. o \in [Profile -> Int]
      BY <2>1 DEF OnTimeBy, Placed
    <3> QED BY <1>2, <2>8, <3>4, <3>5 DEF OnTime, NoneBlocked, vars, queueVars
  <2> QED BY <1>3, <2>2, <2>3, <2>4, <2>5, <2>6, <2>7, <2>8 DEF Next
<1> QED BY <1>4, <1>5

LEMMA TimelyInvariant == FitsShare => (Spec => []QInv)
<1> SUFFICES ASSUME FitsShare PROVE Spec => []QInv
  OBVIOUS
<1>1. Init /\ KInv => QInv
  BY OnTimeInit DEF QInv, NoneBlocked, Init
<1>2. QInv /\ KInv' /\ [Next]_vars => QInv'
  BY OnTimeStep DEF QInv
<1> QED BY <1>1, <1>2, LoopInvariant, PTL DEF Spec

-----------------------------------------------------------------------------
(* What the scheduler and the dashboard promise. *)

\* If the longest loop and the longest run fit a share of the cadence, a tick finds
\* a key held only after some run has failed or a first sync has come in between.
THEOREM HeldOnlyAfterFailure == FitsShare => (Spec => []BlockedByFailure)
<1> SUFFICES ASSUME FitsShare PROVE Spec => []BlockedByFailure
  OBVIOUS
<1>1. QInv => BlockedByFailure
  BY DEF QInv, KInv, TypeOK, NoneBlocked, Undisturbed, BlockedByFailure
<1> QED BY <1>1, TimelyInvariant, PTL

\* Every profile gets its chunk in every window whose tick has not missed it, for
\* any number of profiles and whatever the ticks have missed before.
THEOREM NobodySkipped == FitsShare => (Spec => [](reconnects = 0 => ChunkEveryWindow))
<1> SUFFICES ASSUME FitsShare PROVE Spec => [](reconnects = 0 => ChunkEveryWindow)
  OBVIOUS
<1>1. ASSUME QInv, reconnects = 0, scheduler = "running", nextTick = 0, ~failed,
             NEW p \in Profile
      PROVE  chunks[p] = 1 \/ skipped[p] = "now"
  <2>1. PICK o \in [Profile -> Int] : OnTimeBy(o)
    BY <1>1 DEF QInv, Undisturbed, Ticking, OnTime
  <2>2. todo = {}
    <3>1. MaxLoop < Cadence
      BY <1>1, Clock, Shares DEF QInv, FitsShare
    <3> QED BY <1>1, <3>1, Clock DEF QInv
  <2>3. Done(p, o[p])
    BY <1>1, <2>1, <2>2, AllDone DEF QInv
  <2> QED BY <2>3 DEF Done
<1>2. QInv => (reconnects = 0 => ChunkEveryWindow)
  BY <1>1 DEF ChunkEveryWindow
<1> QED BY <1>2, TimelyInvariant, PTL

\* The time the dashboard shows is the time of the next claim, give or take the
\* loops of the ticks, for every profile that no tick has missed since its last.
THEOREM DashboardKept == FitsShare => (Spec => NextUpdateKept)
<1> SUFFICES ASSUME FitsShare PROVE Spec => NextUpdateKept
  OBVIOUS
<1> DEFINE Premise(p) == /\ ~failed /\ reconnects = 0 /\ scheduler # "stopped"
                         /\ claimed[p] # Never /\ skipped[p] = "no"
           Kept(p) == /\ NextUpdate(p) > MaxLoop => claimed'[p] >= claimed[p]
                      /\ claimed[p] = Longest => claimed'[p] = 0 \/ nextTick' >= nextTick
<1>1. ASSUME QInv, KInv', Next, NEW p \in Profile, Premise(p) PROVE Kept(p)
  <2>1. PICK o \in [Profile -> Int] : OnTimeBy(o)
    BY <1>1 DEF QInv, Undisturbed, Ticking, OnTime
  <2>2. /\ KInv /\ claimed[p] \in Nat /\ nextTick \in Nat /\ nextTick' \in Nat
        /\ nextTick <= Cadence /\ MaxLoop \in Nat /\ Cadence \in Nat
    BY <1>1, QueueAssumption DEF QInv, KInv, TypeOK, Longest
  <2>3. CASE claimed' = claimed /\ nextTick <= nextTick'
    BY <2>2, <2>3
  <2>4. CASE Elapse
    <3>1. claimed'[p] = IF claimed[p] \in {Never, Longest} THEN claimed[p] ELSE claimed[p] + 1
      BY <2>4 DEF Elapse
    <3>2. claimed[p] < Longest
      BY <1>1, <2>1, <2>2, <2>4, NotLongest DEF Ticking
    <3>3. Longest \in Nat
      BY <2>2 DEF Longest
    <3>4. claimed'[p] >= claimed[p]
      BY <2>2, <3>1
    <3> HIDE DEF Longest
    <3> QED BY <2>2, <3>2, <3>3, <3>4
  <2>5. ASSUME NEW q \in Profile, NEW s \in Slot, Dequeue(q, s) PROVE Kept(p)
    <3>1. claimed' = [claimed EXCEPT ![q] = 0] /\ nextTick' = nextTick /\ running = Nobody
      BY <2>5 DEF Dequeue
    <3>2. CASE q = p
      <4>1. Waits(p, o[p]) /\ o[p] = 0
        BY <2>1, <2>2, <2>5, <3>1, <3>2, DueWaits DEF Dequeue
      <4>2. Cadence - MaxLoop <= claimed[p]
        BY <1>1, <2>2, <4>1 DEF Waits
      <4>3. ~ (NextUpdate(p) > MaxLoop)
        BY <1>1, <2>2, <4>2 DEF NextUpdate
      <4> QED BY <2>2, <3>1, <4>3
    <3>3. CASE q # p
      <4>1. claimed'[p] = claimed[p]
        BY <2>2, <3>1, <3>3 DEF KInv, TypeOK
      <4> QED BY <2>2, <3>1, <4>1
    <3> QED BY <3>2, <3>3
  <2>6. Tick \/ TickFails => claimed' = claimed /\ nextTick <= nextTick'
    BY <2>2 DEF Tick, TickFails, TickComes
  <2>7. EnqueueChunk \/ SkipProfile \/ EnqueueFails => claimed' = claimed /\ nextTick <= nextTick'
    BY <2>2 DEF EnqueueChunk, SkipProfile, EnqueueFails, LoopPast
  <2>8. Succeed \/ Fail => claimed' = claimed /\ nextTick <= nextTick'
    BY <2>2 DEF Succeed, Fail, tickVars
  <2>9. ASSUME NEW q \in Profile, OAuthEnqueue(q) \/ \E s \in Slot : FailEarly(q, s)
        PROVE  claimed' = claimed /\ nextTick <= nextTick'
    BY <2>2, <2>9 DEF OAuthEnqueue, FailEarly, tickVars
  <2> HIDE DEF Kept
  <2> QED BY <1>1, <2>3, <2>4, <2>5, <2>6, <2>7, <2>8, <2>9 DEF Next
<1>2. QInv /\ KInv' /\ [Next]_vars => [\A p \in Profile : Premise(p) => Kept(p)]_vars
  BY <1>1
<1> QED BY <1>2, TimelyInvariant, LoopInvariant, PTL DEF Spec, NextUpdateKept

-----------------------------------------------------------------------------
(* A first sync that a reconnect asks for in the midst of a window.  One chunk *)
(* at a time is late, by one run; the invariant tells the phases of the first  *)
(* sync apart.                                                                 *)

\* The longest loop, a run of a first sync and a run of a chunk fit the share of a
\* profile.
FitsTwice == 2 * MaxDuration + MaxLoop < Share

\* How long a due task waits: for one run of another profile.
MaxWait == IF Profiles = 1 THEN 0 ELSE MaxDuration

\* Time since the task of p became due, negative while it is not.
Overdue(p) == Window - keyLeft[p]

\* The chunk of a profile, whose moment was o ago: at most "late" late when it
\* waits and at most "begun" late when it began.
ChunkWaits(p, o, late) ==
  /\ \E s \in Slot :
       OneTask(p, s, [st |-> "waiting", in |-> IF o < 0 THEN 0 - o ELSE 0, tries |-> 0])
  /\ Overdue(p) = o /\ o <= late

ChunkRuns(p, o, begun) ==
  /\ OneTask(p, running.slot, [st |-> "active", in |-> 0, tries |-> 0])
  /\ Overdue(p) = o /\ o - running.age \in 0 .. begun

Ended(p) == NoTask(p) /\ (chunks[p] = 1 \/ skipped[p] = "now")

Chunk(p, o, late, begun) ==
  \/ p \in todo /\ ~Running(p) /\ NoTask(p)
  \/ p \notin todo /\ ~Running(p) /\ (Ended(p) \/ ChunkWaits(p, o, late))
  \/ p \notin todo /\ Running(p) /\ ChunkRuns(p, o, begun)

\* The first sync stands in for the chunk if it was asked for before, or during the
\* loop.
StandsIn(x) ==
  x \in todo \/ chunks[x] = 1 \/ skipped[x] = "now" \/ Elapsed <= Overdue(x) + MaxLoop

Before(o) == reconnects = 0 /\ \A p \in Profile : Chunk(p, o[p], 0, 0)

Asked(x, o) ==
  /\ reconnects = 1 /\ ~Running(x) /\ StandsIn(x)
  /\ \E s \in Slot : OneTask(x, s, [st |-> "waiting", in |-> 0, tries |-> 0])
  /\ Overdue(x) \in 0 .. MaxWait
  /\ \A p \in Profile \ {x} : Chunk(p, o[p], 0, 0)
  /\ running # Nobody => Overdue(x) <= running.age
  /\ Overdue(x) > 0 => \E q \in Profile \ todo : q # x /\ o[q] \in 1 .. MaxDuration

UnderWay(x, age, o) ==
  /\ reconnects = 1 /\ Running(x) /\ running.age = age /\ StandsIn(x)
  /\ OneTask(x, running.slot, [st |-> "active", in |-> 0, tries |-> 0])
  /\ Overdue(x) - age \in 0 .. MaxWait
  /\ \A p \in Profile \ {x} : Chunk(p, o[p], age, 0)

Over(o) ==
  /\ reconnects = 1
  /\ \A p \in Profile : IF running = Nobody THEN Chunk(p, o[p], MaxWait, MaxWait)
                                            ELSE Chunk(p, o[p], 0, MaxWait)

PhasesBy(o) ==
  \/ Before(o) \/ Over(o)
  \/ \E x \in Profile : Asked(x, o) \/ \E age \in 0 .. MaxDuration : UnderWay(x, age, o)

Phases == \E o \in [Profile -> Int] : Placed(o) /\ PhasesBy(o)

Quiet == ~failed /\ reconnects <= 1 /\ Ticking

RInv == KInv /\ (Quiet => Phases)

-----------------------------------------------------------------------------
(* What happens to one chunk. *)

LEMMA WaitFits ==
  ASSUME FitsTwice
  PROVE  /\ MaxWait \in Nat /\ MaxWait <= MaxDuration
         /\ MaxWait + MaxDuration < Window
         /\ MaxLoop + MaxDuration + MaxDuration < Share /\ Share <= Cadence
         /\ Share \in Nat /\ MaxLoop \in Nat /\ MaxDuration \in Nat \ {0} /\ Cadence \in Nat
         /\ \A p, q \in Profile : p # q => MaxWait = MaxDuration
<1>1. /\ Share \in Nat /\ Profiles * Share <= Cadence /\ Share <= Cadence
      /\ MaxLoop + MaxDuration + MaxDuration < Share
      /\ MaxLoop \in Nat /\ MaxDuration \in Nat \ {0} /\ Cadence \in Nat
  BY Shares, QueueAssumption, Quotient DEF Share, FitsTwice
<1>2. Cadence \div 12 \in Nat /\ 12 * (Cadence \div 12) <= Cadence
  BY QueueAssumption, Quotient
<1>3. Window = Cadence - Cadence \div 12
  BY DEF Window, uniqueWindow
<1>4. CASE Profiles = 1
  <2>1. MaxWait = 0 /\ \A p, q \in Profile : p = q
    BY <1>4 DEF MaxWait, Profile
  <2> HIDE DEF Share, Window
  <2> QED BY <1>1, <1>2, <1>3, <2>1, QueueAssumption
<1>5. CASE Profiles # 1
  <2>1. MaxWait = MaxDuration
    BY <1>5 DEF MaxWait
  <2>2. 2 * Share <= Cadence
    <3>1. PICK k \in Nat : Profiles = 2 + k
      <4>1. Profiles - 2 \in Nat /\ Profiles = 2 + (Profiles - 2)
        BY <1>5, QueueAssumption
      <4> QED BY <4>1
    <3> HIDE DEF Share
    <3>2. Profiles * Share = 2 * Share + k * Share /\ k * Share \in Nat
      BY <1>1, <3>1
    <3> QED BY <1>1, <3>2, QueueAssumption
  <2> HIDE DEF Share, Window
  <2> QED BY <1>1, <1>2, <1>3, <2>1, <2>2, QueueAssumption
<1> QED BY <1>4, <1>5

LEMMA KeyClock ==
  ASSUME KInv
  PROVE  /\ Window \in Nat /\ Window <= Cadence /\ Cadence \in Nat
         /\ \A p \in Profile :
              keyLeft[p] \in Nat /\ Overdue(p) = Window - keyLeft[p] /\ Overdue(p) \in Int
<1>1. Window \in 0 .. Cadence /\ Cadence \in Nat
  BY WindowBound, QueueAssumption
<1>2. \A p \in Profile : keyLeft[p] \in Nat
  BY Clock
<1> HIDE DEF Window
<1> QED BY <1>1, <1>2 DEF Overdue

LEMMA Zero == ASSUME FitsTwice PROVE 0 \in 0 .. MaxWait /\ MaxWait \in 0 .. MaxWait /\ 0 \in Nat
BY WaitFits

LEMMA ChunkMonotone ==
  ASSUME KInv, NEW p \in Profile, NEW o \in Int,
         NEW a \in Nat, NEW b \in Nat, NEW c \in Nat, NEW d \in Nat,
         a <= c, b <= d, Chunk(p, o, a, b)
  PROVE  Chunk(p, o, c, d)
<1>1. ChunkWaits(p, o, a) => ChunkWaits(p, o, c)
  BY DEF ChunkWaits
<1>2. Running(p) => running.age \in Nat
  BY DEF KInv, TypeOK, Running
<1>3. Running(p) /\ ChunkRuns(p, o, b) => ChunkRuns(p, o, d)
  BY <1>2 DEF ChunkRuns
<1> QED BY <1>1, <1>3 DEF Chunk

\* A task has its key until it ends.
LEMMA KeyHeld ==
  ASSUME KInv, FitsTwice, NEW p \in Profile, NEW o \in Int,
         NEW a \in 0 .. MaxWait, NEW b \in 0 .. MaxWait, Chunk(p, o, a, b)
  PROVE  NoTask(p) \/ keyLeft[p] > 0
<1>1. /\ MaxWait \in Nat /\ MaxWait + MaxDuration < Window /\ MaxWait <= MaxDuration
      /\ MaxDuration \in Nat /\ keyLeft[p] \in Nat /\ Window \in Nat
      /\ Overdue(p) = Window - keyLeft[p]
  BY WaitFits, KeyClock
<1>2. CASE ChunkWaits(p, o, a)
  <2>1. Overdue(p) = o /\ o <= a
    BY <1>2 DEF ChunkWaits
  <2> QED BY <1>1, <2>1
<1>3. CASE Running(p) /\ ChunkRuns(p, o, b)
  <2>1. Overdue(p) = o /\ o - running.age \in 0 .. b
    BY <1>3 DEF ChunkRuns
  <2>2. running.age \in 0 .. MaxDuration
    BY <1>3 DEF KInv, TypeOK, Running
  <2> QED BY <1>1, <2>1, <2>2
<1> QED BY <1>2, <1>3 DEF Chunk, Ended

\* What the life of a task is made of.
SameKey(p) == task'[p] = task[p] /\ keyLeft'[p] = keyLeft[p] /\ keyOf'[p] = keyOf[p]

SameTask(p) ==
  /\ SameKey(p) /\ chunks'[p] = chunks[p] /\ (skipped[p] = "now" => skipped'[p] = "now")
  /\ (p \in todo' <=> p \in todo)

LEMMA ChunkKept ==
  ASSUME NEW p \in Profile, NEW o, NEW a, NEW b, Chunk(p, o, a, b), SameTask(p),
         running' = running \/ (~Running(p) /\ ~Running(p)')
  PROVE  Chunk(p, o, a, b)'
<1> USE DEF SameTask, SameKey, NoTask, OneTask, Overdue, Window, uniqueWindow
<1>1. (NoTask(p)' <=> NoTask(p)) /\ (Ended(p) => Ended(p)')
  BY DEF Ended
<1>2. ChunkWaits(p, o, a)' <=> ChunkWaits(p, o, a)
  BY DEF ChunkWaits
<1>3. Running(p)' <=> Running(p)
  BY DEF Running
<1>4. Running(p) => (ChunkRuns(p, o, b)' <=> ChunkRuns(p, o, b))
  BY <1>3 DEF ChunkRuns, Running
<1> QED BY <1>1, <1>2, <1>3, <1>4 DEF Chunk

\* At the end of a window the chunk has been fetched, or a tick has missed it.
LEMMA ChunkAtEnd ==
  ASSUME KInv, FitsTwice, NEW o \in [Profile -> Int], Placed(o), nextTick = 0,
         NEW p \in Profile, NEW a \in 0 .. MaxWait, NEW b \in 0 .. MaxWait,
         Chunk(p, o[p], a, b)
  PROVE  Ended(p) /\ ~Running(p)
<1>1. /\ MaxWait \in Nat /\ MaxWait <= MaxDuration /\ MaxLoop + MaxDuration + MaxDuration < Share
      /\ Share \in Nat /\ Delay(p) \in Nat /\ Delay(p) + Share <= Cadence /\ Share <= Cadence
      /\ MaxDuration \in Nat /\ MaxLoop \in Nat /\ Cadence \in Nat
  BY WaitFits, Shares
<1>2. Elapsed = Cadence /\ todo = {}
  BY <1>1, Clock
<1>3. o[p] \in Int /\ o[p] > MaxDuration + MaxDuration
  <2>1. Cadence - o[p] <= Delay(p) + MaxLoop
    BY <1>1, <1>2 DEF Placed
  <2> QED BY <1>1, <2>1
<1>4. ~ChunkWaits(p, o[p], a)
  BY <1>1, <1>3 DEF ChunkWaits
<1>5. ASSUME Running(p), ChunkRuns(p, o[p], b) PROVE FALSE
  <2>1. running.age \in 0 .. MaxDuration
    BY <1>5 DEF KInv, TypeOK, Running
  <2>2. o[p] - running.age \in 0 .. b
    BY <1>5 DEF ChunkRuns
  <2> QED BY <1>1, <1>3, <2>1, <2>2
<1> QED BY <1>2, <1>4, <1>5 DEF Chunk

\* A tick lists every profile for a chunk of its window, or misses them all.
LEMMA TickMoves ==
  ASSUME KInv, FitsTwice, NEW o \in [Profile -> Int], Placed(o), Tick \/ TickFails
  PROVE  \E n \in [Profile -> Int] :
           /\ Placed(n)'
           /\ \A p \in Profile : \A a, b \in 0 .. MaxWait :
                Chunk(p, o[p], a, b) => \A c, d : Chunk(p, n[p], c, d)'
<1>1. /\ nextTick = 0 /\ nextTick' = Cadence
      /\ UNCHANGED <<queueVars, running>>
      /\ \/ todo' = Profile
         \/ todo' = {} /\ skipped' = [p \in Profile |-> "now"]
  BY DEF Tick, TickFails, TickComes, TickGivesUp
<1>2. /\ Elapsed' = 0 /\ MaxLoop \in Nat /\ Share \in Nat
      /\ \A p \in Profile : Delay(p) \in Nat /\ Delay(p)' = Delay(p)
  BY <1>1, Clock, QueueAssumption DEF Elapsed, Delay, staggerDelay
<1>3. PICK n \in [Profile -> Int] : n = [p \in Profile |-> 0 - Delay(p)]
  <2>1. \A p \in Profile : 0 - Delay(p) \in Int
    BY <1>2
  <2> QED BY <2>1
<1>4. \A p \in Profile : n[p] = 0 - Delay(p)
  BY <1>3
<1>5. ASSUME NEW p \in Profile, NEW q \in Profile, p < q PROVE n[q] + Share <= n[p]
  <2>1. Delay(p) + Share <= Delay(q)
    BY <1>5, Shares
  <2> QED BY <1>2, <1>4, <2>1
<1>6. ASSUME NEW p \in Profile
      PROVE  Elapsed' - n[p] \in Delay(p) - MaxLoop .. Delay(p) + MaxLoop
  BY <1>2, <1>4
<1>7. Placed(n)'
  BY <1>1, <1>2, <1>5, <1>6 DEF Placed, Share
<1>8. ASSUME NEW p \in Profile, NEW a \in 0 .. MaxWait, NEW b \in 0 .. MaxWait,
             Chunk(p, o[p], a, b), NEW c, NEW d
      PROVE  Chunk(p, n[p], c, d)'
  <2>1. Ended(p) /\ ~Running(p)
    BY <1>1, <1>8, ChunkAtEnd
  <2>2. NoTask(p)' /\ ~Running(p)'
    BY <1>1, <2>1 DEF queueVars, Ended, NoTask, Running
  <2>3. CASE todo' = Profile
    BY <2>2, <2>3 DEF Chunk
  <2>4. CASE todo' = {} /\ skipped' = [q \in Profile |-> "now"]
    <3>1. p \notin todo' /\ Ended(p)'
      BY <2>2, <2>4 DEF Ended
    <3> QED BY <2>2, <3>1 DEF Chunk
  <2> QED BY <1>1, <2>3, <2>4
<1> QED BY <1>7, <1>8

\* The loop of a tick takes its profiles one by one, or gives up: T of them.
LoopTakes(h, T) ==
  /\ h \in T /\ T \subseteq todo /\ todo' = todo \ T
  /\ nextTick' = nextTick \/ (todo' = {} /\ nextTick' = Cadence)
  /\ UNCHANGED <<running, chunks, reconnects>>
  /\ \A p \in Profile : skipped[p] = "now" => skipped'[p] = "now"
  /\ \A p \in T \ {h} : skipped'[p] = "now"
  /\ \A p \in Profile \ {h} : SameKey(p)
  /\ \/ SameKey(h) /\ (keyLeft[h] > 0 \/ skipped'[h] = "now")
     \/ keyLeft[h] = 0 /\ EnqueueSyncProfile(h, Delay(h))

LEMMA LoopTaking ==
  ASSUME KInv, EnqueueChunk \/ SkipProfile \/ EnqueueFails
  PROVE  \E h \in Profile, T \in SUBSET Profile : LoopTakes(h, T)
<1>1. PICK h \in Profile : h = Head /\ h \in todo /\ todo # {}
  BY HeadInTodo DEF EnqueueChunk, SkipProfile, EnqueueFails, KInv, TypeOK
<1>2. /\ task \in [Profile -> [Slot -> TaskRecord]] /\ todo \subseteq Profile
      /\ keyLeft \in [Profile -> Nat] /\ keyOf \in [Profile -> Slot \cup {0}]
      /\ skipped \in [Profile -> {"no", "now", "before"}]
  BY QueueAssumption DEF KInv, TypeOK, TaskRecord
<1>3. ASSUME EnqueueSyncProfile(h, Delay(h)) PROVE \A p \in Profile \ {h} : SameKey(p)
  BY <1>2, <1>3 DEF EnqueueSyncProfile, SameKey
<1>4. CASE EnqueueChunk
  <2>1. /\ LoopPast(Head) /\ EnqueueSyncProfile(h, Delay(h))
        /\ UNCHANGED <<skipped, running, chunks, reconnects>>
    BY <1>1, <1>4 DEF EnqueueChunk, Delay
  <2>2. /\ todo' = todo \ {h}
        /\ nextTick' = nextTick \/ (todo' = {} /\ nextTick' = Cadence)
    BY <1>1, <2>1, LoopGoesOn
  <2>3. keyLeft[h] > 0 => SameKey(h)
    BY <1>2, <2>1 DEF EnqueueSyncProfile, SameKey
  <2>4. keyLeft[h] > 0 \/ keyLeft[h] = 0
    BY <1>2
  <2>5. LoopTakes(h, {h})
    BY <1>1, <1>3, <2>1, <2>2, <2>3, <2>4 DEF LoopTakes
  <2> QED BY <2>5
<1>5. CASE SkipProfile
  <2>1. /\ LoopPast(Head) /\ skipped' = [skipped EXCEPT ![h] = "now"]
        /\ UNCHANGED <<queueVars, running, chunks, reconnects>>
    BY <1>1, <1>5 DEF SkipProfile
  <2>2. /\ todo' = todo \ {h}
        /\ nextTick' = nextTick \/ (todo' = {} /\ nextTick' = Cadence)
    BY <1>1, <2>1, LoopGoesOn
  <2>3. /\ \A p \in Profile : SameKey(p) /\ (skipped[p] = "now" => skipped'[p] = "now")
        /\ skipped'[h] = "now"
    BY <1>2, <2>1 DEF SameKey, queueVars
  <2>4. LoopTakes(h, {h})
    BY <1>1, <2>1, <2>2, <2>3 DEF LoopTakes
  <2> QED BY <2>4
<1>6. CASE EnqueueFails
  <2>1. /\ todo' = {} /\ nextTick' = nextTick /\ UNCHANGED <<running, chunks, reconnects>>
        /\ skipped' = [p \in Profile |-> IF p \in todo THEN "now" ELSE skipped[p]]
    BY <1>6 DEF EnqueueFails, TickGivesUp
  <2>2. /\ \A p \in Profile \ {h} : SameKey(p)
        /\ SameKey(h) \/ (keyLeft[h] = 0 /\ EnqueueSyncProfile(h, Delay(h)))
    <3>1. CASE UNCHANGED queueVars
      BY <3>1 DEF queueVars, SameKey
    <3>2. CASE keyLeft[h] = 0 /\ EnqueueSyncProfile(h, Delay(h))
      BY <1>3, <3>2
    <3> QED BY <1>1, <1>6, <3>1, <3>2 DEF EnqueueFails, Delay
  <2>3. PICK T \in SUBSET Profile : T = todo
    BY <1>2
  <2>4. LoopTakes(h, T)
    BY <1>1, <1>2, <2>1, <2>2, <2>3 DEF LoopTakes
  <2> QED BY <2>4
<1> QED BY <1>4, <1>5, <1>6

\* The task that the loop of a tick enqueues.
LEMMA ChunkEnqueue ==
  ASSUME KInv, NEW p \in Profile, NoTask(p), EnqueueSyncProfile(p, Delay(p))
  PROVE  \A a \in Nat : ChunkWaits(p, 0 - Delay(p), a)'
<1>1. PICK s \in Slot :
        /\ task' = [task EXCEPT ![p][s] = [st |-> "waiting", in |-> Delay(p), tries |-> 0]]
        /\ keyOf' = [keyOf EXCEPT ![p] = s]
        /\ keyLeft' = [keyLeft EXCEPT ![p] = Delay(p) + Window]
  BY DEF EnqueueSyncProfile, Window, NoTask
<1>2. Delay(p) \in Nat /\ Delay(p)' = Delay(p) /\ Window \in Nat /\ Window' = Window
  BY Clock, KeyClock DEF Delay, staggerDelay, Window, uniqueWindow
<1>3. keyLeft'[p] = Delay(p) + Window
  BY <1>1 DEF KInv, TypeOK
<1>4. Overdue(p)' = 0 - Delay(p)
  BY <1>2, <1>3 DEF Overdue
<1>5. OneTask(p, s, [st |-> "waiting", in |-> Delay(p), tries |-> 0])'
  BY <1>1 DEF KInv, TypeOK, NoTask, OneTask
<1>6. (IF 0 - Delay(p) < 0 THEN 0 - (0 - Delay(p)) ELSE 0) = Delay(p)
  BY <1>2
<1>7. \A a \in Nat : 0 - Delay(p) <= a
  BY <1>2
<1> QED BY <1>2, <1>4, <1>5, <1>6, <1>7 DEF ChunkWaits

\* The loop leaves alone whoever has a key, and places the chunks of the others.
LEMMA LoopMoves ==
  ASSUME KInv, Loop', NEW o \in [Profile -> Int], Placed(o),
         EnqueueChunk \/ SkipProfile \/ EnqueueFails
  PROVE  \E n \in [Profile -> Int] :
           /\ Placed(n)' /\ UNCHANGED <<running, reconnects>>
           /\ \A q \in Profile \ todo : n[q] = o[q] /\ q \notin todo'
           /\ \A p \in Profile : \A a \in Nat : \A b :
                Chunk(p, o[p], a, b) => Chunk(p, n[p], a, b)'
           /\ \A x \in Profile : keyLeft[x] > 0 =>
                SameKey(x) /\ (Overdue(x) \in Nat /\ StandsIn(x) => StandsIn(x)')
<1>1. PICK h \in Profile, T \in SUBSET Profile : LoopTakes(h, T)
  BY LoopTaking
<1>2. /\ T \subseteq Profile /\ todo # {} /\ h \in Profile
      /\ MaxLoop \in Nat /\ Elapsed \in Nat /\ Elapsed <= MaxLoop
      /\ \A p \in Profile : Delay(p) \in Nat /\ Delay(p)' = Delay(p)
  BY <1>1, Clock DEF LoopTakes, KInv, TypeOK, Delay, staggerDelay
<1>3. PICK n \in [Profile -> Int] :
        n = [p \in Profile |-> IF p \in T THEN 0 - Delay(p) ELSE o[p]]
  <2>1. \A p \in Profile : (IF p \in T THEN 0 - Delay(p) ELSE o[p]) \in Int
    BY <1>2
  <2> QED BY <2>1
<1>4. \A p \in Profile : n[p] = IF p \in T THEN 0 - Delay(p) ELSE o[p]
  BY <1>3
<1>5. Placed(n)'
  <2>1. \A p \in Profile \ todo', q \in todo' : p < q
    BY DEF Loop
  <2>2. Placed([p \in Profile |-> IF p \in T THEN 0 - Delay(p) ELSE o[p]])'
    BY <1>1, <1>2, <2>1, Place DEF LoopTakes
  <2> QED BY <1>2, <1>3, <2>2
<1>6. ASSUME NEW p \in Profile, NEW a \in Nat, NEW b, Chunk(p, o[p], a, b)
      PROVE  Chunk(p, n[p], a, b)'
  <2>1. CASE p \notin T
    <3>1. p # h /\ SameTask(p) /\ running' = running /\ n[p] = o[p]
      BY <1>1, <1>4, <2>1 DEF LoopTakes, SameTask
    <3> QED BY <1>6, <3>1, ChunkKept
  <2>2. CASE p \in T
    <3>1. NoTask(p) /\ ~Running(p) /\ ~Running(p)' /\ p \notin todo'
      BY <1>1, <1>6, <2>2 DEF LoopTakes, Chunk, Running
    <3>2. CASE SameKey(p) /\ skipped'[p] = "now"
      <4>1. Ended(p)'
        BY <3>1, <3>2 DEF Ended, NoTask, SameKey
      <4> QED BY <3>1, <4>1 DEF Chunk
    <3>3. CASE p = h /\ EnqueueSyncProfile(h, Delay(h))
      <4>1. ChunkWaits(p, n[p], a)'
        <5>1. n[p] = 0 - Delay(p) /\ (0 - Delay(p))' = 0 - Delay(p)
          BY <1>2, <1>4, <2>2
        <5>2. ChunkWaits(p, 0 - Delay(p), a)'
          BY <3>1, <3>3, ChunkEnqueue
        <5> QED BY <1>2, <5>1, <5>2 DEF ChunkWaits
      <4> QED BY <3>1, <4>1 DEF Chunk
    <3> QED BY <1>1, <2>2, <3>1, <3>2, <3>3 DEF LoopTakes, NoTask
  <2> QED BY <2>1, <2>2
<1>7. ASSUME NEW x \in Profile, keyLeft[x] > 0 PROVE SameKey(x)
  BY <1>1, <1>7 DEF LoopTakes
<1>8. ASSUME NEW x \in Profile, keyLeft[x] > 0, Overdue(x) \in Nat, StandsIn(x)
      PROVE  StandsIn(x)'
  <2>1. Overdue(x)' = Overdue(x) /\ chunks'[x] = chunks[x]
    BY <1>1, <1>7, <1>8 DEF LoopTakes, SameKey, Overdue, Window, uniqueWindow
  <2>2. Elapsed' = Elapsed \/ Elapsed' = 0
    BY <1>1, QueueAssumption DEF LoopTakes, Elapsed
  <2>3. Elapsed' <= Overdue(x)' + MaxLoop
    BY <1>2, <1>8, <2>1, <2>2
  <2> QED BY <2>3 DEF StandsIn
<1> QED BY <1>1, <1>4, <1>5, <1>6, <1>7, <1>8 DEF LoopTakes

\* The worker takes a task: the profile becomes the one that runs.
LEMMA TaskTaken ==
  ASSUME KInv, NEW p \in Profile, NEW s \in Slot, Dequeue(p, s), NEW r, NEW i \in Nat,
         OneTask(p, r, [st |-> "waiting", in |-> i, tries |-> 0])
  PROVE  /\ i = 0 /\ Running(p)' /\ running'.age = 0
         /\ OneTask(p, running.slot, [st |-> "active", in |-> 0, tries |-> 0])'
<1>1. /\ running' = [profile |-> p, slot |-> s, age |-> 0] /\ running = Nobody
      /\ task' = [task EXCEPT ![p][s].st = "active"] /\ keyOf' = keyOf
      /\ Due(p, s)
  BY DEF Dequeue
<1>2. r = s /\ i = 0
  BY <1>1 DEF OneTask, Due, Empty
<1>3. running' # Nobody /\ running'.profile = p /\ running'.slot = s /\ running'.age = 0
  BY <1>1, QueueAssumption DEF Nobody, Profile
<1>4. task'[p] = [task[p] EXCEPT ![s] = [task[p][s] EXCEPT !.st = "active"]]
  BY <1>1 DEF KInv, TypeOK
<1>5. task'[p] = [q \in Slot |-> IF q = s THEN [st |-> "active", in |-> 0, tries |-> 0] ELSE Empty]
  BY <1>2, <1>4 DEF OneTask
<1> QED BY <1>1, <1>2, <1>3, <1>5 DEF OneTask, Running

LEMMA ChunkDequeue ==
  ASSUME KInv, NEW p \in Profile, NEW s \in Slot, Dequeue(p, s),
         NEW o \in Int, NEW a \in Nat, NEW b \in Nat, Chunk(p, o, a, b)
  PROVE  /\ p \notin todo /\ o \in 0 .. a
         /\ \A d \in Nat : o <= d => \A c : Chunk(p, o, c, d)'
<1>1. running = Nobody /\ Due(p, s)
  BY DEF Dequeue
<1>2. ~NoTask(p) /\ ~Running(p)
  BY <1>1 DEF Due, NoTask, Empty, Running
<1>3. p \notin todo /\ ChunkWaits(p, o, a)
  BY <1>2 DEF Chunk, Ended
<1>5. PICK r \in Slot, i \in Nat :
        /\ OneTask(p, r, [st |-> "waiting", in |-> i, tries |-> 0])
        /\ i = IF o < 0 THEN 0 - o ELSE 0
  BY <1>3 DEF ChunkWaits
<1>6. /\ i = 0 /\ Running(p)' /\ running'.age = 0
      /\ OneTask(p, running.slot, [st |-> "active", in |-> 0, tries |-> 0])'
  BY <1>5, TaskTaken
<1>7. o \in 0 .. a
  BY <1>3, <1>5, <1>6 DEF ChunkWaits
<1>8. Overdue(p)' = o /\ p \notin todo'
  BY <1>3 DEF Dequeue, ChunkWaits, Overdue, Window, uniqueWindow
<1>9. ASSUME NEW d \in Nat, o <= d, NEW c PROVE Chunk(p, o, c, d)'
  <2>1. (o - running.age)' \in 0 .. d
    BY <1>6, <1>7, <1>9
  <2>2. ChunkRuns(p, o, d)'
    BY <1>6, <1>8, <2>1 DEF ChunkRuns
  <2> QED BY <1>6, <1>8, <2>2 DEF Chunk
<1> QED BY <1>3, <1>7, <1>9

\* A run that succeeds leaves nothing but its chunk.
LEMMA TaskDone ==
  ASSUME KInv, Succeed, NEW p \in Profile, Running(p), keyLeft[p] > 0,
         OneTask(p, running.slot, [st |-> "active", in |-> 0, tries |-> 0])
  PROVE  \A o, c, d : Chunk(p, o, c, d)'
<1>1. PICK s \in Slot : s = running.slot /\ p = running.profile
  BY DEF OneTask, Running
<1>2. keyOf[p] = s
  BY <1>1 DEF OneTask
<1>3. /\ task' = [task EXCEPT ![p][s] = Empty]
      /\ keyLeft' = [keyLeft EXCEPT ![p] = 0]
      /\ chunks' = [chunks EXCEPT ![p] = IF @ = 0 THEN 1 ELSE @]
      /\ running' = Nobody /\ todo' = todo
  BY <1>1, <1>2 DEF Succeed, tickVars
<1>4. task'[p] = [r \in Slot |-> Empty]
  <2>1. task'[p] = [task[p] EXCEPT ![s] = Empty]
    BY <1>3 DEF KInv, TypeOK
  <2> QED BY <1>1, <2>1 DEF OneTask
<1>5. keyLeft'[p] = 0 /\ chunks'[p] = 1
  BY <1>3 DEF KInv, TypeOK
<1>6. NoTask(p)' /\ Ended(p)' /\ ~Running(p)'
  BY <1>3, <1>4, <1>5 DEF NoTask, Ended, Running
<1> QED BY <1>6 DEF Chunk

LEMMA ChunkSucceed ==
  ASSUME KInv, FitsTwice, Succeed, NEW p \in Profile, Running(p), NEW o \in Int,
         NEW a \in 0 .. MaxWait, NEW b \in 0 .. MaxWait, Chunk(p, o, a, b)
  PROVE  \A c, d : Chunk(p, o, c, d)'
<1>1. ChunkRuns(p, o, b)
  BY DEF Chunk
<1>2. running.slot \in Slot
  BY <1>1 DEF ChunkRuns, OneTask
<1>3. ~NoTask(p)
  BY <1>1, <1>2 DEF ChunkRuns, OneTask, NoTask, Empty
<1>4. keyLeft[p] > 0
  BY <1>3, KeyHeld
<1> QED BY <1>1, <1>4, TaskDone DEF ChunkRuns

\* A unit of time passes for a task.
LEMMA TaskElapse ==
  ASSUME KInv, Elapse, NEW p \in Profile
  PROVE  /\ \A s, i : \A st \in {"waiting", "active"} :
              i \in Nat /\ OneTask(p, s, [st |-> st, in |-> i, tries |-> 0]) =>
                OneTask(p, s, [st |-> st, in |-> IF i = 0 THEN 0 ELSE i - 1, tries |-> 0])'
         /\ NoTask(p) => NoTask(p)'
         /\ keyLeft[p] > 0 => Overdue(p)' = Overdue(p) + 1
<1>1. task'[p] = [r \in Slot |-> [task[p][r] EXCEPT !.in = IF @ = 0 THEN 0 ELSE @ - 1]]
  BY DEF Elapse
<1>2. [Empty EXCEPT !.in = IF @ = 0 THEN 0 ELSE @ - 1] = Empty
  BY DEF Empty
<1>3. keyOf' = keyOf /\ keyLeft'[p] = (IF keyLeft[p] = 0 THEN 0 ELSE keyLeft[p] - 1)
  BY DEF Elapse
<1>4. ASSUME NEW s, NEW i \in Nat, NEW st \in {"waiting", "active"},
             OneTask(p, s, [st |-> st, in |-> i, tries |-> 0])
      PROVE  OneTask(p, s, [st |-> st, in |-> IF i = 0 THEN 0 ELSE i - 1, tries |-> 0])'
  <2>1. \A r \in Slot : task[p][r] = IF r = s THEN [st |-> st, in |-> i, tries |-> 0] ELSE Empty
    BY <1>4 DEF OneTask
  <2>2. \A r \in Slot :
          [task[p][r] EXCEPT !.in = IF @ = 0 THEN 0 ELSE @ - 1] =
            IF r = s THEN [st |-> st, in |-> IF i = 0 THEN 0 ELSE i - 1, tries |-> 0] ELSE Empty
    BY <2>1, <1>2
  <2> QED BY <1>1, <1>3, <1>4, <2>2 DEF OneTask
<1>5. NoTask(p) => NoTask(p)'
  BY <1>1, <1>2, <1>3 DEF NoTask
<1>6. ASSUME keyLeft[p] > 0 PROVE Overdue(p)' = Overdue(p) + 1
  <2>1. keyLeft[p] \in Nat /\ Window \in Nat
    BY KeyClock
  <2>2. Window' = Window
    BY DEF Window, uniqueWindow
  <2> QED BY <1>3, <1>6, <2>1, <2>2 DEF Overdue
<1> QED BY <1>4, <1>5, <1>6

LEMMA ClockElapse ==
  ASSUME KInv, Ticking, Elapse
  PROVE  /\ Elapsed' = Elapsed + 1 /\ UNCHANGED <<todo, chunks, skipped, reconnects>>
         /\ \A p \in Profile : Running(p)' <=> Running(p)
         /\ running # Nobody =>
              /\ running.age \in Nat /\ running.age < MaxDuration
              /\ running'.age = running.age + 1 /\ running'.slot = running.slot
         /\ running = Nobody <=> running' = Nobody
<1>1. Elapsed' = Elapsed + 1 /\ UNCHANGED <<todo, chunks, skipped, reconnects>>
  BY Clock, QueueAssumption DEF Elapse, Elapsed, Ticking
<1>2. CASE running = Nobody
  BY <1>1, <1>2 DEF Elapse, Running
<1>3. CASE running # Nobody
  <2>1. running \in [profile : Profile, slot : Slot, age : 0 .. MaxDuration]
    BY <1>3 DEF KInv, TypeOK
  <2>2. running' = [running EXCEPT !.age = @ + 1] /\ running.age < MaxDuration
    BY <1>3 DEF Elapse
  <2>3. running'.profile = running.profile /\ running' # Nobody
    BY <2>1, <2>2, QueueAssumption DEF Nobody, Profile
  <2> QED BY <1>1, <1>3, <2>1, <2>2, <2>3 DEF Running
<1> QED BY <1>2, <1>3

LEMMA RunElapse ==
  ASSUME KInv, Ticking, Elapse, NEW p \in Profile, Running(p),
         OneTask(p, running.slot, [st |-> "active", in |-> 0, tries |-> 0])
  PROVE  OneTask(p, running.slot, [st |-> "active", in |-> 0, tries |-> 0])'
<1>1. PICK s : s = running.slot
  OBVIOUS
<1>2. running'.slot = s
  BY <1>1, ClockElapse DEF Running
<1>3. OneTask(p, s, [st |-> "active", in |-> IF 0 = 0 THEN 0 ELSE 0 - 1, tries |-> 0])'
  BY <1>1, TaskElapse
<1> QED BY <1>2, <1>3 DEF OneTask

LEMMA ChunkElapse ==
  ASSUME KInv, FitsTwice, Ticking, Elapse, NEW p \in Profile, NEW o \in Int,
         NEW a \in 0 .. MaxWait, NEW b \in 0 .. MaxWait, Chunk(p, o, a, b),
         NEW c, ~Running(p) /\ p \notin todo /\ ChunkWaits(p, o, a) => o + 1 <= c,
         NEW n \in Int, n = o + 1
  PROVE  Chunk(p, n, c, b)'
<1>1. todo' = todo /\ chunks' = chunks /\ skipped' = skipped /\ (Running(p)' <=> Running(p))
  BY ClockElapse
<1>2. NoTask(p) \/ keyLeft[p] > 0
  BY KeyHeld
<1>3. CASE p \in todo
  BY <1>1, <1>3, TaskElapse DEF Chunk
<1>4. CASE p \notin todo /\ ~Running(p) /\ Ended(p)
  <2>1. Ended(p)'
    BY <1>1, <1>4, TaskElapse DEF Ended
  <2> QED BY <1>1, <1>4, <2>1 DEF Chunk
<1>5. CASE p \notin todo /\ ~Running(p) /\ ChunkWaits(p, o, a)
  <2>1. PICK s \in Slot, i \in Nat :
          /\ OneTask(p, s, [st |-> "waiting", in |-> i, tries |-> 0])
          /\ i = IF o < 0 THEN 0 - o ELSE 0
    BY <1>5 DEF ChunkWaits
  <2>2. OneTask(p, s, [st |-> "waiting", in |-> IF i = 0 THEN 0 ELSE i - 1, tries |-> 0])'
    BY <2>1, TaskElapse
  <2>3. (IF i = 0 THEN 0 ELSE i - 1) = (IF n < 0 THEN 0 - n ELSE 0)
    BY <2>1
  <2>4. keyLeft[p] > 0
    BY <1>2, <2>1 DEF OneTask, NoTask, Empty
  <2>5. Overdue(p)' = n
    BY <1>5, <2>4, TaskElapse DEF ChunkWaits
  <2>6. OneTask(p, s, [st |-> "waiting", in |-> IF n < 0 THEN 0 - n ELSE 0, tries |-> 0])'
    BY <2>2, <2>3
  <2>7. ChunkWaits(p, n, c)'
    BY <1>5, <2>5, <2>6 DEF ChunkWaits
  <2> QED BY <1>1, <1>5, <2>7 DEF Chunk
<1>6. CASE p \notin todo /\ Running(p) /\ ChunkRuns(p, o, b)
  <2>1. /\ running.age \in Nat /\ running'.age = running.age + 1 /\ running'.slot = running.slot
    BY <1>6, ClockElapse DEF Running
  <2>2. OneTask(p, running.slot, [st |-> "active", in |-> 0, tries |-> 0])'
    BY <1>6, RunElapse DEF ChunkRuns
  <2>3. running.slot \in Slot
    BY <1>6 DEF ChunkRuns, OneTask
  <2>4. keyLeft[p] > 0
    BY <1>2, <1>6, <2>3 DEF ChunkRuns, OneTask, NoTask, Empty
  <2>5. Overdue(p)' = n
    BY <1>6, <2>4, TaskElapse DEF ChunkRuns
  <2>6. n - running'.age \in 0 .. b
    BY <1>6, <2>1 DEF ChunkRuns
  <2>7. ChunkRuns(p, n, b)'
    BY <2>2, <2>5, <2>6 DEF ChunkRuns
  <2> QED BY <1>1, <1>6, <2>7 DEF Chunk
<1> QED BY <1>3, <1>4, <1>5, <1>6 DEF Chunk

\* Nobody but the profile of a task is concerned with it.
LEMMA OthersKept ==
  ASSUME KInv, NEW q \in Profile,
         \/ OAuthEnqueue(q)
         \/ \E s \in Slot : Dequeue(q, s)
         \/ Succeed /\ Running(q)
  PROVE  \A p \in Profile \ {q} :
           SameTask(p) /\ \A o, a, b : Chunk(p, o, a, b) => Chunk(p, o, a, b)'
<1>1. ASSUME NEW p \in Profile \ {q}
      PROVE  /\ SameTask(p)
             /\ running' = running \/ (~Running(p) /\ ~Running(p)')
  <2>1. CASE OAuthEnqueue(q)
    <3>1. SameKey(p)
      BY <2>1 DEF OAuthEnqueue, EnqueueSyncProfile, KInv, TypeOK, SameKey
    <3> QED BY <2>1, <3>1 DEF OAuthEnqueue, tickVars, SameTask
  <2>2. ASSUME NEW s \in Slot, Dequeue(q, s)
        PROVE  SameTask(p) /\ ~Running(p) /\ ~Running(p)'
    BY <2>2 DEF Dequeue, SameTask, SameKey, Running, KInv, TypeOK
  <2>3. CASE Succeed /\ Running(q)
    <3>1. running.profile = q /\ UNCHANGED <<todo, skipped>> /\ running' = Nobody
      BY <2>3 DEF Succeed, Running, tickVars
    <3>2. SameKey(p) /\ chunks'[p] = chunks[p]
      BY <2>3, <3>1 DEF Succeed, KInv, TypeOK, SameKey
    <3> QED BY <2>3, <3>1, <3>2 DEF SameTask, Running
  <2> QED BY <2>1, <2>2, <2>3
<1> QED BY <1>1, ChunkKept

\* Time does not pass while the worker is free and a task is due.
LEMMA NotDueIdle ==
  ASSUME KInv, Elapse, running = Nobody, NEW p \in Profile, NEW o \in Int, NEW a,
         ChunkWaits(p, o, a)
  PROVE  o < 0
<1>1. PICK s \in Slot :
        OneTask(p, s, [st |-> "waiting", in |-> IF o < 0 THEN 0 - o ELSE 0, tries |-> 0])
  BY DEF ChunkWaits, OneTask
<1>2. ~Due(p, s)
  BY DEF Elapse
<1> QED BY <1>1, <1>2 DEF Due, OneTask

\* A chunk that runs is done before the next one is due.
LEMMA NotDueBusy ==
  ASSUME KInv, FitsTwice, Ticking, Elapse, NEW o \in [Profile -> Int], Placed(o),
         NEW q \in Profile \ todo, Running(q), NEW b \in 0 .. MaxWait, ChunkRuns(q, o[q], b),
         NEW p \in Profile \ todo, p # q, ChunkWaits(p, o[p], 0)
  PROVE  o[p] < 0
<1>1. /\ MaxWait \in Nat /\ MaxWait <= MaxDuration /\ MaxLoop + MaxDuration + MaxDuration < Share
      /\ MaxDuration \in Nat /\ Share \in Nat /\ MaxLoop \in Nat
      /\ o[p] \in Int /\ o[q] \in Int
  BY WaitFits
<1>2. running.age \in Nat /\ running.age < MaxDuration
  BY ClockElapse DEF Running
<1>3. o[q] - running.age \in 0 .. b /\ o[p] <= 0
  BY DEF ChunkRuns, ChunkWaits
<1>4. o[p] + Share <= o[q] \/ o[q] + Share <= o[p]
  BY Distant
<1> QED BY <1>1, <1>2, <1>3, <1>4

\* The profile of a run.
LEMMA Runner ==
  ASSUME KInv, running # Nobody
  PROVE  \E q \in Profile : Running(q)
BY RunType DEF KInv, Running

-----------------------------------------------------------------------------
(* The phases: no first sync has been asked for; it waits; it runs; over. *)

\* A first sync has its key until it ends, which is before the window is over.
LEMMA FirstSyncHeld ==
  ASSUME KInv, FitsTwice, NEW x \in Profile, NEW o,
         Asked(x, o) \/ \E age \in 0 .. MaxDuration : UnderWay(x, age, o)
  PROVE  keyLeft[x] > 0 /\ Overdue(x) \in Nat /\ Overdue(x) + MaxLoop < Cadence
<1>1. /\ MaxWait \in Nat /\ MaxDuration \in Nat /\ MaxWait + MaxDuration < Window
      /\ MaxWait <= MaxDuration /\ MaxLoop + MaxDuration + MaxDuration < Share
      /\ Share \in Nat /\ MaxLoop \in Nat /\ Share <= Cadence
      /\ keyLeft[x] \in Nat /\ Window \in Nat /\ Cadence \in Nat
      /\ Overdue(x) = Window - keyLeft[x]
  BY WaitFits, KeyClock
<1>2. CASE Asked(x, o)
  BY <1>1, <1>2 DEF Asked
<1>3. ASSUME NEW age \in 0 .. MaxDuration, UnderWay(x, age, o)
      PROVE  keyLeft[x] > 0 /\ Overdue(x) \in Nat /\ Overdue(x) + MaxLoop < Cadence
  BY <1>1, <1>3 DEF UnderWay
<1> QED BY <1>2, <1>3

\* A chunk is late by no more than the first sync has run.
LEMMA LateByOneRun ==
  ASSUME KInv, FitsTwice, NEW x \in Profile, NEW o, NEW age \in 0 .. MaxDuration,
         UnderWay(x, age, o), NEW p \in Profile \ {x}
  PROVE  age \in 0 .. MaxWait /\ Chunk(p, o[p], age, 0) /\ ~Running(p)
<1>1. MaxWait = MaxDuration
  BY WaitFits
<1> QED BY <1>1 DEF UnderWay, Running

\* Who asked for a first sync has had a chunk of its window, or gets one from it.
LEMMA StillStandsIn ==
  ASSUME NEW x \in Profile, StandsIn(x), SameTask(x), nextTick' = nextTick
  PROVE  StandsIn(x)' /\ Overdue(x)' = Overdue(x)
BY DEF StandsIn, SameTask, SameKey, Overdue, Window, uniqueWindow, Elapsed

LEMMA StandsInLater ==
  ASSUME KInv, Ticking, Elapse, NEW x \in Profile, StandsIn(x), keyLeft[x] > 0
  PROVE  StandsIn(x)' /\ Overdue(x)' = Overdue(x) + 1
<1>1. Overdue(x)' = Overdue(x) + 1 /\ Overdue(x) \in Int /\ Elapsed \in Int /\ MaxLoop \in Int
  BY TaskElapse, KeyClock, Clock
<1>2. Elapsed' = Elapsed + 1 /\ UNCHANGED <<todo, chunks, skipped>>
  BY ClockElapse
<1> QED BY <1>1, <1>2 DEF StandsIn

LEMMA BeforeStep ==
  ASSUME KInv, Loop', FitsTwice, Ticking, NEW o \in [Profile -> Int], Placed(o), Before(o),
         Next, ~failed', reconnects' <= 1
  PROVE  Phases'
<1>0. /\ \A p \in Profile : Chunk(p, o[p], 0, 0)
      /\ reconnects = 0 /\ MaxWait \in Nat
  BY WaitFits DEF Before
<1>1. CASE Tick \/ TickFails
  <2>1. PICK n \in [Profile -> Int] :
          /\ Placed(n)'
          /\ \A p \in Profile : \A a, b \in 0 .. MaxWait :
               Chunk(p, o[p], a, b) => \A c, d : Chunk(p, n[p], c, d)'
    BY <1>1, TickMoves
  <2>2. Before(n)'
    BY <1>0, <1>1, <2>1, Zero DEF Before, Tick, TickFails, TickComes
  <2> QED BY <2>1, <2>2 DEF Phases, PhasesBy
<1>2. CASE EnqueueChunk \/ SkipProfile \/ EnqueueFails
  <2>1. PICK n \in [Profile -> Int] :
          /\ Placed(n)' /\ UNCHANGED <<running, reconnects>>
          /\ \A p \in Profile : \A a \in Nat : \A b :
               Chunk(p, o[p], a, b) => Chunk(p, n[p], a, b)'
    BY <1>2, LoopMoves
  <2>2. Before(n)'
    BY <1>0, <2>1, Zero DEF Before
  <2> QED BY <2>1, <2>2 DEF Phases, PhasesBy
<1>3. ASSUME NEW x \in Profile, OAuthEnqueue(x) PROVE Phases'
  <2>0. reconnects' = 1 /\ running' = running /\ nextTick' = nextTick /\ todo' = todo
        /\ chunks' = chunks /\ skipped' = skipped /\ EnqueueSyncProfile(x, 0)
    BY <1>0, <1>3 DEF OAuthEnqueue, tickVars
  <2>p. Placed(o)'
    BY <2>0, StillPlaced
  <2>1. CASE keyLeft[x] > 0
    <3>1. task' = task /\ keyLeft' = keyLeft /\ keyOf' = keyOf
      BY <2>0, <2>1 DEF EnqueueSyncProfile
    <3>2. \A p \in Profile : SameTask(p)
      BY <2>0, <3>1 DEF SameTask, SameKey
    <3>3. \A p \in Profile : Chunk(p, o[p], 0, MaxWait) /\ Chunk(p, o[p], MaxWait, MaxWait)
      BY <1>0, ChunkMonotone
    <3>4. \A p \in Profile : Chunk(p, o[p], 0, MaxWait)' /\ Chunk(p, o[p], MaxWait, MaxWait)'
      BY <2>0, <3>2, <3>3, ChunkKept DEF MaxWait
    <3>5. Over(o)'
      BY <2>0, <3>4 DEF Over
    <3> QED BY <2>p, <3>5 DEF Phases, PhasesBy
  <2>2. CASE keyLeft[x] = 0
    <3>1. NoTask(x)
      BY <1>0, <2>2, Zero, KeyHeld
    <3>2. ~Running(x) /\ (x \in todo \/ chunks[x] = 1 \/ skipped[x] = "now")
      <4>1. ASSUME Running(x), ChunkRuns(x, o[x], 0) PROVE FALSE
        <5>1. running.slot \in Slot
          BY <4>1 DEF ChunkRuns, OneTask
        <5> QED BY <3>1, <4>1, <5>1 DEF ChunkRuns, OneTask, NoTask, Empty
      <4>2. ~ChunkWaits(x, o[x], 0)
        BY <3>1 DEF ChunkWaits, OneTask, NoTask, Empty
      <4> QED BY <1>0, <4>1, <4>2 DEF Chunk, Ended
    <3>3. PICK s \in Slot :
            /\ task' = [task EXCEPT ![x][s] = [st |-> "waiting", in |-> 0, tries |-> 0]]
            /\ keyOf' = [keyOf EXCEPT ![x] = s]
            /\ keyLeft' = [keyLeft EXCEPT ![x] = 0 + Window]
      BY <2>0, <2>2 DEF EnqueueSyncProfile, Window
    <3>4. OneTask(x, s, [st |-> "waiting", in |-> 0, tries |-> 0])'
      BY <3>1, <3>3 DEF KInv, TypeOK, NoTask, OneTask
    <3>5. Overdue(x)' = 0
      <4>1. keyLeft'[x] = 0 + Window /\ Window \in Nat /\ Window' = Window
        BY <3>3, KeyClock DEF KInv, TypeOK, Window, uniqueWindow
      <4> QED BY <4>1 DEF Overdue
    <3>6. \A p \in Profile \ {x} : Chunk(p, o[p], 0, 0)'
      BY <1>0, <1>3, OthersKept
    <3>7. ~Running(x)' /\ StandsIn(x)'
      BY <2>0, <3>2 DEF Running, StandsIn
    <3>8. running' # Nobody => 0 <= running'.age
      BY <2>0 DEF KInv, TypeOK
    <3>9. Overdue(x)' \in 0 .. MaxWait /\ ~ (Overdue(x)' > 0) /\ MaxWait' = MaxWait
      BY <1>0, <3>5 DEF MaxWait
    <3>10. Asked(x, o)'
      BY <2>0, <3>4, <3>5, <3>6, <3>7, <3>8, <3>9 DEF Asked
    <3> QED BY <2>p, <3>10 DEF Phases, PhasesBy
  <2>3. keyLeft[x] \in Nat
    BY Clock
  <2> QED BY <2>1, <2>2, <2>3
<1>4. ASSUME NEW q \in Profile, NEW s \in Slot, Dequeue(q, s) PROVE Phases'
  <2>1. o[q] \in 0 .. 0 /\ \A d \in Nat : o[q] <= d => \A c : Chunk(q, o[q], c, d)'
    BY <1>0, <1>4, ChunkDequeue
  <2>2. Chunk(q, o[q], 0, 0)'
    BY <2>1
  <2>3. \A p \in Profile \ {q} : Chunk(p, o[p], 0, 0)'
    BY <1>0, <1>4, OthersKept
  <2>4. reconnects' = 0 /\ Placed(o)'
    BY <1>0, <1>4, StillPlaced DEF Dequeue
  <2>5. Before(o)'
    BY <2>2, <2>3, <2>4 DEF Before
  <2> QED BY <2>4, <2>5 DEF Phases, PhasesBy
<1>5. CASE Succeed
  <2>1. PICK q \in Profile : Running(q)
    BY <1>5, Runner DEF Succeed
  <2>2. Chunk(q, o[q], 0, 0)'
    BY <1>0, <1>5, <2>1, Zero, ChunkSucceed
  <2>3. \A p \in Profile \ {q} : Chunk(p, o[p], 0, 0)'
    BY <1>0, <1>5, <2>1, OthersKept
  <2>4. reconnects' = 0 /\ Placed(o)'
    BY <1>0, <1>5, StillPlaced DEF Succeed, tickVars
  <2>5. Before(o)'
    BY <2>2, <2>3, <2>4 DEF Before
  <2> QED BY <2>4, <2>5 DEF Phases, PhasesBy
<1>6. CASE Elapse
  <2>0. PICK n \in [Profile -> Int] : n = [p \in Profile |-> o[p] + 1] /\ Placed(n)'
    BY <1>6, MomentsElapse
  <2>1. ASSUME NEW p \in Profile PROVE Chunk(p, n[p], 0, 0)'
    <3>1. ASSUME ~Running(p), p \notin todo, ChunkWaits(p, o[p], 0) PROVE o[p] < 0
      <4>1. CASE running = Nobody
        BY <1>6, <3>1, <4>1, NotDueIdle
      <4>2. CASE running # Nobody
        <5>1. PICK q \in Profile : Running(q)
          BY <4>2, Runner
        <5>2. q \notin todo /\ ChunkRuns(q, o[q], 0) /\ p # q
          BY <1>0, <3>1, <5>1 DEF Chunk
        <5> QED BY <1>6, <3>1, <5>1, <5>2, Zero, NotDueBusy
      <4> QED BY <4>1, <4>2
    <3>2. ~Running(p) /\ p \notin todo /\ ChunkWaits(p, o[p], 0) => o[p] + 1 <= 0
      BY <3>1
    <3>3. n[p] \in Int /\ n[p] = o[p] + 1
      BY <2>0
    <3> QED BY <1>0, <1>6, <3>2, <3>3, Zero, ChunkElapse
  <2>2. Before(n)'
    BY <1>0, <1>6, <2>1, ClockElapse DEF Before
  <2> QED BY <2>0, <2>2 DEF Phases, PhasesBy
<1>7. ~Fail /\ \A p \in Profile, s \in Slot : ~FailEarly(p, s)
  BY DEF Fail, FailEarly
<1> QED BY <1>1, <1>2, <1>3, <1>4, <1>5, <1>6, <1>7 DEF Next

LEMMA AskedStep ==
  ASSUME KInv, Loop', FitsTwice, Ticking, NEW o \in [Profile -> Int], Placed(o),
         NEW x \in Profile, Asked(x, o), Next, ~failed', reconnects' <= 1
  PROVE  Phases'
<1>0. /\ reconnects = 1 /\ ~Running(x) /\ StandsIn(x) /\ Overdue(x) \in 0 .. MaxWait
      /\ \A p \in Profile \ {x} : Chunk(p, o[p], 0, 0)
      /\ running # Nobody => Overdue(x) <= running.age
      /\ Overdue(x) > 0 => \E q \in Profile \ todo : q # x /\ o[q] \in 1 .. MaxDuration
      /\ MaxWait \in Nat /\ MaxWait <= MaxDuration /\ MaxWait' = MaxWait
      /\ MaxLoop + MaxDuration + MaxDuration < Share /\ Share <= Cadence
      /\ MaxDuration \in Nat \ {0} /\ Share \in Nat /\ Cadence \in Nat /\ MaxLoop \in Nat
      /\ keyLeft[x] > 0 /\ Overdue(x) \in Nat
  BY WaitFits, FirstSyncHeld DEF Asked, MaxWait
<1>s. PICK s \in Slot : OneTask(x, s, [st |-> "waiting", in |-> 0, tries |-> 0])
  BY DEF Asked
<1>k. ASSUME SameKey(x), StandsIn(x)', reconnects' = reconnects,
             running' = running \/ running' = Nobody \/ Overdue(x) = 0,
             running' # Nobody => running'.age \in Nat /\ running'.profile # x,
             NEW n \in [Profile -> Int], Placed(n)',
             \A q \in Profile \ todo : n[q] = o[q] /\ q \notin todo',
             \A p \in Profile \ {x} : Chunk(p, n[p], 0, 0)'
      PROVE  Phases'
  <2>1. Overdue(x)' = Overdue(x)
    BY <1>k DEF SameKey, Overdue, Window, uniqueWindow
  <2>2. OneTask(x, s, [st |-> "waiting", in |-> 0, tries |-> 0])'
    BY <1>s, <1>k DEF SameKey, OneTask
  <2>3. ~Running(x)'
    BY <1>k DEF Running
  <2>4. running' # Nobody => Overdue(x)' <= running'.age
    BY <1>0, <1>k, <2>1
  <2>5. Overdue(x)' > 0 => \E q \in Profile \ todo' : q # x /\ n[q] \in 1 .. MaxDuration
    BY <1>0, <1>k, <2>1
  <2>6. Asked(x, n)'
    BY <1>0, <1>k, <2>1, <2>2, <2>3, <2>4, <2>5 DEF Asked
  <2> QED BY <1>k, <2>6 DEF Phases, PhasesBy
<1>r. running # Nobody => running.age \in Nat /\ running.profile # x
  BY <1>0 DEF KInv, TypeOK, Running
<1>1. CASE Tick \/ TickFails
  <2>0. /\ nextTick = 0 /\ nextTick' = Cadence
        /\ UNCHANGED <<keyLeft, keyOf, task, running, reconnects>>
        /\ (todo' = Profile \/ skipped'[x] = "now")
    BY <1>1 DEF Tick, TickFails, TickComes, TickGivesUp, queueVars
  <2>1. Elapsed = Cadence /\ todo = {}
    BY <1>0, <2>0, Clock
  <2>2. Overdue(x) = 0
    <3>1. ASSUME NEW q \in Profile \ todo, o[q] \in 1 .. MaxDuration PROVE FALSE
      <4>1. Delay(q) \in Nat /\ Delay(q) + Share <= Cadence /\ Cadence - o[q] <= Delay(q) + MaxLoop
        BY <2>1, Shares DEF Placed
      <4> QED BY <1>0, <3>1, <4>1
    <3> QED BY <1>0, <3>1
  <2>3. running = Nobody
    <3>1. \A q \in Profile \ {x} : ~Running(q)
      BY <1>0, <2>0, Zero, ChunkAtEnd
    <3> QED BY <1>0, <3>1, Runner
  <2>4. PICK n \in [Profile -> Int] :
          /\ Placed(n)'
          /\ \A p \in Profile : \A a, b \in 0 .. MaxWait :
               Chunk(p, o[p], a, b) => \A c, d : Chunk(p, n[p], c, d)'
    BY <1>1, TickMoves
  <2>5. /\ reconnects' = 1 /\ running' = Nobody /\ Overdue(x)' = 0
        /\ OneTask(x, s, [st |-> "waiting", in |-> 0, tries |-> 0])'
    BY <1>0, <1>s, <2>0, <2>2, <2>3 DEF OneTask, Overdue, Window, uniqueWindow
  <2>6. \A p \in Profile \ {x} : Chunk(p, n[p], 0, 0)'
    BY <1>0, <2>4, Zero
  <2>7. ~Running(x)' /\ StandsIn(x)' /\ Overdue(x)' \in 0 .. MaxWait /\ ~ (Overdue(x)' > 0)
    BY <1>0, <2>0, <2>5 DEF Running, StandsIn
  <2>8. Asked(x, n)'
    BY <1>0, <2>5, <2>6, <2>7 DEF Asked
  <2> QED BY <2>4, <2>8 DEF Phases, PhasesBy
<1>2. CASE EnqueueChunk \/ SkipProfile \/ EnqueueFails
  <2>1. PICK n \in [Profile -> Int] :
          /\ Placed(n)' /\ UNCHANGED <<running, reconnects>>
          /\ \A q \in Profile \ todo : n[q] = o[q] /\ q \notin todo'
          /\ \A p \in Profile : \A a \in Nat : \A b :
               Chunk(p, o[p], a, b) => Chunk(p, n[p], a, b)'
          /\ SameKey(x) /\ StandsIn(x)'
    BY <1>0, <1>2, LoopMoves
  <2>2. \A p \in Profile \ {x} : Chunk(p, n[p], 0, 0)'
    BY <1>0, <2>1
  <2> QED BY <1>k, <1>r, <2>1, <2>2
<1>3. ASSUME NEW q \in Profile, OAuthEnqueue(q) PROVE FALSE
  BY <1>0, <1>3 DEF OAuthEnqueue
<1>4. ASSUME NEW r \in Slot, Dequeue(x, r) PROVE Phases'
  <2>1. /\ Running(x)' /\ running'.age = 0
        /\ OneTask(x, running.slot, [st |-> "active", in |-> 0, tries |-> 0])'
    BY <1>4, <1>s, TaskTaken
  <2>2. \A p \in Profile \ {x} : Chunk(p, o[p], 0, 0)'
    BY <1>0, <1>4, OthersKept
  <2>3. /\ UNCHANGED <<nextTick, todo, keyLeft, chunks, reconnects>>
        /\ skipped[x] = "now" => skipped'[x] = "now"
    BY <1>4 DEF Dequeue, KInv, TypeOK
  <2>4. reconnects' = 1 /\ StandsIn(x)' /\ Overdue(x)' - 0 \in 0 .. MaxWait
    BY <1>0, <2>3 DEF StandsIn, Elapsed, Overdue, Window, uniqueWindow
  <2>5. UnderWay(x, 0, o)' /\ Placed(o)' /\ 0 \in 0 .. MaxDuration
    BY <1>0, <2>1, <2>2, <2>3, <2>4, StillPlaced DEF UnderWay
  <2> QED BY <2>5 DEF Phases, PhasesBy
<1>5. ASSUME NEW q \in Profile \ {x}, NEW r \in Slot, Dequeue(q, r) PROVE Phases'
  <2>1. /\ q \notin todo /\ o[q] \in 0 .. 0
        /\ \A d \in Nat : o[q] <= d => \A c : Chunk(q, o[q], c, d)'
    BY <1>0, <1>5, ChunkDequeue
  <2>2. Overdue(x) = 0
    <3>1. ASSUME NEW p \in Profile \ todo, o[p] \in 1 .. MaxDuration PROVE FALSE
      <4>1. p # q /\ o[p] \in Int /\ o[q] = 0
        BY <2>1, <3>1
      <4>2. o[p] + Share <= o[q] \/ o[q] + Share <= o[p]
        BY <2>1, <4>1, Distant
      <4> QED BY <1>0, <3>1, <4>1, <4>2
    <3> QED BY <1>0, <3>1
  <2>3. /\ SameTask(x) /\ \A p \in Profile \ {q} : \A a, b : Chunk(p, o[p], a, b) => Chunk(p, o[p], a, b)'
    BY <1>5, OthersKept
  <2>4. Chunk(q, o[q], 0, 0)'
    BY <2>1
  <2>5. \A p \in Profile \ {x} : Chunk(p, o[p], 0, 0)'
    BY <1>0, <2>3, <2>4
  <2>6. /\ UNCHANGED <<nextTick, todo, reconnects>> /\ running'.age \in Nat /\ running'.profile # x
    BY <1>5 DEF Dequeue
  <2>7. StandsIn(x)' /\ Placed(o)' /\ SameKey(x)
    BY <1>0, <2>3, <2>6, StillStandsIn, StillPlaced DEF SameTask
  <2> QED BY <1>k, <2>2, <2>5, <2>6, <2>7
<1>6. CASE Succeed
  <2>1. PICK q \in Profile : Running(q) /\ q # x
    BY <1>0, <1>6, Runner DEF Succeed
  <2>2. /\ SameTask(x) /\ \A p \in Profile \ {q} : \A a, b : Chunk(p, o[p], a, b) => Chunk(p, o[p], a, b)'
    BY <1>6, <2>1, OthersKept
  <2>3. Chunk(q, o[q], 0, 0)'
    BY <1>0, <1>6, <2>1, Zero, ChunkSucceed
  <2>4. \A p \in Profile \ {x} : Chunk(p, o[p], 0, 0)'
    BY <1>0, <2>2, <2>3
  <2>5. UNCHANGED <<nextTick, todo, reconnects>> /\ running' = Nobody
    BY <1>6 DEF Succeed, tickVars
  <2>6. StandsIn(x)' /\ Placed(o)' /\ SameKey(x)
    BY <1>0, <2>2, <2>5, StillStandsIn, StillPlaced DEF SameTask
  <2> QED BY <1>k, <2>4, <2>5, <2>6
<1>7. CASE Elapse
  <2>1. running # Nobody
    <3>1. Due(x, s)
      BY <1>s DEF Due, OneTask
    <3> QED BY <1>7, <1>s, <3>1 DEF Elapse
  <2>2. PICK q \in Profile : Running(q) /\ q # x
    BY <1>0, <2>1, Runner
  <2>3. q \notin todo /\ ChunkRuns(q, o[q], 0)
    BY <1>0, <2>2 DEF Chunk
  <2>4. /\ running.age \in Nat /\ running.age < MaxDuration /\ running'.age = running.age + 1
        /\ UNCHANGED <<todo, reconnects>> /\ (Running(x)' <=> Running(x))
    BY <1>7, <2>1, ClockElapse
  <2>5. MaxWait = MaxDuration
    BY <2>2, WaitFits
  <2>6. PICK n \in [Profile -> Int] : n = [p \in Profile |-> o[p] + 1] /\ Placed(n)'
    BY <1>7, MomentsElapse
  <2>7. \A p \in Profile : n[p] \in Int /\ n[p] = o[p] + 1
    BY <2>6
  <2>8. OneTask(x, s, [st |-> "waiting", in |-> IF 0 = 0 THEN 0 ELSE 0 - 1, tries |-> 0])'
    BY <1>7, <1>s, TaskElapse
  <2>9. o[q] = running.age
    BY <2>3, <2>4 DEF ChunkRuns
  <2>10. ASSUME NEW p \in Profile \ {x} PROVE Chunk(p, n[p], 0, 0)'
    <3>1. ASSUME ~Running(p), p \notin todo, ChunkWaits(p, o[p], 0) PROVE o[p] < 0
      <4>1. p # q
        BY <2>2, <3>1
      <4> QED BY <1>7, <2>2, <2>3, <3>1, <4>1, Zero, NotDueBusy
    <3>2. ~Running(p) /\ p \notin todo /\ ChunkWaits(p, o[p], 0) => o[p] + 1 <= 0
      BY <3>1
    <3> QED BY <1>0, <1>7, <2>7, <3>2, Zero, ChunkElapse
  <2>11. StandsIn(x)' /\ Overdue(x)' = Overdue(x) + 1
    BY <1>0, <1>7, StandsInLater
  <2>12. q \in Profile \ todo' /\ n[q] \in 1 .. MaxDuration
    BY <1>0, <2>3, <2>4, <2>7, <2>9
  <2>13. Overdue(x)' \in 0 .. MaxWait /\ Overdue(x)' <= running'.age
    BY <1>0, <2>1, <2>4, <2>5, <2>11
  <2>14. reconnects' = 1 /\ ~Running(x)'
    BY <1>0, <2>4
  <2>15. Asked(x, n)'
    BY <1>0, <2>2, <2>8, <2>10, <2>11, <2>12, <2>13, <2>14 DEF Asked
  <2> QED BY <2>6, <2>15 DEF Phases, PhasesBy
<1>8. ~Fail /\ \A p \in Profile, r \in Slot : ~FailEarly(p, r)
  BY DEF Fail, FailEarly
<1> QED BY <1>1, <1>2, <1>3, <1>4, <1>5, <1>6, <1>7, <1>8 DEF Next

LEMMA UnderWayStep ==
  ASSUME KInv, Loop', FitsTwice, Ticking, NEW o \in [Profile -> Int], Placed(o),
         NEW x \in Profile, NEW age \in 0 .. MaxDuration, UnderWay(x, age, o),
         Next, ~failed', reconnects' <= 1
  PROVE  Phases'
<1>0. /\ reconnects = 1 /\ Running(x) /\ running.age = age /\ StandsIn(x)
      /\ OneTask(x, running.slot, [st |-> "active", in |-> 0, tries |-> 0])
      /\ Overdue(x) - age \in 0 .. MaxWait /\ running # Nobody
      /\ keyLeft[x] > 0 /\ Overdue(x) \in Nat
      /\ age \in Nat /\ MaxWait \in Nat /\ MaxWait' = MaxWait
  BY FirstSyncHeld, WaitFits DEF UnderWay, Running, MaxWait
<1>1. \A p \in Profile \ {x} : age \in 0 .. MaxWait /\ Chunk(p, o[p], age, 0) /\ ~Running(p)
  BY LateByOneRun
<1>k. ASSUME SameKey(x), StandsIn(x)', UNCHANGED <<running, reconnects>>,
             NEW n \in [Profile -> Int], Placed(n)',
             \A p \in Profile \ {x} : Chunk(p, n[p], age, 0)'
      PROVE  Phases'
  <2>1. /\ Overdue(x)' = Overdue(x) /\ Running(x)'
        /\ OneTask(x, running.slot, [st |-> "active", in |-> 0, tries |-> 0])'
    BY <1>0, <1>k DEF SameKey, Overdue, Window, uniqueWindow, Running, OneTask
  <2>2. UnderWay(x, age, n)'
    BY <1>0, <1>k, <2>1 DEF UnderWay
  <2> QED BY <1>k, <2>2 DEF Phases, PhasesBy
<1>2. CASE Tick \/ TickFails
  <2>1. PICK n \in [Profile -> Int] :
          /\ Placed(n)'
          /\ \A p \in Profile : \A a, b \in 0 .. MaxWait :
               Chunk(p, o[p], a, b) => \A c, d : Chunk(p, n[p], c, d)'
    BY <1>2, TickMoves
  <2>2. \A p \in Profile \ {x} : Chunk(p, n[p], age, 0)'
    BY <1>1, <2>1, Zero
  <2>3. /\ UNCHANGED <<keyLeft, keyOf, task, running, reconnects>>
        /\ (todo' = Profile \/ skipped'[x] = "now")
    BY <1>2 DEF Tick, TickFails, TickComes, TickGivesUp, queueVars
  <2>4. SameKey(x) /\ StandsIn(x)'
    BY <2>3 DEF SameKey, StandsIn
  <2> QED BY <1>k, <2>1, <2>2, <2>3, <2>4
<1>3. CASE EnqueueChunk \/ SkipProfile \/ EnqueueFails
  <2>1. PICK n \in [Profile -> Int] :
          /\ Placed(n)' /\ UNCHANGED <<running, reconnects>>
          /\ \A p \in Profile : \A a \in Nat : \A b :
               Chunk(p, o[p], a, b) => Chunk(p, n[p], a, b)'
          /\ SameKey(x) /\ StandsIn(x)'
    BY <1>0, <1>3, LoopMoves
  <2>2. \A p \in Profile \ {x} : Chunk(p, n[p], age, 0)'
    BY <1>0, <1>1, <2>1
  <2> QED BY <1>k, <2>1, <2>2
<1>4. ASSUME NEW q \in Profile, OAuthEnqueue(q) PROVE FALSE
  BY <1>0, <1>4 DEF OAuthEnqueue
<1>5. ASSUME NEW q \in Profile, NEW r \in Slot, Dequeue(q, r) PROVE FALSE
  BY <1>0, <1>5 DEF Dequeue
<1>6. CASE Succeed
  <2>1. \A c, d : Chunk(x, o[x], c, d)'
    BY <1>0, <1>6, TaskDone
  <2>2. ASSUME NEW p \in Profile \ {x} PROVE Chunk(p, o[p], MaxWait, MaxWait)'
    <3>1. Chunk(p, o[p], MaxWait, MaxWait)
      BY <1>0, <1>1, ChunkMonotone
    <3> QED BY <1>0, <1>6, <3>1, OthersKept
  <2>3. reconnects' = 1 /\ running' = Nobody /\ UNCHANGED <<nextTick, todo>>
    BY <1>0, <1>6 DEF Succeed, tickVars
  <2>4. Over(o)' /\ Placed(o)'
    BY <1>0, <2>1, <2>2, <2>3, StillPlaced DEF Over
  <2> QED BY <2>4 DEF Phases, PhasesBy
<1>7. CASE Elapse
  <2>0. PICK n \in [Profile -> Int] : n = [p \in Profile |-> o[p] + 1] /\ Placed(n)'
    BY <1>7, MomentsElapse
  <2>1. /\ running.age < MaxDuration /\ running'.age = age + 1 /\ Running(x)'
        /\ reconnects' = 1
    BY <1>0, <1>7, ClockElapse
  <2>2. StandsIn(x)' /\ Overdue(x)' = Overdue(x) + 1
    BY <1>0, <1>7, StandsInLater
  <2>3. OneTask(x, running.slot, [st |-> "active", in |-> 0, tries |-> 0])'
    BY <1>0, <1>7, RunElapse
  <2>4. ASSUME NEW p \in Profile \ {x} PROVE Chunk(p, n[p], age + 1, 0)'
    <3>1. n[p] \in Int /\ n[p] = o[p] + 1
      BY <2>0
    <3>2. ChunkWaits(p, o[p], age) => o[p] + 1 <= age + 1
      BY <1>0 DEF ChunkWaits
    <3> QED BY <1>1, <1>7, <3>1, <3>2, Zero, ChunkElapse
  <2>5. PICK next \in 0 .. MaxDuration : next = age + 1
    BY <1>0, <2>1, QueueAssumption
  <2>6. (Overdue(x) - next)' \in 0 .. MaxWait
    BY <1>0, <2>2, <2>5
  <2>7. UnderWay(x, next, n)'
    BY <1>0, <2>1, <2>2, <2>3, <2>4, <2>5, <2>6 DEF UnderWay
  <2> QED BY <2>0, <2>7 DEF Phases, PhasesBy
<1>8. ~Fail /\ \A p \in Profile, r \in Slot : ~FailEarly(p, r)
  BY DEF Fail, FailEarly
<1> QED BY <1>2, <1>3, <1>4, <1>5, <1>6, <1>7, <1>8 DEF Next

LEMMA OverStep ==
  ASSUME KInv, Loop', FitsTwice, Ticking, NEW o \in [Profile -> Int], Placed(o), Over(o),
         Next, ~failed', reconnects' <= 1
  PROVE  Phases'
<1>0. /\ reconnects = 1 /\ MaxWait \in Nat /\ MaxWait <= MaxDuration /\ MaxWait' = MaxWait
      /\ MaxLoop + MaxDuration + MaxDuration < Share /\ Share \in Nat /\ MaxDuration \in Nat
      /\ MaxLoop \in Nat
  BY WaitFits DEF Over, MaxWait
<1>1. PICK a \in 0 .. MaxWait :
        /\ \A p \in Profile : Chunk(p, o[p], a, MaxWait)
        /\ a = IF running = Nobody THEN MaxWait ELSE 0
  BY Zero DEF Over
<1>2. ASSUME NEW b \in Nat, NEW n \in [Profile -> Int], reconnects' = 1, Placed(n)',
             \A p \in Profile : Chunk(p, n[p], b, MaxWait)',
             b = IF running' = Nobody THEN MaxWait ELSE 0
      PROVE  Phases'
  <2>1. Over(n)'
    BY <1>0, <1>2 DEF Over
  <2> QED BY <1>2, <2>1 DEF Phases, PhasesBy
<1>3. CASE Tick \/ TickFails
  <2>1. PICK n \in [Profile -> Int] :
          /\ Placed(n)'
          /\ \A p \in Profile : \A c, d \in 0 .. MaxWait :
               Chunk(p, o[p], c, d) => \A e, f : Chunk(p, n[p], e, f)'
    BY <1>3, TickMoves
  <2>2. \A p \in Profile : Chunk(p, n[p], a, MaxWait)'
    BY <1>1, <2>1, Zero
  <2>3. running' = running /\ reconnects' = 1
    BY <1>0, <1>3 DEF Tick, TickFails, TickComes
  <2> QED BY <1>0, <1>1, <1>2, <2>1, <2>2, <2>3
<1>4. CASE EnqueueChunk \/ SkipProfile \/ EnqueueFails
  <2>1. PICK n \in [Profile -> Int] :
          /\ Placed(n)' /\ UNCHANGED <<running, reconnects>>
          /\ \A p \in Profile : \A c \in Nat : \A d :
               Chunk(p, o[p], c, d) => Chunk(p, n[p], c, d)'
    BY <1>4, LoopMoves
  <2>2. \A p \in Profile : Chunk(p, n[p], a, MaxWait)'
    BY <1>0, <1>1, <2>1
  <2> QED BY <1>0, <1>1, <1>2, <2>1, <2>2
<1>5. ASSUME NEW q \in Profile, OAuthEnqueue(q) PROVE FALSE
  BY <1>0, <1>5 DEF OAuthEnqueue
<1>6. ASSUME NEW q \in Profile, NEW s \in Slot, Dequeue(q, s) PROVE Phases'
  <2>1. running = Nobody /\ a \in Nat /\ a <= MaxWait
    BY <1>0, <1>1, <1>6 DEF Dequeue
  <2>2. /\ q \notin todo /\ o[q] \in 0 .. a
        /\ \A d \in Nat : o[q] <= d => \A c : Chunk(q, o[q], c, d)'
    BY <1>0, <1>1, <1>6, <2>1, ChunkDequeue
  <2>3. Chunk(q, o[q], 0, MaxWait)'
    BY <1>0, <2>1, <2>2
  <2>4. ASSUME NEW p \in Profile \ {q} PROVE Chunk(p, o[p], 0, MaxWait)'
    <3>1. p \notin todo /\ ChunkWaits(p, o[p], a) => ChunkWaits(p, o[p], 0)
      <4>1. p \notin todo => o[p] + Share <= o[q] \/ o[q] + Share <= o[p]
        BY <2>2, Distant
      <4>2. o[p] \in Int /\ o[q] \in Int
        OBVIOUS
      <4> QED BY <1>0, <2>1, <2>2, <4>1, <4>2 DEF ChunkWaits
    <3>2. Chunk(p, o[p], 0, MaxWait)
      BY <1>1, <3>1 DEF Chunk
    <3> QED BY <1>6, <3>2, OthersKept
  <2>5. /\ running' # Nobody /\ reconnects' = 1 /\ UNCHANGED <<nextTick, todo>>
    BY <1>0, <1>6, QueueAssumption DEF Dequeue, Nobody, Profile
  <2> QED BY <1>2, <2>3, <2>4, <2>5, StillPlaced
<1>7. CASE Succeed
  <2>1. PICK q \in Profile : Running(q)
    BY <1>7, Runner DEF Succeed
  <2>2. Chunk(q, o[q], MaxWait, MaxWait)'
    BY <1>1, <1>7, <2>1, Zero, ChunkSucceed
  <2>3. ASSUME NEW p \in Profile \ {q} PROVE Chunk(p, o[p], MaxWait, MaxWait)'
    <3>1. Chunk(p, o[p], MaxWait, MaxWait)
      BY <1>0, <1>1, ChunkMonotone
    <3> QED BY <1>7, <2>1, <3>1, OthersKept
  <2>4. running' = Nobody /\ reconnects' = 1 /\ UNCHANGED <<nextTick, todo>>
    BY <1>0, <1>7 DEF Succeed, tickVars
  <2> QED BY <1>0, <1>2, <2>2, <2>3, <2>4, StillPlaced
<1>8. CASE Elapse
  <2>0. PICK n \in [Profile -> Int] : n = [p \in Profile |-> o[p] + 1] /\ Placed(n)'
    BY <1>8, MomentsElapse
  <2>1. ASSUME NEW p \in Profile, ~Running(p), p \notin todo, ChunkWaits(p, o[p], a)
        PROVE  o[p] < 0
    <3>1. CASE running = Nobody
      BY <1>8, <2>1, <3>1, NotDueIdle
    <3>2. CASE running # Nobody
      <4>1. PICK q \in Profile : Running(q)
        BY <3>2, Runner
      <4>2. q \notin todo /\ ChunkRuns(q, o[q], MaxWait) /\ p # q /\ ChunkWaits(p, o[p], 0)
        BY <1>1, <2>1, <3>2, <4>1 DEF Chunk
      <4> QED BY <1>8, <2>1, <4>1, <4>2, Zero, NotDueBusy
    <3> QED BY <3>1, <3>2
  <2>2. ASSUME NEW p \in Profile PROVE Chunk(p, n[p], a, MaxWait)'
    <3>1. ~Running(p) /\ p \notin todo /\ ChunkWaits(p, o[p], a) => o[p] + 1 <= a
      BY <1>0, <1>1, <2>1
    <3>2. n[p] \in Int /\ n[p] = o[p] + 1
      BY <2>0
    <3> QED BY <1>1, <1>8, <3>1, <3>2, Zero, ChunkElapse
  <2>3. (running' = Nobody <=> running = Nobody) /\ reconnects' = 1
    BY <1>0, <1>8, ClockElapse
  <2> QED BY <1>0, <1>1, <1>2, <2>0, <2>2, <2>3
<1>9. ~Fail /\ \A p \in Profile, s \in Slot : ~FailEarly(p, s)
  BY DEF Fail, FailEarly
<1> QED BY <1>3, <1>4, <1>5, <1>6, <1>7, <1>8, <1>9 DEF Next

LEMMA PhasesStay == ASSUME Phases, UNCHANGED vars PROVE Phases'
<1>0. PICK o \in [Profile -> Int] : Placed(o) /\ PhasesBy(o)
  BY DEF Phases
<1>1. /\ UNCHANGED <<nextTick, todo, skipped, keyLeft, keyOf, task, running, chunks, reconnects>>
      /\ MaxWait' = MaxWait
  BY DEF vars, queueVars, tickVars, MaxWait
<1>2. \A p \in Profile : SameTask(p) /\ \A a, b : Chunk(p, o[p], a, b) => Chunk(p, o[p], a, b)'
  <2>1. \A p \in Profile : SameTask(p)
    BY <1>1 DEF SameTask, SameKey
  <2> QED BY <1>1, <2>1, ChunkKept
<1>3. \A p \in Profile : StandsIn(p) => StandsIn(p)' /\ Overdue(p)' = Overdue(p)
  BY <1>1, <1>2, StillStandsIn
<1>4. Before(o) => Before(o)'
  BY <1>1, <1>2 DEF Before
<1>5. Over(o) => Over(o)'
  BY <1>1, <1>2 DEF Over
<1>6. ASSUME NEW x \in Profile, Asked(x, o) PROVE Asked(x, o)'
  BY <1>1, <1>2, <1>3, <1>6 DEF Asked, Running, OneTask
<1>7. ASSUME NEW x \in Profile, NEW age \in 0 .. MaxDuration, UnderWay(x, age, o)
      PROVE  UnderWay(x, age, o)'
  BY <1>1, <1>2, <1>3, <1>7 DEF UnderWay, Running, OneTask
<1>8. Placed(o)' /\ PhasesBy(o)'
  BY <1>0, <1>1, <1>4, <1>5, <1>6, <1>7, StillPlaced DEF PhasesBy
<1> QED BY <1>8 DEF Phases

LEMMA PhasesInvariant == FitsTwice => (Spec => []RInv)
<1> SUFFICES ASSUME FitsTwice PROVE Spec => []RInv
  OBVIOUS
<1>1. ASSUME Init, KInv PROVE RInv
  <2>1. PICK o \in [Profile -> Int] : Placed(o)
    BY <1>1, OnTimeInit DEF OnTime, OnTimeBy
  <2>2. Before(o)
    BY <1>1 DEF Init, Before, Chunk, Ended, NoTask, Running
  <2> QED BY <1>1, <2>1, <2>2 DEF RInv, Phases, PhasesBy
<1>2. ASSUME RInv, KInv', [Next]_vars PROVE RInv'
  <2>1. KInv /\ Loop'
    BY <1>2 DEF RInv, KInv
  <2>2. CASE UNCHANGED vars
    <3>1. Phases => Phases'
      BY <2>2, PhasesStay
    <3>2. Quiet' => Quiet
      BY <2>2 DEF vars, tickVars, Quiet, Ticking
    <3> QED BY <1>2, <3>1, <3>2 DEF RInv
  <2>3. ASSUME Next, Quiet' PROVE Phases'
    <3>1. Quiet
      <4>1. ~Fail /\ \A p \in Profile, s \in Slot : ~FailEarly(p, s)
        BY <2>3 DEF Quiet, Fail, FailEarly
      <4>2. ASSUME NEW p \in Profile, OAuthEnqueue(p)
            PROVE  failed' = failed /\ reconnects <= reconnects' /\ scheduler' = scheduler
        BY <2>1, <4>2 DEF OAuthEnqueue, tickVars, KInv, TypeOK
      <4>3. ASSUME NEW p \in Profile, NEW s \in Slot, Dequeue(p, s)
            PROVE  UNCHANGED <<failed, reconnects, scheduler>>
        BY <4>3 DEF Dequeue
      <4>4. Tick \/ TickFails \/ EnqueueChunk \/ SkipProfile \/ EnqueueFails =>
              /\ UNCHANGED <<failed, reconnects>>
              /\ scheduler = "stopped" => scheduler' = "stopped"
        BY DEF Tick, TickFails, TickComes, TickGivesUp, EnqueueChunk, SkipProfile, EnqueueFails,
           LoopPast
      <4>5. Succeed \/ Elapse => UNCHANGED <<failed, reconnects, scheduler>>
        BY DEF Succeed, Elapse, tickVars
      <4>6. reconnects \in Nat /\ reconnects' \in Nat
        BY <1>2, <2>1, QueueAssumption DEF KInv, TypeOK
      <4> QED BY <2>3, <4>1, <4>2, <4>3, <4>4, <4>5, <4>6 DEF Quiet, Ticking, Next
    <3>2. Ticking /\ ~failed' /\ reconnects' <= 1
      BY <2>3, <3>1 DEF Quiet
    <3>3. PICK o \in [Profile -> Int] : Placed(o) /\ PhasesBy(o)
      BY <1>2, <3>1 DEF RInv, Phases
    <3> QED BY <2>1, <2>3, <3>2, <3>3, BeforeStep, AskedStep, UnderWayStep, OverStep DEF PhasesBy
  <2> QED BY <1>2, <2>2, <2>3 DEF RInv
<1> QED BY <1>1, <1>2, LoopInvariant, PTL DEF Spec

\* Even a first sync that a reconnect asks for at any moment takes no window from
\* anyone whom no tick has missed, as long as its run, that of a chunk and a loop
\* fit a share.
THEOREM FirstSyncSkipsNobody ==
  FitsTwice => (Spec => [](reconnects <= 1 => ChunkEveryWindow))
<1> SUFFICES ASSUME FitsTwice PROVE Spec => [](reconnects <= 1 => ChunkEveryWindow)
  OBVIOUS
<1>1. ASSUME KInv, Phases, nextTick = 0, NEW p \in Profile
      PROVE  chunks[p] = 1 \/ skipped[p] = "now"
  <2>1. Elapsed = Cadence /\ todo = {} /\ Cadence \in Nat
    <3>1. MaxLoop \in Nat /\ MaxLoop < Cadence /\ Cadence \in Nat
      BY WaitFits
    <3> QED BY <1>1, <3>1, Clock
  <2>2. PICK o \in [Profile -> Int] : Placed(o) /\ PhasesBy(o)
    BY <1>1 DEF Phases
  <2>3. ASSUME NEW a \in 0 .. MaxWait, NEW b \in 0 .. MaxWait, Chunk(p, o[p], a, b)
        PROVE  chunks[p] = 1 \/ skipped[p] = "now"
    BY <1>1, <2>2, <2>3, ChunkAtEnd DEF Ended
  <2>4. CASE Before(o) \/ Over(o)
    BY <2>3, <2>4, Zero DEF Before, Over
  <2>5. ASSUME NEW x \in Profile, Asked(x, o) \/ \E age \in 0 .. MaxDuration : UnderWay(x, age, o)
        PROVE  chunks[p] = 1 \/ skipped[p] = "now"
    <3>1. CASE p = x
      <4>1. StandsIn(x)
        BY <2>5 DEF Asked, UnderWay
      <4>2. Overdue(x) + MaxLoop < Cadence /\ Overdue(x) \in Nat /\ MaxLoop \in Nat
        BY <1>1, <2>5, FirstSyncHeld, WaitFits
      <4> QED BY <2>1, <3>1, <4>1, <4>2 DEF StandsIn
    <3>2. CASE p # x
      <4>1. \E a \in 0 .. MaxWait : Chunk(p, o[p], a, 0)
        BY <1>1, <2>5, <3>2, Zero, LateByOneRun DEF Asked
      <4> QED BY <2>3, <4>1, Zero
    <3> QED BY <3>1, <3>2
  <2> QED BY <2>2, <2>4, <2>5 DEF PhasesBy
<1>2. RInv => (reconnects <= 1 => ChunkEveryWindow)
  BY <1>1 DEF RInv, Quiet, Ticking, ChunkEveryWindow
<1> QED BY <1>2, PhasesInvariant, PTL
=============================================================================
