----------------------------- MODULE SyncQueue -----------------------------
(***************************************************************************)
(* The clock of the sync queue: ticks every Cadence, sync tasks staggered   *)
(* over the cadence, one worker that takes them one by one, and a unique    *)
(* key per profile whose TTL is uniqueWindow(Cadence).  asynq counts the    *)
(* TTL of a delayed task from the moment the task is due, gives the key     *)
(* back when its task succeeds and keeps it when the task is retried or     *)
(* archived.  One unit of time is a twelfth of the default cadence (50 s),  *)
(* which makes uniqueWindow exact: 10m -> 12 units, 9m10s -> 11.            *)
(* The loop of a tick takes time, for the daily resyncs run inside it, and   *)
(* may miss a profile: its resync fails, or the call to Redis or the list    *)
(* query fails and ends the tick.                                            *)
(***************************************************************************)
EXTENDS Integers, FiniteSets

CONSTANTS Profiles,     \* number of connected profiles
          Cadence,      \* SYNC_BATCH_DELAY in units, more than a minute
          MaxLoop,      \* longest loop of a tick, resyncs included
          MaxDuration,  \* longest run of a task; asynq.Timeout limits it to 12
          Backoff,      \* delays after which a failed run may be retried, {}: no failures
          MaxRetry,     \* asynq.MaxRetry
          MaxStack,     \* bound: tasks of one profile in the queue at once
          MaxReconnect  \* bound: OAuth callbacks

ASSUME QueueAssumption ==
  /\ Profiles \in Nat \ {0} /\ Cadence \in Nat \ {0}
  /\ MaxLoop \in 0 .. Cadence
  /\ MaxDuration \in Nat \ {0} /\ Backoff \subseteq Nat
  /\ MaxRetry \in Nat /\ MaxStack \in Nat \ {0} /\ MaxReconnect \in Nat

VARIABLES scheduler,    \* Run: in its first tick, behind its ticker, or returned
          nextTick,     \* time to the next tick; Cadence less the time since the last
          todo,         \* profiles the present tick has not come to yet
          skipped,      \* history: profiles a tick missed since their last claim
          keyLeft,      \* time left of each unique key, 0 when free
          keyOf,        \* the slot whose task took the key
          task,         \* queue slots of each profile
          running,      \* the task the worker runs and for how long, or none
          blocked,      \* history: consecutive ticks that found the key held
          claimed,      \* time since the cursor of the profile last moved
          chunks,       \* history: chunks finished since the previous tick
          failed,       \* history: some run has failed
          reconnects    \* history: first syncs asked for by OAuth callbacks

tickVars == <<scheduler, nextTick, todo, skipped>>
queueVars == <<keyLeft, keyOf, task, blocked>>
vars == <<tickVars, queueVars, running, claimed, chunks, failed, reconnects>>

Profile == 0 .. Profiles - 1
Slot == 1 .. MaxStack
Empty == [st |-> "none", in |-> 0, tries |-> 0]
Nobody == [profile |-> -1, slot |-> 0, age |-> 0]
Never == -1             \* no cursor row yet

\* Time since a claim is told apart up to here.
Longest == Cadence + 2 * MaxLoop

\* Mutant of uniqueWindow: a TTL of two ticks.
uniqueWindowDouble(cadence) == 2 * cadence

\* cadence - cadence/12; the short cadences of the first branch are not modelled.
uniqueWindow(cadence) == cadence - cadence \div 12

\* Mutants of staggerDelay: every profile in the last share of the window, at its
\* beginning, or spread up to and including the next tick.
staggerDelayLate(index, total) == IF total <= 1 THEN 0 ELSE Cadence - (Cadence \div total)
staggerDelayNone(index, total) == 0
staggerDelayWide(index, total) ==
  IF index <= 0 \/ total <= 1 THEN 0 ELSE index * (Cadence \div (total - 1))

staggerDelay(index, total) ==
  IF index <= 0 \/ total <= 1 THEN 0 ELSE index * (Cadence \div total)

Init ==
  /\ scheduler = "starting" /\ nextTick = 0 /\ todo = {}
  /\ skipped = [p \in Profile |-> "no"]
  /\ keyLeft = [p \in Profile |-> 0] /\ keyOf = [p \in Profile |-> 0]
  /\ task = [p \in Profile |-> [s \in Slot |-> Empty]]
  /\ running = Nobody
  /\ blocked = [p \in Profile |-> 0]
  /\ claimed = [p \in Profile |-> Never]
  /\ chunks = [p \in Profile |-> 1]
  /\ failed = FALSE /\ reconnects = 0

\* The first tick comes when Run starts, the others from ticker.C.
TickComes ==
  /\ scheduler # "stopped" /\ nextTick = 0 /\ todo = {}
  /\ nextTick' = Cadence
  /\ chunks' = [p \in Profile |-> 0]
  /\ UNCHANGED <<queueVars, running, claimed, failed, reconnects>>

\* What a tick missed is from before once the next tick comes.
Earlier(p) == IF skipped[p] = "no" THEN "no" ELSE "before"

\* An error that ends the tick ends Run, too, when it is the first.
TickGivesUp ==
  /\ todo' = {}
  /\ scheduler' = IF scheduler = "starting" THEN "stopped" ELSE scheduler

\* The profiles are listed and the loop of enqueueOnce begins.
Tick ==
  /\ TickComes
  /\ todo' = Profile
  /\ skipped' = [p \in Profile |-> Earlier(p)]
  /\ UNCHANGED scheduler

\* SyncProfiles fails.
TickFails ==
  /\ TickComes /\ TickGivesUp
  /\ skipped' = [p \in Profile |-> "now"]

\* The task and its key; a key that is held makes the call a duplicate, which is
\* no error.
EnqueueSyncProfile(p, delay) ==
  \/ keyLeft[p] > 0 /\ UNCHANGED <<keyLeft, keyOf, task>>
  \/ /\ keyLeft[p] = 0
     /\ \E s \in Slot :
          /\ task[p][s].st = "none"
          /\ task' = [task EXCEPT ![p][s] = [st |-> "waiting", in |-> delay, tries |-> 0]]
          /\ keyOf' = [keyOf EXCEPT ![p] = s]
     /\ keyLeft' = [keyLeft EXCEPT ![p] = delay + uniqueWindow(Cadence)]

\* The profile the loop of enqueueOnce comes to next.
Head == CHOOSE q \in todo : \A r \in todo : q <= r

\* The loop goes on; the ticker is made after the first one.
LoopPast(p) ==
  /\ todo' = todo \ {p}
  /\ IF todo = {p} /\ scheduler = "starting"
       THEN scheduler' = "running" /\ nextTick' = Cadence
       ELSE UNCHANGED <<scheduler, nextTick>>

EnqueueChunk ==
  /\ todo # {}
  /\ LoopPast(Head)
  /\ EnqueueSyncProfile(Head, staggerDelay(Head, Profiles))
  /\ blocked' = [blocked EXCEPT ![Head] = IF keyLeft[Head] > 0 THEN @ + 1 ELSE 0]
  /\ UNCHANGED <<skipped, running, claimed, chunks, failed, reconnects>>

\* The daily resync of the profile fails.
SkipProfile ==
  /\ todo # {}
  /\ LoopPast(Head)
  /\ skipped' = [skipped EXCEPT ![Head] = "now"]
  /\ UNCHANGED <<queueVars, running, claimed, chunks, failed, reconnects>>

\* The call to Redis returns an error, before or after it has queued the task.
EnqueueFails ==
  /\ todo # {}
  /\ TickGivesUp
  /\ \/ UNCHANGED queueVars
     \/ /\ keyLeft[Head] = 0
        /\ EnqueueSyncProfile(Head, staggerDelay(Head, Profiles))
        /\ blocked' = [blocked EXCEPT ![Head] = 0]
  /\ skipped' = [p \in Profile |-> IF p \in todo THEN "now" ELSE skipped[p]]
  /\ UNCHANGED <<nextTick, running, claimed, chunks, failed, reconnects>>

\* oauthCallback asks for a first sync right away, at any time.
OAuthEnqueue(p) ==
  /\ reconnects < MaxReconnect
  /\ reconnects' = reconnects + 1
  /\ EnqueueSyncProfile(p, 0)
  /\ blocked' = [blocked EXCEPT ![p] = IF keyLeft[p] > 0 THEN @ ELSE 0]
  /\ UNCHANGED <<tickVars, running, claimed, chunks, failed>>

Due(p, s) == task[p][s].st = "waiting" /\ task[p][s].in = 0

\* The worker takes a task that is due; the run claims its chunk at once.
Dequeue(p, s) ==
  /\ running = Nobody /\ Due(p, s)
  /\ running' = [profile |-> p, slot |-> s, age |-> 0]
  /\ task' = [task EXCEPT ![p][s].st = "active"]
  /\ claimed' = [claimed EXCEPT ![p] = 0]
  /\ skipped' = [skipped EXCEPT ![p] = IF @ = "before" THEN "no" ELSE @]
  /\ UNCHANGED <<scheduler, nextTick, todo, keyLeft, keyOf, blocked, chunks, failed, reconnects>>

Succeed ==
  LET p == running.profile
      s == running.slot
      own == keyLeft[p] > 0 /\ keyOf[p] = s
  IN  /\ running # Nobody
      /\ task' = [task EXCEPT ![p][s] = Empty]
      /\ keyLeft' = IF own THEN [keyLeft EXCEPT ![p] = 0] ELSE keyLeft
      /\ keyOf' = IF own THEN [keyOf EXCEPT ![p] = 0] ELSE keyOf
      /\ chunks' = [chunks EXCEPT ![p] = IF @ = 0 THEN 1 ELSE @]
      /\ running' = Nobody
      /\ UNCHANGED <<tickVars, blocked, claimed, failed, reconnects>>

\* asynq retries the task after its backoff or archives it.
Retry(p, s) ==
  \E d \in Backoff :
    task' = [task EXCEPT ![p][s] =
      IF @.tries = MaxRetry THEN Empty
      ELSE [st |-> "waiting", in |-> d, tries |-> @.tries + 1]]

\* The run fails before the claim is committed.
FailEarly(p, s) ==
  /\ running = Nobody /\ Due(p, s)
  /\ Retry(p, s)
  /\ failed' = TRUE
  /\ UNCHANGED <<tickVars, keyLeft, keyOf, running, blocked, claimed, chunks, reconnects>>

\* The handler returns an error later or runs into its timeout.
Fail ==
  /\ running # Nobody
  /\ Retry(running.profile, running.slot)
  /\ running' = Nobody
  /\ failed' = TRUE
  /\ UNCHANGED <<tickVars, keyLeft, keyOf, blocked, claimed, chunks, reconnects>>

\* Time passes only when nothing is due, and a loop ends in MaxLoop.  A scheduler
\* that has returned has no ticker.
Elapse ==
  /\ nextTick > 0 \/ scheduler = "stopped"
  /\ todo # {} => Cadence - nextTick < MaxLoop
  /\ IF running = Nobody THEN \A p \in Profile, s \in Slot : ~Due(p, s)
                         ELSE running.age < MaxDuration
  /\ nextTick' = IF scheduler = "stopped" THEN nextTick ELSE nextTick - 1
  /\ keyLeft' = [p \in Profile |-> IF keyLeft[p] = 0 THEN 0 ELSE keyLeft[p] - 1]
  /\ task' = [p \in Profile |-> [s \in Slot |->
                [task[p][s] EXCEPT !.in = IF @ = 0 THEN 0 ELSE @ - 1]]]
  /\ running' = IF running = Nobody THEN Nobody ELSE [running EXCEPT !.age = @ + 1]
  /\ claimed' = [p \in Profile |-> IF claimed[p] \in {Never, Longest} THEN claimed[p]
                                   ELSE claimed[p] + 1]
  /\ UNCHANGED <<scheduler, todo, skipped, keyOf, blocked, chunks, failed, reconnects>>

\* NextUpdateTimes for the chunk at the cursor, as time from now: the cursor's
\* updated_at and a cadence, and never before now.
NextUpdate(p) ==
  IF claimed[p] = Never \/ claimed[p] > Cadence THEN 0 ELSE Cadence - claimed[p]

Next ==
  \/ Tick \/ TickFails \/ EnqueueChunk \/ SkipProfile \/ EnqueueFails \/ Succeed \/ Fail \/ Elapse
  \/ \E p \in Profile, s \in Slot : Dequeue(p, s) \/ FailEarly(p, s)
  \/ \E p \in Profile : OAuthEnqueue(p)

Spec == Init /\ [][Next]_vars

-----------------------------------------------------------------------------
TypeOK ==
  /\ scheduler \in {"starting", "running", "stopped"} /\ nextTick \in 0 .. Cadence
  /\ skipped \in [Profile -> {"no", "now", "before"}]
  /\ todo \subseteq Profile /\ blocked \in [Profile -> Nat]
  /\ keyLeft \in [Profile -> 0 .. 2 * Cadence] /\ keyOf \in [Profile -> Slot \cup {0}]
  /\ task \in [Profile -> [Slot -> [st : {"none", "waiting", "active"}, in : Nat,
                                    tries : 0 .. MaxRetry]]]
  /\ running \in {Nobody} \cup [profile : Profile, slot : Slot, age : 0 .. MaxDuration]
  /\ claimed \in [Profile -> {Never} \cup 0 .. Longest]
  /\ chunks \in [Profile -> 0 .. 1] /\ failed \in BOOLEAN
  /\ reconnects \in 0 .. MaxReconnect

Queued(p) == {s \in Slot : task[p][s].st # "none"}

\* While chunks fit the profile's share of the cadence and none fails, every
\* profile gets its chunk in every window, unless the tick itself has missed it:
\* none is late when the next tick comes, whatever the loop has missed or taken
\* time for.  The extra chunk of a reconnect takes no window from anyone as long
\* as both fit, although the tick may find its key held.
ChunkEveryWindow ==
  scheduler = "running" /\ nextTick = 0 /\ ~failed =>
    \A p \in Profile : chunks[p] = 1 \/ skipped[p] = "now"

\* The time the dashboard shows is kept, as far as the loops of the ticks take no
\* time, until something is out of the ordinary: no chunk is claimed before the
\* time shown for it by more than one loop, nor after it by more than two.  It is
\* not kept for a profile that a tick has missed since, whose time passes.
NextUpdateKept ==
  [][\A p \in Profile :
       /\ ~failed /\ reconnects = 0 /\ scheduler # "stopped"
       /\ claimed[p] # Never /\ skipped[p] = "no"
       => /\ NextUpdate(p) > MaxLoop => claimed'[p] >= claimed[p]
          /\ claimed[p] = Longest => claimed'[p] = 0 \/ nextTick' >= nextTick]_vars

\* A tick finds a key held only after some run has failed or a first sync has
\* come in between: a task of the tick before that succeeds gives its key back in
\* time, however late the stagger put it.
BlockedByFailure == \A p \in Profile : blocked[p] > 0 => failed \/ reconnects > 0

\* "a slow tick cannot stack duplicate chunks for the same profile"
NoStack == \A p \in Profile : Cardinality(Queued(p)) <= 1

\* "the next intended tick is never blocked by its own lock"
TickNotBlocked == \A p \in Profile : blocked[p] = 0

\* Whatever fails, however long it is retried, whatever the ticks miss and whenever
\* a reconnect asks for a first sync, a key costs its profile one tick at most: at the tick after, it
\* has expired or a later call has queued a new task under it.
BlockedOnce == \A p \in Profile : blocked[p] <= 1
=============================================================================
