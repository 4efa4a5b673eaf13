---------------------------- MODULE SyncPipeline ----------------------------
(***************************************************************************)
(* From the scheduler's tick to the stored snapshot: the scheduler, the     *)
(* asynq queue with its unique lock per profile, the workers, the OAuth     *)
(* callback that enqueues the first sync, profile deletion, and the         *)
(* round-robin cursor.  Time is abstract here: a lock may expire and a tick *)
(* may come at any moment.                                                  *)
(*                                                                         *)
(* Which profile is primary for which account is the PrimaryRegistry that   *)
(* AccountPool implements.  The status and alert columns, which neither     *)
(* scheduler nor worker reads before a sync, are in ProfileLifecycle.       *)
(***************************************************************************)
EXTENDS Integers, FiniteSets

CONSTANTS Profile,      \* fb_profiles ids, in the order the scheduler visits them
          Account,      \* ad_accounts ids, in the order the batches follow
          NoProfile,
          BatchSize,    \* SYNC_BATCH_SIZE as configured
          Worker,       \* asynq server processes, Concurrency 1 each
          NoWorker,
          MaxStack,     \* bound: tasks of one profile in the queue at once
          MaxRetry      \* asynq.MaxRetry

ASSUME PipelineAssumption ==
  /\ Profile \subseteq Nat /\ IsFiniteSet(Profile)
  /\ Account \subseteq Int /\ IsFiniteSet(Account)
  /\ NoProfile \notin Profile /\ NoWorker \notin Worker
  /\ BatchSize \in Int
  /\ MaxStack \in Nat \ {0} /\ MaxRetry \in Nat

VARIABLES
  owner, gone,          \* the registry of primaries
  connected,            \* profiles that have been connected
  cursor,               \* sync_profile_cursors.next_offset, or NoRow
  rowLock,              \* the worker whose transaction holds that row, or NoWorker
  lastBatch, lastList,  \* history: what the last claim took, and the list it had
  resynced,             \* last_account_resync_date is today
  lock,                 \* slot whose task holds the profile's unique key, or Free
  task, tries,          \* queue slots of each profile and their retry counts
  schedPc, firstTick, todo, due, sameDay,   \* the scheduler's enqueueOnce
  run,                  \* what each worker is doing
  oauth,                \* where the OAuth callback for a profile is
  up,                   \* Meta, PostgreSQL and Redis answer without error
  stale                 \* accounts without a snapshot since the last tick

registryVars == <<owner, gone>>
claimVars == <<cursor, rowLock, lastBatch, lastList>>
queueVars == <<lock, task, tries>>
schedVars == <<schedPc, firstTick, todo, due, sameDay>>
vars == <<registryVars, connected, claimVars, resynced, queueVars, schedVars,
          run, oauth, up, stale>>

Registry == INSTANCE PrimaryRegistry
NoRow == -1
Free == 0
Slot == 1 .. MaxStack
Idle == [pc |-> "idle", profile |-> NoProfile, slot |-> Free, list |-> {}, offset |-> 0,
         batch |-> {}]

\* What a worker may be doing.  While it claims a chunk it has an account list
\* and an offset, afterwards a batch.
Claiming == {"insert", "lock", "update"}
Busy == [pc : {"read", "claim", "call", "save"} \cup Claiming, profile : Profile,
         slot : Slot, list : SUBSET Account, offset : 0 .. Cardinality(Account),
         batch : SUBSET Account]
Runs == {Idle} \cup Busy

\* Profiles with a row.
Live == connected \ gone

\* Mutant of Owned: every linked account, primary or not.
OwnedOrLinked(p) == {a \in Account : owner[a] # NoProfile}

\* The accounts p is primary for.
Owned(p) == {a \in Account : owner[a] = p}

\* Worker w is in the middle of a claim for p.
ClaimsFor(w, p) == run[w].profile = p /\ run[w].pc \in Claiming

\* The cursor of one profile and the claims that are under way for it.
Cursor(p) == INSTANCE CursorClaim WITH
  accounts <- Owned(p), cursor <- cursor[p], batch <- lastBatch[p], deleted <- p \in gone,
  Task <- Worker, NoTask <- NoWorker, rowLock <- rowLock[p], lastList <- lastList[p],
  pc <- [w \in Worker |-> IF ClaimsFor(w, p) THEN run[w].pc ELSE "idle"],
  list <- [w \in Worker |-> IF ClaimsFor(w, p) THEN run[w].list ELSE {}],
  offset <- [w \in Worker |-> IF ClaimsFor(w, p) THEN run[w].offset ELSE 0]

Init ==
  /\ Registry!Init
  /\ connected = {}
  /\ cursor = [p \in Profile |-> NoRow]
  /\ rowLock = [p \in Profile |-> NoWorker]
  /\ lastBatch = [p \in Profile |-> {}] /\ lastList = [p \in Profile |-> {}]
  /\ resynced = [p \in Profile |-> FALSE]
  /\ lock = [p \in Profile |-> Free]
  /\ task = [p \in Profile |-> [s \in Slot |-> "none"]]
  /\ tries = [p \in Profile |-> [s \in Slot |-> 0]]
  /\ schedPc = "idle" /\ firstTick = TRUE /\ sameDay = TRUE
  /\ todo = {} /\ due = {}
  /\ run = [w \in Worker |-> Idle]
  /\ oauth = [p \in Profile |-> "none"]
  /\ up = TRUE
  /\ stale = Account

-----------------------------------------------------------------------------
(* The queue. *)

\* EnqueueSyncProfile: a held unique key makes asynq answer ErrDuplicateTask,
\* which counts as success.
EnqueueSyncProfile(p) ==
  \/ lock[p] # Free /\ UNCHANGED queueVars
  \/ /\ lock[p] = Free
     /\ \E s \in Slot :
          /\ task[p][s] = "none"
          /\ task' = [task EXCEPT ![p][s] = "waiting"]
          /\ tries' = [tries EXCEPT ![p][s] = 0]
          /\ lock' = [lock EXCEPT ![p] = s]

\* Mutant of LockExpires: a key without a TTL.
LockNeverExpires(p) == FALSE /\ UNCHANGED vars

\* The TTL of the unique key runs out, whatever became of its task.  The guard
\* on the slots is the bound MaxStack: no key expires into a full queue.
LockExpires(p) ==
  /\ lock[p] # Free
  /\ \E s \in Slot : task[p][s] = "none"
  /\ lock' = [lock EXCEPT ![p] = Free]
  /\ UNCHANGED <<registryVars, connected, claimVars, resynced, task, tries,
                 schedVars, run, oauth, up, stale>>

-----------------------------------------------------------------------------
(* The scheduler. *)

\* A tick reads the profiles once and works from that list.
Tick ==
  /\ schedPc = "idle"
  /\ schedPc' = "loop"
  /\ todo' = Live
  /\ due' = {p \in Live : ~resynced[p]}
  /\ sameDay' = TRUE
  /\ stale' = Account
  /\ UNCHANGED <<registryVars, connected, claimVars, resynced, queueVars,
                 firstTick, run, oauth, up>>

Current == CHOOSE p \in todo : \A q \in todo : p <= q

\* UpsertAdAccountsForProfile: the profile becomes primary for accounts that have
\* no primary.
Resync ==
  /\ schedPc = "loop" /\ todo # {} /\ Current \in due
  /\ \/ UNCHANGED registryVars
     \/ \E S \in (SUBSET Account) \ {{}} : Registry!Claim(Current, S)
  /\ schedPc' = "mark"
  /\ UNCHANGED <<connected, claimVars, resynced, queueVars, firstTick, todo, due, sameDay,
                 run, oauth, up, stale>>

\* MarkAccountResyncSuccess; the date is that of the tick, not of the call.
MarkResynced ==
  /\ schedPc = "mark"
  /\ schedPc' = "loop" /\ due' = due \ {Current}
  /\ resynced' = IF Current \in gone THEN resynced
                                     ELSE [resynced EXCEPT ![Current] = sameDay]
  /\ UNCHANGED <<registryVars, connected, claimVars, queueVars, firstTick, todo, sameDay,
                 run, oauth, up, stale>>

\* A failed resync skips the profile for this tick.
ResyncFails ==
  /\ \/ schedPc = "loop" /\ todo # {} /\ Current \in due /\ (~up \/ Current \in gone)
     \/ schedPc = "mark" /\ ~up
  /\ schedPc' = "loop" /\ todo' = todo \ {Current} /\ due' = due \ {Current}
  /\ UNCHANGED <<registryVars, connected, claimVars, resynced, queueVars, firstTick,
                 sameDay, run, oauth, up, stale>>

EnqueueChunk ==
  /\ schedPc = "loop" /\ todo # {} /\ Current \notin due
  /\ EnqueueSyncProfile(Current)
  /\ todo' = todo \ {Current}
  /\ UNCHANGED <<registryVars, connected, claimVars, resynced, schedPc,
                 firstTick, due, sameDay, run, oauth, up, stale>>

TickEnds ==
  /\ schedPc = "loop" /\ todo = {}
  /\ schedPc' = "idle" /\ firstTick' = FALSE
  /\ UNCHANGED <<registryVars, connected, claimVars, resynced, queueVars,
                 todo, due, sameDay, run, oauth, up, stale>>

\* The list query or an enqueue fails: the rest of the tick is dropped, and the
\* scheduler itself ends if it was its first tick.
TickFails ==
  /\ schedPc = "loop" /\ ~up
  /\ schedPc' = IF firstTick THEN "stopped" ELSE "idle"
  /\ todo' = {} /\ due' = {}
  /\ UNCHANGED <<registryVars, connected, claimVars, resynced, queueVars,
                 firstTick, sameDay, run, oauth, up, stale>>

-----------------------------------------------------------------------------
(* The OAuth callback and profile deletion. *)

OAuthStore(p) ==
  /\ oauth[p] = "none" /\ p \notin gone
  /\ connected' = connected \cup {p}
  /\ oauth' = [oauth EXCEPT ![p] = "stored"]
  /\ UNCHANGED <<registryVars, claimVars, resynced, queueVars, schedVars, run,
                 up, stale>>

OAuthImport(p) ==
  /\ oauth[p] = "stored"
  /\ \/ UNCHANGED registryVars
     \/ \E S \in (SUBSET Account) \ {{}} : Registry!Claim(p, S)
  /\ oauth' = [oauth EXCEPT ![p] = "imported"]
  /\ UNCHANGED <<connected, claimVars, resynced, queueVars, schedVars, run, up, stale>>

OAuthMark(p) ==
  /\ oauth[p] = "imported"
  /\ resynced' = IF p \in gone THEN resynced ELSE [resynced EXCEPT ![p] = TRUE]
  /\ oauth' = [oauth EXCEPT ![p] = "marked"]
  /\ UNCHANGED <<registryVars, connected, claimVars, queueVars, schedVars, run, up, stale>>

OAuthFails(p) ==
  /\ oauth[p] # "none"
  /\ ~up \/ (oauth[p] = "stored" /\ p \in gone)
  /\ oauth' = [oauth EXCEPT ![p] = "none"]
  /\ UNCHANGED <<registryVars, connected, claimVars, resynced, queueVars,
                 schedVars, run, up, stale>>

OAuthEnqueue(p) ==
  /\ oauth[p] = "marked"
  /\ EnqueueSyncProfile(p)
  /\ oauth' = [oauth EXCEPT ![p] = "none"]
  /\ UNCHANGED <<registryVars, connected, claimVars, resynced, schedVars, run,
                 up, stale>>

\* Mutant of DeleteFBProfile: it does not wait for a claim that is under way.
DeleteFBProfileAtOnce(p) ==
  /\ p \in Live
  /\ Registry!Release(p)
  /\ cursor' = [cursor EXCEPT ![p] = NoRow]
  /\ lastBatch' = [lastBatch EXCEPT ![p] = {}]
  /\ lastList' = [lastList EXCEPT ![p] = {}]
  /\ UNCHANGED <<connected, rowLock, resynced, queueVars, schedVars, run, oauth, up, stale>>

\* The cascade waits for the holder of the cursor row.
DeleteFBProfile(p) ==
  /\ p \in Live /\ rowLock[p] = NoWorker
  /\ Registry!Release(p)
  /\ cursor' = [cursor EXCEPT ![p] = NoRow]
  /\ lastBatch' = [lastBatch EXCEPT ![p] = {}]
  /\ lastList' = [lastList EXCEPT ![p] = {}]
  /\ UNCHANGED <<connected, rowLock, resynced, queueVars, schedVars, run, oauth, up, stale>>

-----------------------------------------------------------------------------
(* The workers. *)

Dequeue(w, p, s) ==
  /\ run[w].pc = "idle" /\ task[p][s] = "waiting"
  /\ task' = [task EXCEPT ![p][s] = "active"]
  /\ run' = [run EXCEPT ![w] =
       [pc |-> "read", profile |-> p, slot |-> s, list |-> {}, offset |-> 0, batch |-> {}]]
  /\ UNCHANGED <<registryVars, connected, claimVars, resynced, lock, tries,
                 schedVars, oauth, up, stale>>

\* The handler returned nil: the task leaves the queue and gives its key back,
\* if the key is still its own.
Done(w) ==
  LET p == run[w].profile
      s == run[w].slot
  IN  /\ task' = [task EXCEPT ![p][s] = "none"]
      /\ lock' = [lock EXCEPT ![p] = IF @ = s THEN Free ELSE @]
      /\ run' = [run EXCEPT ![w] = Idle]
      /\ UNCHANGED tries

\* SyncProfileByID: a deleted profile ends the task.
ReadProfile(w) ==
  /\ run[w].pc = "read"
  /\ IF run[w].profile \in gone
       THEN Done(w)
       ELSE run' = [run EXCEPT ![w].pc = "claim"] /\ UNCHANGED queueVars
  /\ UNCHANGED <<registryVars, connected, claimVars, resynced, schedVars, oauth,
                 up, stale>>

\* NextTrackedPrimaryAccountBatchForProfile, from here to Advance: the account
\* list first; without accounts the task is done.
ReadList(w) ==
  /\ run[w].pc = "claim"
  /\ IF Owned(run[w].profile) = {}
       THEN Done(w)
       ELSE /\ run' = [run EXCEPT ![w].pc = "insert", ![w].list = Owned(run[w].profile)]
            /\ UNCHANGED queueVars
  /\ UNCHANGED <<registryVars, connected, claimVars, resynced, schedVars, oauth, up, stale>>

\* INSERT ... ON CONFLICT DO NOTHING: a new row is the transaction's own.
InsertRow(w) ==
  LET p == run[w].profile
  IN  /\ run[w].pc = "insert" /\ p \notin gone
      /\ \/ cursor[p] # NoRow /\ UNCHANGED rowLock
         \/ /\ cursor[p] = NoRow /\ rowLock[p] = NoWorker
            /\ rowLock' = [rowLock EXCEPT ![p] = w]
      /\ run' = [run EXCEPT ![w].pc = "lock"]
      /\ UNCHANGED <<registryVars, connected, cursor, lastBatch, lastList, resynced,
                     queueVars, schedVars, oauth, up, stale>>

\* SELECT next_offset ... FOR UPDATE.
LockRow(w) ==
  LET p == run[w].profile
  IN  /\ run[w].pc = "lock" /\ p \notin gone /\ rowLock[p] \in {w, NoWorker}
      /\ rowLock' = [rowLock EXCEPT ![p] = w]
      /\ run' = [run EXCEPT ![w].pc = "update", ![w].offset = Cursor(p)!Offset(cursor[p])]
      /\ UNCHANGED <<registryVars, connected, cursor, lastBatch, lastList, resynced,
                     queueVars, schedVars, oauth, up, stale>>

\* A transaction that ends gives back the row it holds.
EndTx(w, p) == rowLock' = [rowLock EXCEPT ![p] = IF @ = w THEN NoWorker ELSE @]

\* UPDATE and COMMIT: the cursor moves here, over the list that was read before
\* the row was locked, and before Meta is asked.
Advance(w) ==
  LET p == run[w].profile
      L == run[w].list
      B == Cursor(p)!BatchOf(L, run[w].offset)
  IN  /\ run[w].pc = "update"
      /\ cursor' = [cursor EXCEPT ![p] =
            Cursor(p)!NextOffset(run[w].offset, Cardinality(L), Cursor(p)!K)]
      /\ lastBatch' = [lastBatch EXCEPT ![p] = B]
      /\ lastList' = [lastList EXCEPT ![p] = L]
      /\ EndTx(w, p)
      /\ run' = [run EXCEPT ![w] = [@ EXCEPT !.pc = "call", !.list = {}, !.offset = 0,
                                             !.batch = B]]
      /\ UNCHANGED <<registryVars, connected, resynced, queueVars, schedVars, oauth, up,
                     stale>>

\* InsightSnapshots answers; the accounts in F failed on their own and only
\* raise an alert.
MetaAnswers(w) ==
  /\ run[w].pc = "call"
  /\ \E F \in SUBSET run[w].batch :
       /\ up => F = {}
       /\ run' = [run EXCEPT ![w].pc = "save", ![w].batch = @ \ F]
  /\ UNCHANGED <<registryVars, connected, claimVars, resynced, queueVars,
                 schedVars, oauth, up, stale>>

\* A token or checkpoint error: SkipRetry archives the task, its key stays.
MetaRefuses(w) ==
  /\ run[w].pc = "call" /\ ~up
  /\ task' = [task EXCEPT ![run[w].profile][run[w].slot] = "none"]
  /\ run' = [run EXCEPT ![w] = Idle]
  /\ UNCHANGED <<registryVars, connected, claimVars, resynced, lock, tries,
                 schedVars, oauth, up, stale>>

\* Snapshots are stored one transaction each, in no particular order.
SaveSnapshot(w) ==
  /\ run[w].pc = "save"
  /\ \E a \in run[w].batch :
       /\ stale' = stale \ {a}
       /\ run' = [run EXCEPT ![w].batch = @ \ {a}]
  /\ UNCHANGED <<registryVars, connected, claimVars, resynced, queueVars,
                 schedVars, oauth, up>>

Finish(w) ==
  /\ run[w].pc = "save" /\ run[w].batch = {}
  /\ Done(w)
  /\ UNCHANGED <<registryVars, connected, claimVars, resynced, schedVars, oauth,
                 up, stale>>

\* Mutants of Retryable and NextTries: one retry too many, retries not counted.
RetryableOnceMore(p, s) == tries[p][s] <= MaxRetry
SameTries(p, s) == tries[p][s]

Retryable(p, s) == tries[p][s] < MaxRetry
NextTries(p, s) == tries[p][s] + 1

\* Any other error: asynq runs the task again later, or archives it after its
\* last retry.  The key stays; an open claim is rolled back.
Fail(w) ==
  LET p == run[w].profile
      s == run[w].slot
      again == Retryable(p, s)
  IN  /\ task' = [task EXCEPT ![p][s] = IF again THEN "waiting" ELSE "none"]
      /\ tries' = [tries EXCEPT ![p][s] = IF again THEN NextTries(p, s) ELSE @]
      /\ EndTx(w, p)
      /\ run' = [run EXCEPT ![w] = Idle]
      /\ UNCHANGED <<registryVars, connected, cursor, lastBatch, lastList, resynced, lock,
                     schedVars, oauth, up, stale>>

\* A call fails, the task times out, or its worker is lost.
TaskFails(w) == run[w].pc # "idle" /\ ~up /\ Fail(w)

\* The profile was deleted since the list was read: the foreign key refuses the
\* new cursor row, or the row to be locked is gone.
ClaimFails(w) ==
  /\ run[w].pc \in {"insert", "lock"} /\ run[w].profile \in gone
  /\ Fail(w)

-----------------------------------------------------------------------------
(* The environment. *)

Outage ==
  /\ up' = ~up
  /\ UNCHANGED <<registryVars, connected, claimVars, resynced, queueVars,
                 schedVars, run, oauth, stale>>

\* UTC midnight, possibly in the middle of a tick.
Midnight ==
  /\ resynced' = [p \in Profile |-> FALSE]
  /\ sameDay' = FALSE
  /\ UNCHANGED <<registryVars, connected, claimVars, queueVars, schedPc,
                 firstTick, todo, due, run, oauth, up, stale>>

SchedulerStep == \/ Tick \/ Resync \/ MarkResynced \/ ResyncFails \/ EnqueueChunk
                 \/ TickEnds \/ TickFails
OAuthStep(p) == \/ OAuthStore(p) \/ OAuthImport(p) \/ OAuthMark(p) \/ OAuthFails(p)
                \/ OAuthEnqueue(p)
RunStep(w) ==
  \/ ReadProfile(w) \/ ReadList(w) \/ InsertRow(w) \/ LockRow(w) \/ ClaimFails(w)
  \/ Advance(w) \/ MetaAnswers(w) \/ SaveSnapshot(w) \/ Finish(w)

Next ==
  \/ SchedulerStep \/ Outage \/ Midnight
  \/ \E p \in Profile : OAuthStep(p) \/ DeleteFBProfile(p) \/ LockExpires(p)
  \/ \E w \in Worker :
       \/ RunStep(w) \/ MetaRefuses(w) \/ TaskFails(w)
       \/ \E p \in Profile, s \in Slot : Dequeue(w, p, s)

\* A tick that has begun comes to its end.
TickLoop == Resync \/ MarkResynced \/ ResyncFails \/ EnqueueChunk \/ TickEnds

\* Calls return (they have timeouts), the queue is served in turn and keys
\* expire.
ServerFairness ==
  /\ \A p \in Profile :
       /\ WF_vars(LockExpires(p))
       /\ \A s \in Slot : SF_vars(\E w \in Worker : Dequeue(w, p, s))
  /\ \A w \in Worker : WF_vars(RunStep(w))

\* The ticker keeps ticking.
Fairness == WF_vars(Tick) /\ WF_vars(TickLoop) /\ ServerFairness

Safety == Init /\ [][Next]_vars
Spec == Safety /\ Fairness

-----------------------------------------------------------------------------
TypeOK ==
  /\ Registry!TypeOK
  /\ connected \subseteq Profile
  /\ cursor \in [Profile -> {NoRow} \cup 0 .. Cardinality(Account)]
  /\ rowLock \in [Profile -> Worker \cup {NoWorker}]
  /\ lastBatch \in [Profile -> SUBSET Account] /\ lastList \in [Profile -> SUBSET Account]
  /\ resynced \in [Profile -> BOOLEAN]
  /\ lock \in [Profile -> Slot \cup {Free}]
  /\ task \in [Profile -> [Slot -> {"none", "waiting", "active"}]]
  /\ tries \in [Profile -> [Slot -> 0 .. MaxRetry]]
  /\ schedPc \in {"idle", "loop", "mark", "stopped"}
  /\ firstTick \in BOOLEAN /\ sameDay \in BOOLEAN
  /\ todo \subseteq connected /\ due \subseteq todo
  /\ run \in [Worker -> Runs]
  /\ oauth \in [Profile -> {"none", "stored", "imported", "marked"}]
  /\ up \in BOOLEAN
  /\ stale \subseteq Account

\* Two workers fetch the same account at once only if one of them still works
\* for a profile that was deleted, or for the profile's own next chunk.
InFlightOnce ==
  \A v, w \in Worker :
    run[v].batch \cap run[w].batch # {} =>
      run[v].profile = run[w].profile \/ {run[v].profile, run[w].profile} \cap gone # {}

\* A worker and its queue slot belong together: no task runs twice at once, and
\* none is left active without a worker, whatever failed in between.
ActiveIsRunning ==
  \A p \in Profile, s \in Slot :
    Cardinality({w \in Worker : run[w].pc # "idle" /\ run[w].profile = p
                                                   /\ run[w].slot = s})
      = IF task[p][s] = "active" THEN 1 ELSE 0

\* Through outages, retries, lost workers, imports and deletions the claims of
\* every profile are those of CursorClaim: a list that went stale before its row
\* was locked, a claim given up half way and a profile deleted under it do to the
\* cursor what CursorClaim allows, and its promises hold of each profile here.
RefinesClaim ==
  /\ \A p \in Profile : Cursor(p)!ClaimInit
  /\ [][\A p \in Profile : [Cursor(p)!ClaimNext]_(Cursor(p)!claimVars)]_vars

\* Once everything stays up, every account of a connected profile gets a new
\* snapshot after each tick.  It takes one completed tick, nothing else: after
\* that no failure ends the scheduler.
SyncedWhenUp ==
  <>[](up /\ ~firstTick) =>
    \A a \in Account : a \in stale ~> (a \notin stale \/ owner[a] = NoProfile)

\* Every task leaves the queue, even if everything keeps failing.
TasksEnd ==
  \A p \in Profile, s \in Slot : task[p][s] # "none" ~> task[p][s] = "none"

\* "a retry simply rewrites the same facts": the chunk the retry of a failed
\* task will take is the chunk the failed attempt took.
RetryRepeatsChunk ==
  [][\A w \in Worker :
       LET p == run[w].profile IN
       TaskFails(w) /\ run[w].pc = "call" /\ task'[p][run[w].slot] = "waiting" =>
         Cursor(p)!BatchOf(Owned(p), cursor[p]) = run[w].batch]_vars

\* "First sync runs right away": after the callback a sync is in the queue.
FirstSyncRightAway ==
  [][\A p \in Profile : OAuthEnqueue(p) => \E s \in Slot : task'[p][s] # "none"]_vars
=============================================================================
