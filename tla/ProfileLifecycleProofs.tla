----------------------- MODULE ProfileLifecycleProofs -----------------------
(***************************************************************************)
(* Proofs about ProfileLifecycle, for any number of OAuth callbacks and     *)
(* workers at once and any number of tokens and rows of the user.           *)
(***************************************************************************)
EXTENDS ProfileLifecycle, TLAPS

\* Tokens Meta has issued and no callback has stored yet.
Coming == {conn[c].token : c \in {d \in Callback : conn[d].pc = "exchanged"}}

\* What each actor remembers while it is busy: a token that was issued, a row
\* that existed.  A row that is gone never returns, its ids go up.
Actors ==
  /\ \A c \in Callback :
       /\ conn[c].pc = "exchanged" => conn[c].token \in 1 .. issued
       /\ conn[c].pc \in {"stored", "imported", "marked"} => conn[c].row \in 1 .. lastRow
  /\ sched.pc \in {"send", "mark"} => sched.token \in Token /\ sched.token <= issued
  /\ sched.pc \in {"send", "mark", "resync", "stamp", "enqueue"} => sched.row \in 1 .. lastRow
  /\ \A w \in Worker : wk[w].pc # "idle" => wk[w].row \in 1 .. lastRow
  /\ queued \subseteq 1 .. lastRow
  /\ token \in 0 .. issued

\* Meta never issues a token twice, so that a token is stored once at most.
Fresh ==
  /\ token \notin Coming
  /\ \A c, d \in Callback :
       conn[c].pc = "exchanged" /\ conn[d].pc = "exchanged" /\ conn[c].token = conn[d].token
         => c = d

\* A token the scheduler is alerting for has been stored, and as long as it is,
\* it is in the row the scheduler has read.
Alerting ==
  sched.pc \in {"send", "mark"} =>
    sched.token \notin Coming /\ (sched.token = token => sched.row = row)

\* A token that was announced and whose stamp was not lost is not announced
\* again: it is stamped, about to be, or out of use for good.
Announced(v) ==
  /\ v <= issued /\ v \notin Coming
  /\ ~ (sched.pc = "send" /\ sched.token = v)
  /\ token = v => stamped \/ (sched.pc = "mark" /\ sched.token = v)

AlertedOnce == \A v \in Token : alerts[v] > 0 /\ v \notin lost => alerts[v] = 1 /\ Announced(v)

\* What a worker holds against a row is against a token of that row.
Blame ==
  /\ row # NoRow => token \in held
  /\ \A w \in Worker :
       /\ wk[w].pc # "idle" /\ wk[w].row = row => wk[w].token \in held
       /\ wk[w].pc \in {"checkpoint", "expired"} => wk[w].token \in dead
  /\ BlamedForOwnToken

IInv == TypeOK /\ Actors /\ Fresh /\ Alerting /\ AlertedOnce /\ Blame

-----------------------------------------------------------------------------
\* Typing needs what the actors remember: a row they enqueue was a row.
LEMMA TypeStep ==
  ASSUME TypeOK, Actors, [Next]_vars
  PROVE  TypeOK'
<1> USE LifecycleAssumption DEF TypeOK, Actors, Actor, Row, Token, Resting, Stopped, NoRow, NoToken,
        rowVars, tokenVars, schedVars, alertVars
<1>1. ASSUME NEW c \in Callback, ExchangeCode(c) PROVE TypeOK'
  BY <1>1 DEF ExchangeCode
<1>2. ASSUME NEW c \in Callback, UpsertFBProfile(c) PROVE TypeOK'
  <2>1. conn[c].token \in 1 .. issued /\ issued \in 0 .. MaxToken
    BY <1>2 DEF UpsertFBProfile
  <2>2. conn[c].token \in 1 .. MaxToken
    BY <2>1
  <2>3. /\ lastRow' \in 0 .. MaxRow /\ row' = lastRow' /\ row' # 0
        /\ row' \in 0 .. MaxRow
    BY <1>2 DEF UpsertFBProfile, NextRow
  <2>4. conn' \in [Callback -> Actor({"idle", "exchanged", "stored", "imported", "marked"})]
    <3>1. conn' = [conn EXCEPT ![c] = [pc |-> "stored", row |-> row', token |-> conn[c].token]]
      BY <1>2 DEF UpsertFBProfile
    <3>2. [pc |-> "stored", row |-> row', token |-> conn[c].token]
            \in Actor({"idle", "exchanged", "stored", "imported", "marked"})
      BY <2>2, <2>3
    <3> QED  BY <3>1, <3>2
  <2>5. held' \subseteq Token /\ resynced' \in BOOLEAN
    BY <1>2, <2>2 DEF UpsertFBProfile
  <2>6. row' \in {NoRow, lastRow'} /\ (token' = NoToken <=> row' = NoRow)
    BY <1>2, <2>2, <2>3 DEF UpsertFBProfile
  <2>7. /\ issued' = issued /\ near' = near /\ dead' = dead /\ queued' = queued
        /\ sched' = sched /\ sameDay' = sameDay /\ firstTick' = firstTick /\ wk' = wk
        /\ alerts' = alerts /\ tried' = tried /\ lost' = lost /\ stray' = stray
        /\ owns' = owns
        /\ status' = "active" /\ stamped' = FALSE /\ token' \in 1 .. MaxToken
    BY <1>2, <2>2 DEF UpsertFBProfile
  <2>8. TypeOK
    OBVIOUS
  <2>9. /\ lastRow' \in Row \cup {NoRow} /\ token' \in Token \cup {NoToken}
        /\ row' # NoRow
    BY <2>3, <2>7
  <2>10. stamped' \in BOOLEAN /\ owns' \in BOOLEAN /\ (owns' => row' # NoRow)
    BY <2>7, <2>8, <2>9, Zenon
  <2> HIDE DEF Actor, Row, Token
  <2> QED  BY <2>10, <2>4, <2>5, <2>6, <2>7, <2>8, <2>9
<1>3. ASSUME NEW c \in Callback, ImportAccounts(c) PROVE TypeOK'
  <2>1. owns' \in BOOLEAN
    BY <1>3, Zenon DEF ImportAccounts
  <2>2. owns' => row # NoRow
    <3>1. conn[c].row # NoRow /\ (owns => row # NoRow)
      BY <1>3 DEF ImportAccounts
    <3>2. owns' = owns \/ owns' = (owns \/ conn[c].row = row)
      BY <1>3, Zenon DEF ImportAccounts
    <3> HIDE DEF NoRow, TypeOK, Actors
    <3> QED  BY <3>1, <3>2, Zenon
  <2>3. conn' \in [Callback -> Actor({"idle", "exchanged", "stored", "imported", "marked"})]
    BY <1>3 DEF ImportAccounts
  <2> HIDE DEF Actor
  <2> QED  BY <1>3, <2>1, <2>2, <2>3 DEF ImportAccounts
<1>4. ASSUME NEW c \in Callback, MarkResynced(c) PROVE TypeOK'
  <2>1. resynced' \in BOOLEAN
    BY <1>4, Zenon DEF MarkResynced
  <2>2. conn' \in [Callback -> Actor({"idle", "exchanged", "stored", "imported", "marked"})]
    BY <1>4 DEF MarkResynced
  <2> HIDE DEF Actor
  <2> QED  BY <1>4, <2>1, <2>2 DEF MarkResynced
<1>5. ASSUME NEW c \in Callback, EnqueueFirst(c) PROVE TypeOK'
  <2>1. conn[c].row \in 1 .. lastRow /\ lastRow \in 0 .. MaxRow
    BY <1>5 DEF EnqueueFirst
  <2>2. conn[c].row \in 1 .. MaxRow
    BY <2>1
  <2>3. queued' \subseteq 1 .. MaxRow
    BY <1>5, <2>2 DEF EnqueueFirst
  <2>4. conn' \in [Callback -> Actor({"idle", "exchanged", "stored", "imported", "marked"})]
    BY <1>5 DEF EnqueueFirst
  <2> QED  BY <1>5, <2>3, <2>4 DEF EnqueueFirst
<1>6. ASSUME NEW c \in Callback, CallbackFails(c) PROVE TypeOK'
  BY <1>6 DEF CallbackFails
<1>7. ASSUME NEW w \in Worker, TakeTask(w) PROVE TypeOK'
  BY <1>7 DEF TakeTask
<1>8. ASSUME NEW w \in Worker, ClaimBatch(w) PROVE TypeOK'
  BY <1>8 DEF ClaimBatch
<1>9. ASSUME NEW w \in Worker, CallSucceeds(w) PROVE TypeOK'
  BY <1>9 DEF CallSucceeds
<1>10. ASSUME NEW w \in Worker, RunFails(w) PROVE TypeOK'
  <2>1. wk[w].row \in 1 .. lastRow /\ lastRow \in 0 .. MaxRow
    BY <1>10 DEF RunFails
  <2>2. wk[w].row \in 1 .. MaxRow
    BY <2>1
  <2>3. queued' \subseteq 1 .. MaxRow
    BY <1>10, <2>2 DEF RunFails
  <2>4. wk' \in [Worker -> Actor({"idle", "claim", "call", "checkpoint", "expired"})]
    BY <1>10 DEF RunFails
  <2> QED  BY <1>10, <2>3, <2>4 DEF RunFails
<1>11. ASSUME NEW w \in Worker, CallRefused(w) PROVE TypeOK'
  <2>1. wk' \in [Worker -> Actor({"idle", "claim", "call", "checkpoint", "expired"})]
    BY <1>11 DEF CallRefused
  <2> HIDE DEF Actor
  <2> QED  BY <1>11, <2>1 DEF CallRefused
<1>12. ASSUME NEW w \in Worker, UpdateProfileStatus(w) PROVE TypeOK'
  BY <1>12 DEF UpdateProfileStatus
<1>13. ASSUME NEW w \in Worker, UpdateStatusFails(w) PROVE TypeOK'
  BY <1>13 DEF UpdateStatusFails
<1>14. ASSUME NEW v \in Token, TokenAges(v) PROVE TypeOK'
  <2>1. v \in 1 .. issued
    BY <1>14 DEF TokenAges
  <2>2. near' \subseteq 1 .. issued /\ dead' \subseteq 1 .. issued
    BY <1>14, <2>1 DEF TokenAges
  <2> QED  BY <1>14, <2>2 DEF TokenAges
<1>15. CASE ProfilesNeedingExpiryAlert
  BY <1>15 DEF ProfilesNeedingExpiryAlert
<1>16. CASE SendAlert
  <2>1. sched.token \in Token /\ tried' \subseteq Token
    BY <1>16 DEF SendAlert
  <2>3. alerts' \in [Token -> 0 .. 2]
    <3>1. \/ alerts' = alerts
          \/ alerts' = [alerts EXCEPT ![sched.token] = IF alerts[sched.token] = 0 THEN 1 ELSE 2]
      BY <1>16 DEF SendAlert
    <3>2. (IF alerts[sched.token] = 0 THEN 1 ELSE 2) \in 0 .. 2
      OBVIOUS
    <3> QED  BY <2>1, <3>1, <3>2
  <2>2. sched' \in Actor({"idle", "send", "mark", "list", "resync", "stamp", "enqueue", "stopped"})
    BY <1>16 DEF SendAlert
  <2> HIDE DEF Actor
  <2> QED  BY <1>16, <2>1, <2>2, <2>3 DEF SendAlert
<1>17. CASE MarkExpiryAlerted
  BY <1>17 DEF MarkExpiryAlerted
<1>18. CASE AlertStepFails
  BY <1>18 DEF AlertStepFails
<1>19. CASE SyncProfiles
  <2>1. sched' \in Actor({"idle", "send", "mark", "list", "resync", "stamp", "enqueue", "stopped"})
    BY <1>19 DEF SyncProfiles, EndTick, AbortTick
  <2>2. firstTick' \in BOOLEAN
    BY <1>19, Zenon DEF SyncProfiles, EndTick, AbortTick
  <2> HIDE DEF Actor
  <2> QED  BY <1>19, <2>1, <2>2 DEF SyncProfiles
<1>20. CASE TickFails
  BY <1>20 DEF TickFails, EndTick, AbortTick
<1>21. CASE Resync
  <2>1. owns' \in BOOLEAN
    BY <1>21, Zenon DEF Resync
  <2>2. owns' => row # NoRow
    <3>1. sched.row # NoRow /\ (owns => row # NoRow)
      BY <1>21 DEF Resync
    <3>2. owns' = owns \/ owns' = (owns \/ sched.row = row)
      BY <1>21, Zenon DEF Resync
    <3> HIDE DEF NoRow, TypeOK, Actors
    <3> QED  BY <3>1, <3>2, Zenon
  <2>3. sched' \in Actor({"idle", "send", "mark", "list", "resync", "stamp", "enqueue", "stopped"})
    BY <1>21 DEF Resync
  <2> HIDE DEF Actor
  <2> QED  BY <1>21, <2>1, <2>2, <2>3 DEF Resync
<1>22. CASE StampResync
  BY <1>22 DEF StampResync
<1>23. CASE ResyncFails
  <2>1. sched' \in Actor({"idle", "send", "mark", "list", "resync", "stamp", "enqueue", "stopped"})
    BY <1>23 DEF ResyncFails, EndTick, AbortTick
  <2>2. firstTick' \in BOOLEAN
    BY <1>23, Zenon DEF ResyncFails, EndTick, AbortTick
  <2> HIDE DEF Actor
  <2> QED  BY <1>23, <2>1, <2>2 DEF ResyncFails
<1>24. CASE EnqueueChunk
  <2>1. sched.row \in 1 .. lastRow /\ lastRow \in 0 .. MaxRow
    BY <1>24 DEF EnqueueChunk, EndTick, AbortTick
  <2>2. sched.row \in 1 .. MaxRow
    BY <2>1
  <2>3. queued' \subseteq 1 .. MaxRow
    BY <1>24, <2>2 DEF EnqueueChunk, EndTick, AbortTick
  <2>4. sched' \in Actor({"idle", "send", "mark", "list", "resync", "stamp", "enqueue", "stopped"})
    BY <1>24 DEF EnqueueChunk, EndTick, AbortTick
  <2>5. firstTick' \in BOOLEAN
    BY <1>24, Zenon DEF EnqueueChunk, EndTick, AbortTick
  <2> HIDE DEF Actor
  <2> QED  BY <1>24, <2>3, <2>4, <2>5 DEF EnqueueChunk
<1>25. CASE DeleteFBProfile
  BY <1>25 DEF DeleteFBProfile
<1>26. CASE SchedulerRestarts
  BY <1>26 DEF SchedulerRestarts
<1>27. CASE Midnight
  <2>1. resynced' \in BOOLEAN /\ sameDay' \in BOOLEAN
    BY <1>27, Zenon DEF Midnight
  <2> HIDE DEF Actor
  <2> QED  BY <1>27, <2>1 DEF Midnight
<1>28. CASE UNCHANGED vars
  BY <1>28 DEF vars
<1> QED
  BY <1>1, <1>2, <1>3, <1>4, <1>5, <1>6, <1>7, <1>8, <1>9, <1>10, <1>11, <1>12, <1>13, <1>14, <1>15,
     <1>16, <1>17, <1>18, <1>19, <1>20, <1>21, <1>22, <1>23, <1>24, <1>25, <1>26, <1>27, <1>28
     DEF Next, CallbackStep, SchedulerStep, WorkerStep

\* Row ids and tokens only go up, so that nothing an actor remembers is lost.
LEMMA ActorsStep ==
  ASSUME TypeOK, Actors, [Next]_vars
  PROVE  Actors'
<1> USE LifecycleAssumption DEF TypeOK, Actors, Actor, Row, Token, Resting, Stopped, NoRow, NoToken,
        rowVars, tokenVars, schedVars, alertVars
<1>1. ASSUME NEW c \in Callback, ExchangeCode(c) PROVE Actors'
  BY <1>1 DEF ExchangeCode
<1>2. ASSUME NEW c \in Callback, UpsertFBProfile(c) PROVE Actors'
  <2>1. conn[c].token \in 1 .. issued /\ issued' = issued /\ token' = conn[c].token
    BY <1>2 DEF UpsertFBProfile
  <2>2. /\ lastRow' \in Nat /\ lastRow \in Nat /\ lastRow <= lastRow'
        /\ row' \in 1 .. lastRow'
    BY <1>2 DEF UpsertFBProfile, NextRow
  <2>3. \A x : x \in 1 .. lastRow => x \in 1 .. lastRow'
    BY <2>2
  <2>4. ASSUME NEW d \in Callback
        PROVE  /\ conn'[d].pc = "exchanged" => conn'[d].token \in 1 .. issued'
               /\ conn'[d].pc \in {"stored", "imported", "marked"} => conn'[d].row \in 1 .. lastRow'
    BY <1>2, <2>1, <2>2, <2>3 DEF UpsertFBProfile
  <2>5. sched' = sched /\ wk' = wk /\ queued' = queued
    BY <1>2 DEF UpsertFBProfile
  <2>6. token' \in 0 .. issued'
    BY <2>1
  <2>7. /\ sched'.pc \in {"send", "mark"} => sched'.token \in Token /\ sched'.token <= issued'
        /\ sched'.pc \in {"send", "mark", "resync", "stamp", "enqueue"} => sched'.row \in 1 .. lastRow'
    BY <2>1, <2>3, <2>5
  <2>8. /\ \A w \in Worker : wk'[w].pc # "idle" => wk'[w].row \in 1 .. lastRow'
        /\ queued' \subseteq 1 .. lastRow'
    BY <2>3, <2>5
  <2> QED  BY <2>4, <2>6, <2>7, <2>8
<1>3. ASSUME NEW c \in Callback, ImportAccounts(c) PROVE Actors'
  BY <1>3 DEF ImportAccounts
<1>4. ASSUME NEW c \in Callback, MarkResynced(c) PROVE Actors'
  BY <1>4 DEF MarkResynced
<1>5. ASSUME NEW c \in Callback, EnqueueFirst(c) PROVE Actors'
  BY <1>5 DEF EnqueueFirst
<1>6. ASSUME NEW c \in Callback, CallbackFails(c) PROVE Actors'
  BY <1>6 DEF CallbackFails
<1>7. ASSUME NEW w \in Worker, TakeTask(w) PROVE Actors'
  BY <1>7 DEF TakeTask
<1>8. ASSUME NEW w \in Worker, ClaimBatch(w) PROVE Actors'
  BY <1>8 DEF ClaimBatch
<1>9. ASSUME NEW w \in Worker, CallSucceeds(w) PROVE Actors'
  BY <1>9 DEF CallSucceeds
<1>10. ASSUME NEW w \in Worker, RunFails(w) PROVE Actors'
  BY <1>10 DEF RunFails
<1>11. ASSUME NEW w \in Worker, CallRefused(w) PROVE Actors'
  BY <1>11 DEF CallRefused
<1>12. ASSUME NEW w \in Worker, UpdateProfileStatus(w) PROVE Actors'
  BY <1>12 DEF UpdateProfileStatus
<1>13. ASSUME NEW w \in Worker, UpdateStatusFails(w) PROVE Actors'
  BY <1>13 DEF UpdateStatusFails
<1>14. ASSUME NEW v \in Token, TokenAges(v) PROVE Actors'
  BY <1>14 DEF TokenAges
<1>15. CASE ProfilesNeedingExpiryAlert
  <2>1. NeedsExpiryAlert => row \in 1 .. lastRow /\ token \in Token /\ token <= issued
    BY DEF NeedsExpiryAlert
  <2>2. /\ sched'.pc \in {"send", "mark"} => sched'.token \in Token /\ sched'.token <= issued'
        /\ sched'.pc \in {"send", "mark", "resync", "stamp", "enqueue"} => sched'.row \in 1 .. lastRow
    BY <1>15, <2>1 DEF ProfilesNeedingExpiryAlert
  <2> QED  BY <1>15, <2>2 DEF ProfilesNeedingExpiryAlert
<1>16. CASE SendAlert
  BY <1>16 DEF SendAlert
<1>17. CASE MarkExpiryAlerted
  BY <1>17 DEF MarkExpiryAlerted
<1>18. CASE AlertStepFails
  BY <1>18 DEF AlertStepFails
<1>19. CASE SyncProfiles
  BY <1>19 DEF SyncProfiles, EndTick, AbortTick
<1>20. CASE TickFails
  BY <1>20 DEF TickFails, EndTick, AbortTick
<1>21. CASE Resync
  BY <1>21 DEF Resync
<1>22. CASE StampResync
  BY <1>22 DEF StampResync
<1>23. CASE ResyncFails
  BY <1>23 DEF ResyncFails, EndTick, AbortTick
<1>24. CASE EnqueueChunk
  BY <1>24 DEF EnqueueChunk, EndTick, AbortTick
<1>25. CASE DeleteFBProfile
  BY <1>25 DEF DeleteFBProfile
<1>26. CASE SchedulerRestarts
  BY <1>26 DEF SchedulerRestarts
<1>27. CASE Midnight
  BY <1>27 DEF Midnight
<1>28. CASE UNCHANGED vars
  BY <1>28 DEF vars
<1> QED
  BY <1>1, <1>2, <1>3, <1>4, <1>5, <1>6, <1>7, <1>8, <1>9, <1>10, <1>11, <1>12, <1>13, <1>14, <1>15,
     <1>16, <1>17, <1>18, <1>19, <1>20, <1>21, <1>22, <1>23, <1>24, <1>25, <1>26, <1>27, <1>28
     DEF Next, CallbackStep, SchedulerStep, WorkerStep

\* A callback stores the token it has exchanged, once.
LEMMA FreshStep ==
  ASSUME TypeOK, Actors, Fresh, [Next]_vars
  PROVE  Fresh'
<1> USE LifecycleAssumption
        DEF TypeOK, Actors, Fresh, Coming, Actor, Row, Token, Resting, Stopped, NoRow, NoToken,
        rowVars, tokenVars, schedVars, alertVars
<1>1. ASSUME NEW c \in Callback, ExchangeCode(c) PROVE Fresh'
  BY <1>1 DEF ExchangeCode
<1>2. ASSUME NEW c \in Callback, UpsertFBProfile(c) PROVE Fresh'
  BY <1>2 DEF UpsertFBProfile
<1>3. ASSUME NEW c \in Callback, ImportAccounts(c) PROVE Fresh'
  BY <1>3 DEF ImportAccounts
<1>4. ASSUME NEW c \in Callback, MarkResynced(c) PROVE Fresh'
  BY <1>4 DEF MarkResynced
<1>5. ASSUME NEW c \in Callback, EnqueueFirst(c) PROVE Fresh'
  BY <1>5 DEF EnqueueFirst
<1>6. ASSUME NEW c \in Callback, CallbackFails(c) PROVE Fresh'
  BY <1>6 DEF CallbackFails
<1>7. ASSUME NEW w \in Worker, TakeTask(w) PROVE Fresh'
  BY <1>7 DEF TakeTask
<1>8. ASSUME NEW w \in Worker, ClaimBatch(w) PROVE Fresh'
  BY <1>8 DEF ClaimBatch
<1>9. ASSUME NEW w \in Worker, CallSucceeds(w) PROVE Fresh'
  BY <1>9 DEF CallSucceeds
<1>10. ASSUME NEW w \in Worker, RunFails(w) PROVE Fresh'
  BY <1>10 DEF RunFails
<1>11. ASSUME NEW w \in Worker, CallRefused(w) PROVE Fresh'
  BY <1>11 DEF CallRefused
<1>12. ASSUME NEW w \in Worker, UpdateProfileStatus(w) PROVE Fresh'
  BY <1>12 DEF UpdateProfileStatus
<1>13. ASSUME NEW w \in Worker, UpdateStatusFails(w) PROVE Fresh'
  BY <1>13 DEF UpdateStatusFails
<1>14. ASSUME NEW v \in Token, TokenAges(v) PROVE Fresh'
  BY <1>14 DEF TokenAges
<1>15. CASE ProfilesNeedingExpiryAlert
  BY <1>15 DEF ProfilesNeedingExpiryAlert
<1>16. CASE SendAlert
  BY <1>16 DEF SendAlert
<1>17. CASE MarkExpiryAlerted
  BY <1>17 DEF MarkExpiryAlerted
<1>18. CASE AlertStepFails
  BY <1>18 DEF AlertStepFails
<1>19. CASE SyncProfiles
  BY <1>19 DEF SyncProfiles, EndTick, AbortTick
<1>20. CASE TickFails
  BY <1>20 DEF TickFails, EndTick, AbortTick
<1>21. CASE Resync
  BY <1>21 DEF Resync
<1>22. CASE StampResync
  BY <1>22 DEF StampResync
<1>23. CASE ResyncFails
  BY <1>23 DEF ResyncFails, EndTick, AbortTick
<1>24. CASE EnqueueChunk
  BY <1>24 DEF EnqueueChunk, EndTick, AbortTick
<1>25. CASE DeleteFBProfile
  BY <1>25 DEF DeleteFBProfile
<1>26. CASE SchedulerRestarts
  BY <1>26 DEF SchedulerRestarts
<1>27. CASE Midnight
  BY <1>27 DEF Midnight
<1>28. CASE UNCHANGED vars
  BY <1>28 DEF vars
<1> QED
  BY <1>1, <1>2, <1>3, <1>4, <1>5, <1>6, <1>7, <1>8, <1>9, <1>10, <1>11, <1>12, <1>13, <1>14, <1>15,
     <1>16, <1>17, <1>18, <1>19, <1>20, <1>21, <1>22, <1>23, <1>24, <1>25, <1>26, <1>27, <1>28
     DEF Next, CallbackStep, SchedulerStep, WorkerStep

\* A deletion or a reconnect leaves the scheduler with a token out of use.
LEMMA AlertingStep ==
  ASSUME TypeOK, Actors, Fresh, Alerting, [Next]_vars
  PROVE  Alerting'
<1> USE LifecycleAssumption
        DEF TypeOK, Actors, Fresh, Alerting, Coming, Actor, Row, Token, Resting, Stopped, NoRow,
            NoToken,
        rowVars, tokenVars, schedVars, alertVars
<1>1. ASSUME NEW c \in Callback, ExchangeCode(c) PROVE Alerting'
  <2>1. Coming' \subseteq Coming \cup {issued + 1}
    BY <1>1 DEF ExchangeCode
  <2>2. sched.pc \in {"send", "mark"} => sched.token # issued + 1
    BY <1>1 DEF ExchangeCode
  <2> QED  BY <1>1, <2>1, <2>2 DEF ExchangeCode
<1>2. ASSUME NEW c \in Callback, UpsertFBProfile(c) PROVE Alerting'
  BY <1>2 DEF UpsertFBProfile
<1>3. ASSUME NEW c \in Callback, ImportAccounts(c) PROVE Alerting'
  BY <1>3 DEF ImportAccounts
<1>4. ASSUME NEW c \in Callback, MarkResynced(c) PROVE Alerting'
  BY <1>4 DEF MarkResynced
<1>5. ASSUME NEW c \in Callback, EnqueueFirst(c) PROVE Alerting'
  BY <1>5 DEF EnqueueFirst
<1>6. ASSUME NEW c \in Callback, CallbackFails(c) PROVE Alerting'
  BY <1>6 DEF CallbackFails
<1>7. ASSUME NEW w \in Worker, TakeTask(w) PROVE Alerting'
  BY <1>7 DEF TakeTask
<1>8. ASSUME NEW w \in Worker, ClaimBatch(w) PROVE Alerting'
  BY <1>8 DEF ClaimBatch
<1>9. ASSUME NEW w \in Worker, CallSucceeds(w) PROVE Alerting'
  BY <1>9 DEF CallSucceeds
<1>10. ASSUME NEW w \in Worker, RunFails(w) PROVE Alerting'
  BY <1>10 DEF RunFails
<1>11. ASSUME NEW w \in Worker, CallRefused(w) PROVE Alerting'
  BY <1>11 DEF CallRefused
<1>12. ASSUME NEW w \in Worker, UpdateProfileStatus(w) PROVE Alerting'
  BY <1>12 DEF UpdateProfileStatus
<1>13. ASSUME NEW w \in Worker, UpdateStatusFails(w) PROVE Alerting'
  BY <1>13 DEF UpdateStatusFails
<1>14. ASSUME NEW v \in Token, TokenAges(v) PROVE Alerting'
  BY <1>14 DEF TokenAges
<1>15. CASE ProfilesNeedingExpiryAlert
  BY <1>15 DEF ProfilesNeedingExpiryAlert
<1>16. CASE SendAlert
  BY <1>16 DEF SendAlert
<1>17. CASE MarkExpiryAlerted
  BY <1>17 DEF MarkExpiryAlerted
<1>18. CASE AlertStepFails
  BY <1>18 DEF AlertStepFails
<1>19. CASE SyncProfiles
  BY <1>19 DEF SyncProfiles, EndTick, AbortTick
<1>20. CASE TickFails
  BY <1>20 DEF TickFails, EndTick, AbortTick
<1>21. CASE Resync
  BY <1>21 DEF Resync
<1>22. CASE StampResync
  BY <1>22 DEF StampResync
<1>23. CASE ResyncFails
  BY <1>23 DEF ResyncFails, EndTick, AbortTick
<1>24. CASE EnqueueChunk
  BY <1>24 DEF EnqueueChunk, EndTick, AbortTick
<1>25. CASE DeleteFBProfile
  BY <1>25 DEF DeleteFBProfile
<1>26. CASE SchedulerRestarts
  BY <1>26 DEF SchedulerRestarts
<1>27. CASE Midnight
  BY <1>27 DEF Midnight
<1>28. CASE UNCHANGED vars
  BY <1>28 DEF vars
<1> QED
  BY <1>1, <1>2, <1>3, <1>4, <1>5, <1>6, <1>7, <1>8, <1>9, <1>10, <1>11, <1>12, <1>13, <1>14, <1>15,
     <1>16, <1>17, <1>18, <1>19, <1>20, <1>21, <1>22, <1>23, <1>24, <1>25, <1>26, <1>27, <1>28
     DEF Next, CallbackStep, SchedulerStep, WorkerStep

\* Between the query and the stamp only a failure or a restart loses an alert,
\* and those are counted.
LEMMA AlertedStep ==
  ASSUME TypeOK, Actors, Fresh, Alerting, AlertedOnce, [Next]_vars
  PROVE  AlertedOnce'
<1> USE LifecycleAssumption
        DEF TypeOK, Actors, Fresh, Alerting, AlertedOnce, Announced, Coming, Actor, Row,
            Token, Resting, Stopped, NoRow, NoToken,
        rowVars, tokenVars, schedVars, alertVars
<1>1. ASSUME NEW c \in Callback, ExchangeCode(c) PROVE AlertedOnce'
  <2>1. Coming' \subseteq Coming \cup {issued + 1}
    BY <1>1 DEF ExchangeCode
  <2> QED  BY <1>1, <2>1 DEF ExchangeCode
<1>2. ASSUME NEW c \in Callback, UpsertFBProfile(c) PROVE AlertedOnce'
  BY <1>2 DEF UpsertFBProfile
<1>3. ASSUME NEW c \in Callback, ImportAccounts(c) PROVE AlertedOnce'
  BY <1>3 DEF ImportAccounts
<1>4. ASSUME NEW c \in Callback, MarkResynced(c) PROVE AlertedOnce'
  BY <1>4 DEF MarkResynced
<1>5. ASSUME NEW c \in Callback, EnqueueFirst(c) PROVE AlertedOnce'
  BY <1>5 DEF EnqueueFirst
<1>6. ASSUME NEW c \in Callback, CallbackFails(c) PROVE AlertedOnce'
  BY <1>6 DEF CallbackFails
<1>7. ASSUME NEW w \in Worker, TakeTask(w) PROVE AlertedOnce'
  BY <1>7 DEF TakeTask
<1>8. ASSUME NEW w \in Worker, ClaimBatch(w) PROVE AlertedOnce'
  BY <1>8 DEF ClaimBatch
<1>9. ASSUME NEW w \in Worker, CallSucceeds(w) PROVE AlertedOnce'
  BY <1>9 DEF CallSucceeds
<1>10. ASSUME NEW w \in Worker, RunFails(w) PROVE AlertedOnce'
  BY <1>10 DEF RunFails
<1>11. ASSUME NEW w \in Worker, CallRefused(w) PROVE AlertedOnce'
  BY <1>11 DEF CallRefused
<1>12. ASSUME NEW w \in Worker, UpdateProfileStatus(w) PROVE AlertedOnce'
  BY <1>12 DEF UpdateProfileStatus
<1>13. ASSUME NEW w \in Worker, UpdateStatusFails(w) PROVE AlertedOnce'
  BY <1>13 DEF UpdateStatusFails
<1>14. ASSUME NEW v \in Token, TokenAges(v) PROVE AlertedOnce'
  BY <1>14 DEF TokenAges
<1>15. CASE ProfilesNeedingExpiryAlert
  <2>1. /\ Coming' = Coming /\ token' = token /\ stamped' = stamped
        /\ alerts' = alerts /\ lost' = lost /\ issued' = issued /\ sched.pc = "idle"
    BY <1>15 DEF ProfilesNeedingExpiryAlert
  <2>2. sched'.pc = "send" => sched'.token = token /\ ~stamped
    BY <1>15 DEF ProfilesNeedingExpiryAlert, NeedsExpiryAlert
  <2> QED  BY <2>1, <2>2
<1>16. CASE SendAlert
  BY <1>16 DEF SendAlert
<1>17. CASE MarkExpiryAlerted
  <2>1. /\ Coming' = Coming /\ token' = token /\ alerts' = alerts /\ lost' = lost /\ issued' = issued
        /\ sched.pc = "mark" /\ sched'.pc = "list" /\ stamped' = (stamped \/ sched.row = row)
    BY <1>17 DEF MarkExpiryAlerted
  <2> QED  BY <2>1
<1>18. CASE AlertStepFails
  BY <1>18 DEF AlertStepFails
<1>19. CASE SyncProfiles
  BY <1>19 DEF SyncProfiles, EndTick, AbortTick
<1>20. CASE TickFails
  BY <1>20 DEF TickFails, EndTick, AbortTick
<1>21. CASE Resync
  BY <1>21 DEF Resync
<1>22. CASE StampResync
  BY <1>22 DEF StampResync
<1>23. CASE ResyncFails
  BY <1>23 DEF ResyncFails, EndTick, AbortTick
<1>24. CASE EnqueueChunk
  BY <1>24 DEF EnqueueChunk, EndTick, AbortTick
<1>25. CASE DeleteFBProfile
  BY <1>25 DEF DeleteFBProfile
<1>26. CASE SchedulerRestarts
  BY <1>26 DEF SchedulerRestarts
<1>27. CASE Midnight
  BY <1>27 DEF Midnight
<1>28. CASE UNCHANGED vars
  BY <1>28 DEF vars
<1> QED
  BY <1>1, <1>2, <1>3, <1>4, <1>5, <1>6, <1>7, <1>8, <1>9, <1>10, <1>11, <1>12, <1>13, <1>14, <1>15,
     <1>16, <1>17, <1>18, <1>19, <1>20, <1>21, <1>22, <1>23, <1>24, <1>25, <1>26, <1>27, <1>28
     DEF Next, CallbackStep, SchedulerStep, WorkerStep

\* New rows have new ids, and a row keeps the tokens it has held.
LEMMA BlameStep ==
  ASSUME TypeOK, Actors, Blame, [Next]_vars
  PROVE  Blame'
<1> USE LifecycleAssumption
        DEF TypeOK, Actors, Blame, BlamedForOwnToken, Actor, Row, Token, Resting, Stopped, NoRow,
            NoToken,
        rowVars, tokenVars, schedVars, alertVars
<1>1. ASSUME NEW c \in Callback, ExchangeCode(c) PROVE Blame'
  BY <1>1 DEF ExchangeCode
<1>2. ASSUME NEW c \in Callback, UpsertFBProfile(c) PROVE Blame'
  <2>1. /\ row' # NoRow /\ token' = conn[c].token /\ token' \in held'
        /\ wk' = wk /\ dead' = dead /\ status' = "active"
        /\ (row' = row /\ held \subseteq held') \/ row' = lastRow + 1
    BY <1>2 DEF UpsertFBProfile, NextRow
  <2>2. \A w \in Worker : wk[w].pc # "idle" => wk[w].row # lastRow + 1
    OBVIOUS
  <2> QED  BY <2>1, <2>2
<1>3. ASSUME NEW c \in Callback, ImportAccounts(c) PROVE Blame'
  BY <1>3 DEF ImportAccounts
<1>4. ASSUME NEW c \in Callback, MarkResynced(c) PROVE Blame'
  BY <1>4 DEF MarkResynced
<1>5. ASSUME NEW c \in Callback, EnqueueFirst(c) PROVE Blame'
  BY <1>5 DEF EnqueueFirst
<1>6. ASSUME NEW c \in Callback, CallbackFails(c) PROVE Blame'
  BY <1>6 DEF CallbackFails
<1>7. ASSUME NEW w \in Worker, TakeTask(w) PROVE Blame'
  BY <1>7 DEF TakeTask
<1>8. ASSUME NEW w \in Worker, ClaimBatch(w) PROVE Blame'
  BY <1>8 DEF ClaimBatch
<1>9. ASSUME NEW w \in Worker, CallSucceeds(w) PROVE Blame'
  BY <1>9 DEF CallSucceeds
<1>10. ASSUME NEW w \in Worker, RunFails(w) PROVE Blame'
  BY <1>10 DEF RunFails
<1>11. ASSUME NEW w \in Worker, CallRefused(w) PROVE Blame'
  BY <1>11 DEF CallRefused
<1>12. ASSUME NEW w \in Worker, UpdateProfileStatus(w) PROVE Blame'
  BY <1>12 DEF UpdateProfileStatus
<1>13. ASSUME NEW w \in Worker, UpdateStatusFails(w) PROVE Blame'
  BY <1>13 DEF UpdateStatusFails
<1>14. ASSUME NEW v \in Token, TokenAges(v) PROVE Blame'
  BY <1>14 DEF TokenAges
<1>15. CASE ProfilesNeedingExpiryAlert
  BY <1>15 DEF ProfilesNeedingExpiryAlert
<1>16. CASE SendAlert
  BY <1>16 DEF SendAlert
<1>17. CASE MarkExpiryAlerted
  BY <1>17 DEF MarkExpiryAlerted
<1>18. CASE AlertStepFails
  BY <1>18 DEF AlertStepFails
<1>19. CASE SyncProfiles
  BY <1>19 DEF SyncProfiles, EndTick, AbortTick
<1>20. CASE TickFails
  BY <1>20 DEF TickFails, EndTick, AbortTick
<1>21. CASE Resync
  BY <1>21 DEF Resync
<1>22. CASE StampResync
  BY <1>22 DEF StampResync
<1>23. CASE ResyncFails
  BY <1>23 DEF ResyncFails, EndTick, AbortTick
<1>24. CASE EnqueueChunk
  BY <1>24 DEF EnqueueChunk, EndTick, AbortTick
<1>25. CASE DeleteFBProfile
  BY <1>25 DEF DeleteFBProfile
<1>26. CASE SchedulerRestarts
  BY <1>26 DEF SchedulerRestarts
<1>27. CASE Midnight
  BY <1>27 DEF Midnight
<1>28. CASE UNCHANGED vars
  BY <1>28 DEF vars
<1> QED
  BY <1>1, <1>2, <1>3, <1>4, <1>5, <1>6, <1>7, <1>8, <1>9, <1>10, <1>11, <1>12, <1>13, <1>14, <1>15,
     <1>16, <1>17, <1>18, <1>19, <1>20, <1>21, <1>22, <1>23, <1>24, <1>25, <1>26, <1>27, <1>28
     DEF Next, CallbackStep, SchedulerStep, WorkerStep

LEMMA InitIInv == Init => IInv
<1> SUFFICES ASSUME Init PROVE IInv
  OBVIOUS
<1> USE LifecycleAssumption DEF Init, Resting, Stopped, NoRow, NoToken, Row, Token
<1>1. TypeOK
  <2>1. \A pcs : "idle" \in pcs => Resting \in Actor(pcs)
    BY DEF Actor
  <2>2. /\ conn \in [Callback -> Actor({"idle", "exchanged", "stored", "imported", "marked"})]
        /\ sched \in Actor({"idle", "send", "mark", "list", "resync", "stamp", "enqueue", "stopped"})
        /\ wk \in [Worker -> Actor({"idle", "claim", "call", "checkpoint", "expired"})]
    BY <2>1
  <2>3. alerts \in [Token -> 0 .. 2]
    OBVIOUS
  <2>4. /\ 0 \in 0 .. MaxToken /\ row \in {NoRow, lastRow}
        /\ lastRow \in Row \cup {NoRow} /\ token \in Token \cup {NoToken}
    OBVIOUS
  <2> HIDE DEF Row, Token, Resting
  <2> QED  BY <2>2, <2>3, <2>4 DEF TypeOK
<1>2. Actors
  BY DEF Actors
<1>3. Fresh
  BY DEF Fresh, Coming
<1>4. Alerting /\ AlertedOnce
  BY DEF Alerting, AlertedOnce
<1>5. Blame
  BY DEF Blame, BlamedForOwnToken
<1> QED  BY <1>1, <1>2, <1>3, <1>4, <1>5 DEF IInv

LEMMA Invariance == Safety => []IInv
<1>1. IInv /\ [Next]_vars => IInv'
  BY TypeStep, ActorsStep, FreshStep, AlertingStep, AlertedStep, BlameStep DEF IInv
<1> QED  BY <1>1, InitIInv, PTL DEF Safety

\* The row, the actors and the histories are typed.
THEOREM TypeCorrect == Safety => []TypeOK
<1>1. IInv => TypeOK
  BY DEF IInv
<1> QED  BY <1>1, Invariance, PTL

\* However callbacks, deletions, the scheduler and its restarts interleave, the
\* expiry of one token is announced a second time only if a stamp was lost.
THEOREM OneAlertPerToken == Safety => []RepeatOnlyAfterLoss
<1>1. IInv => RepeatOnlyAfterLoss
  BY DEF IInv, TypeOK, AlertedOnce, RepeatOnlyAfterLoss
<1> QED  BY <1>1, Invariance, PTL

\* A worker whose refusal comes late, after reconnects, a deletion and a new
\* connection, never marks the profile for a token it has not held.
THEOREM NoForeignBlame == Safety => []BlamedForOwnToken
<1>1. IInv => BlamedForOwnToken
  BY DEF IInv, Blame
<1> QED  BY <1>1, Invariance, PTL
=============================================================================
