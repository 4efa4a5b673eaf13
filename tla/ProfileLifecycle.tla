-------------------------- MODULE ProfileLifecycle --------------------------
(***************************************************************************)
(* The columns of one Facebook user's fb_profiles row that say how the      *)
(* profile is doing (status, token, expiry stamp, resync date) and the four *)
(* parties that write them without a lock: OAuth callbacks, the scheduler   *)
(* with its expiry alerts and daily resync, the workers, and the operator   *)
(* who deletes the profile.  Each of them reads the row, talks to Meta or   *)
(* Telegram for a while, and then writes by row id.                         *)
(***************************************************************************)
EXTENDS Integers, FiniteSets

CONSTANTS Callback,   \* OAuth callbacks that may be in progress at once
          Worker,
          MaxToken,   \* bound: tokens Meta issues
          MaxRow      \* bound: rows the user gets, one after each deletion

ASSUME LifecycleAssumption == MaxToken \in Nat /\ MaxRow \in Nat \ {0}

VARIABLES
  row, lastRow,       \* id of the user's row (NoRow: none) and of the latest one
  status, token,      \* status, and the token in access_token_ciphertext
  owns,               \* the profile is primary for a tracked account
  stamped,            \* token_expiry_alert_sent_at is set
  resynced,           \* last_account_resync_date is today
  issued, near, dead, \* tokens issued, within 7 days of expiry, refused by Meta
  conn,               \* OAuth callbacks
  sched, sameDay,     \* the scheduler, and whether its tick is still the same day
  firstTick,          \* no tick of the process has ended without an error yet
  queued,             \* row ids with a sync task waiting
  wk,                 \* workers
  held,               \* history: tokens the current row has held,
  alerts, tried,      \* expiry alerts per token, tokens one was tried for,
  lost, stray         \* tokens whose stamp was lost, and tokens whose row got the
                      \* stamp of an earlier one

rowVars == <<row, lastRow, status, token, owns, stamped, resynced, held>>
tokenVars == <<issued, near, dead>>
schedVars == <<sched, sameDay, firstTick>>
alertVars == <<alerts, tried, lost, stray>>
vars == <<rowVars, tokenVars, conn, schedVars, queued, wk, alertVars>>

NoRow == 0
NoToken == 0
Token == 1 .. MaxToken
Row == 1 .. MaxRow
Resting == [pc |-> "idle", row |-> NoRow, token |-> NoToken]
Stopped == [Resting EXCEPT !.pc = "stopped"]

Init ==
  /\ row = NoRow /\ lastRow = NoRow
  /\ status = "active" /\ token = NoToken /\ owns = FALSE
  /\ stamped = FALSE /\ resynced = FALSE
  /\ issued = 0 /\ near = {} /\ dead = {}
  /\ conn = [c \in Callback |-> Resting]
  /\ sched = Resting /\ sameDay = TRUE /\ firstTick = TRUE
  /\ queued = {}
  /\ wk = [w \in Worker |-> Resting]
  /\ held = {}
  /\ alerts = [v \in Token |-> 0] /\ tried = {} /\ lost = {} /\ stray = {}

-----------------------------------------------------------------------------
(* OAuth callbacks. *)

\* ExchangeCode, ExchangeLongLivedToken and Me: the code is exchanged for a new
\* long-lived token of the user.
ExchangeCode(c) ==
  /\ conn[c].pc = "idle" /\ issued < MaxToken
  /\ row # NoRow \/ lastRow < MaxRow
  /\ issued' = issued + 1
  /\ conn' = [conn EXCEPT ![c] =
                [pc |-> "exchanged", row |-> NoRow, token |-> issued + 1]]
  /\ UNCHANGED <<rowVars, near, dead, schedVars, queued, wk, alertVars>>

\* Mutant of NextRow: ids that do not advance.
SameRow == lastRow

\* The id BIGSERIAL gives a new row.
NextRow == lastRow + 1

\* INSERT ... ON CONFLICT (fb_user_id) DO UPDATE: a new token, a clean record.
UpsertFBProfile(c) ==
  /\ conn[c].pc = "exchanged"
  /\ \/ row # NoRow /\ UNCHANGED <<row, lastRow, owns, resynced>>
     \/ /\ row = NoRow /\ lastRow < MaxRow
        /\ row' = NextRow /\ lastRow' = NextRow /\ resynced' = FALSE /\ UNCHANGED owns
  /\ status' = "active" /\ token' = conn[c].token /\ stamped' = FALSE
  /\ held' = (IF row = NoRow THEN {} ELSE held) \cup {conn[c].token}
  /\ conn' = [conn EXCEPT ![c] =
                [pc |-> "stored", row |-> row', token |-> conn[c].token]]
  /\ UNCHANGED <<tokenVars, schedVars, queued, wk, alertVars>>

\* UpsertAdAccountsForProfile: the profile becomes primary for the accounts that
\* have no primary yet, if there are any.
ImportAccounts(c) ==
  /\ conn[c].pc = "stored"
  /\ owns' \in {owns, owns \/ conn[c].row = row}
  /\ conn' = [conn EXCEPT ![c].pc = "imported"]
  /\ UNCHANGED <<row, lastRow, status, token, stamped, resynced, held, tokenVars,
                 schedVars, queued, wk, alertVars>>

MarkResynced(c) ==
  /\ conn[c].pc = "imported"
  /\ resynced' = (resynced \/ conn[c].row = row)
  /\ conn' = [conn EXCEPT ![c].pc = "marked"]
  /\ UNCHANGED <<row, lastRow, status, token, owns, stamped, held, tokenVars, schedVars,
                 queued, wk, alertVars>>

EnqueueFirst(c) ==
  /\ conn[c].pc = "marked"
  /\ queued' = queued \cup {conn[c].row}
  /\ conn' = [conn EXCEPT ![c] = Resting]
  /\ UNCHANGED <<rowVars, tokenVars, schedVars, wk, alertVars>>

\* Meta or the database fails a call, or the row was deleted: the callback
\* returns and leaves what it has stored.
CallbackFails(c) ==
  /\ conn[c].pc # "idle"
  /\ conn' = [conn EXCEPT ![c] = Resting]
  /\ UNCHANGED <<rowVars, tokenVars, schedVars, queued, wk, alertVars>>

DeleteFBProfile ==
  /\ row # NoRow
  /\ row' = NoRow /\ token' = NoToken /\ held' = {}
  /\ status' = "active" /\ owns' = FALSE /\ stamped' = FALSE /\ resynced' = FALSE
  /\ UNCHANGED <<lastRow, tokenVars, conn, schedVars, queued, wk, alertVars>>

-----------------------------------------------------------------------------
(* The scheduler: alertExpiringTokens, then the loop of enqueueOnce. *)

\* Mutants of NeedsExpiryAlert: the dedupe condition forgotten, the cutoff
\* compared the wrong way round.
NearExpiry == row # NoRow /\ status = "active" /\ token \in near
FarFromExpiry == row # NoRow /\ status = "active" /\ token \notin near /\ ~stamped

\* The WHERE clause of ProfilesNeedingExpiryAlert.
NeedsExpiryAlert == row # NoRow /\ status = "active" /\ token \in near /\ ~stamped

ProfilesNeedingExpiryAlert ==
  /\ sched.pc = "idle"
  /\ sched' = IF NeedsExpiryAlert THEN [pc |-> "send", row |-> row, token |-> token]
                                  ELSE [Resting EXCEPT !.pc = "list"]
  /\ sameDay' = TRUE
  /\ UNCHANGED <<rowVars, tokenVars, conn, firstTick, queued, wk, alertVars>>

\* SendAlert and CreateAlert: failures of either are only logged.
SendAlert ==
  /\ sched.pc = "send"
  /\ \/ UNCHANGED alerts
     \/ alerts' = [alerts EXCEPT ![sched.token] = IF @ = 0 THEN 1 ELSE 2]
  /\ tried' = tried \cup {sched.token}
  /\ sched' = [sched EXCEPT !.pc = "mark"]
  /\ UNCHANGED <<rowVars, tokenVars, conn, sameDay, firstTick, queued, wk, lost, stray>>

MarkExpiryAlerted ==
  /\ sched.pc = "mark"
  /\ stamped' = (stamped \/ sched.row = row)
  /\ stray' = IF sched.row = row /\ sched.token # token THEN stray \cup {token} ELSE stray
  /\ sched' = [Resting EXCEPT !.pc = "list"]
  /\ UNCHANGED <<row, lastRow, status, token, owns, resynced, held, tokenVars, conn,
                 sameDay, firstTick, queued, wk, alerts, tried, lost>>

\* The query or the stamp fails and is logged.
AlertStepFails ==
  /\ sched.pc \in {"idle", "mark"}
  /\ lost' = IF sched.pc = "mark" THEN lost \cup {sched.token} ELSE lost
  /\ sched' = [Resting EXCEPT !.pc = "list"]
  /\ sameDay' = IF sched.pc = "idle" THEN TRUE ELSE sameDay
  /\ UNCHANGED <<rowVars, tokenVars, conn, firstTick, queued, wk, alerts, tried, stray>>

\* enqueueOnce returns an error: Run logs it, but returns it from the first tick.
AbortTick ==
  /\ sched' = IF firstTick THEN Stopped ELSE Resting
  /\ UNCHANGED firstTick

\* This profile is through; what is left of the tick goes well or not.
EndTick == (sched' = Resting /\ firstTick' = FALSE) \/ AbortTick

\* SyncProfiles: the row is read here for the rest of the tick.
SyncProfiles ==
  /\ sched.pc = "list"
  /\ IF row = NoRow
       THEN EndTick
       ELSE /\ sched' = [pc |-> IF resynced THEN "enqueue" ELSE "resync",
                         row |-> row, token |-> token]
            /\ UNCHANGED firstTick
  /\ UNCHANGED <<rowVars, tokenVars, conn, sameDay, queued, wk, alertVars>>

\* The list query fails, or the enqueue of this profile or of one before it.
TickFails ==
  /\ sched.pc \in {"list", "resync", "enqueue"}
  /\ AbortTick
  /\ UNCHANGED <<rowVars, tokenVars, conn, sameDay, queued, wk, alertVars>>

\* resyncProfileAccounts with the token read at the start of the tick.
Resync ==
  /\ sched.pc = "resync" /\ sched.token \notin dead
  /\ owns' \in {owns, owns \/ sched.row = row}
  /\ sched' = [sched EXCEPT !.pc = "stamp"]
  /\ UNCHANGED <<row, lastRow, status, token, stamped, resynced, held, tokenVars, conn,
                 sameDay, firstTick, queued, wk, alertVars>>

\* MarkAccountResyncSuccess with the date of the tick.
StampResync ==
  /\ sched.pc = "stamp"
  /\ resynced' = IF sched.row = row THEN sameDay ELSE resynced
  /\ sched' = [sched EXCEPT !.pc = "enqueue"]
  /\ UNCHANGED <<row, lastRow, status, token, owns, stamped, held, tokenVars, conn,
                 sameDay, firstTick, queued, wk, alertVars>>

\* A failed resync only records its message: the status stays, and the profile
\* gets no chunk this tick.
ResyncFails ==
  /\ sched.pc \in {"resync", "stamp"}
  /\ EndTick
  /\ UNCHANGED <<rowVars, tokenVars, conn, sameDay, queued, wk, alertVars>>

EnqueueChunk ==
  /\ sched.pc = "enqueue"
  /\ queued' = queued \cup {sched.row}
  /\ EndTick
  /\ UNCHANGED <<rowVars, tokenVars, conn, sameDay, wk, alertVars>>

\* The process ends, with its scheduler wherever it is, and is started again.
SchedulerRestarts ==
  /\ lost' = IF sched.pc = "mark" THEN lost \cup {sched.token} ELSE lost
  /\ sched' = Resting /\ firstTick' = TRUE
  /\ UNCHANGED <<rowVars, tokenVars, conn, sameDay, queued, wk, alerts, tried, stray>>

-----------------------------------------------------------------------------
(* The workers. *)

\* SyncProfileByID: the task carries the id only, the token is read now.
TakeTask(w) ==
  /\ wk[w].pc = "idle"
  /\ \E r \in queued :
       /\ queued' = queued \ {r}
       /\ wk' = [wk EXCEPT ![w] =
            IF r = row THEN [pc |-> "claim", row |-> row, token |-> token] ELSE Resting]
  /\ UNCHANGED <<rowVars, tokenVars, conn, schedVars, alertVars>>

\* NextTrackedPrimaryAccountBatchForProfile: without accounts the run is over, and
\* Meta is not asked.
ClaimBatch(w) ==
  /\ wk[w].pc = "claim"
  /\ wk' = [wk EXCEPT ![w] = IF wk[w].row = row /\ owns THEN [@ EXCEPT !.pc = "call"]
                                                        ELSE Resting]
  /\ UNCHANGED <<rowVars, tokenVars, conn, schedVars, queued, alertVars>>

CallSucceeds(w) ==
  /\ wk[w].pc = "call" /\ wk[w].token \notin dead
  /\ wk' = [wk EXCEPT ![w] = Resting]
  /\ UNCHANGED <<rowVars, tokenVars, conn, schedVars, queued, alertVars>>

\* The claim or the decryption of the token fails, Meta throttles or answers with
\* an unknown error, or the run is lost: asynq retries the task or archives it.
RunFails(w) ==
  /\ wk[w].pc # "idle"
  /\ queued' \in {queued, queued \cup {wk[w].row}}
  /\ wk' = [wk EXCEPT ![w] = Resting]
  /\ UNCHANGED <<rowVars, tokenVars, conn, schedVars, alertVars>>

\* Mutant of CallRefused: the refusal taken for a transient error.
CallRefusedRetries(w) ==
  /\ wk[w].pc = "call" /\ wk[w].token \in dead
  /\ queued' = queued \cup {wk[w].row}
  /\ wk' = [wk EXCEPT ![w] = Resting]
  /\ UNCHANGED <<rowVars, tokenVars, conn, schedVars, alertVars>>

\* IsCheckpoint or IsTokenError.
CallRefused(w) ==
  /\ wk[w].pc = "call" /\ wk[w].token \in dead
  /\ \E s \in {"checkpoint", "expired"} : wk' = [wk EXCEPT ![w].pc = s]
  /\ UNCHANGED <<rowVars, tokenVars, conn, schedVars, queued, alertVars>>

\* Mutant of UpdateProfileStatus: the row looked up by Facebook user.
UpdateUserStatus(w) ==
  /\ wk[w].pc \in {"checkpoint", "expired"}
  /\ status' = IF row # NoRow THEN wk[w].pc ELSE status
  /\ wk' = [wk EXCEPT ![w] = Resting]
  /\ UNCHANGED <<row, lastRow, token, owns, stamped, resynced, held, tokenVars, conn,
                 schedVars, queued, alertVars>>

\* The status is written by row id, whatever token the row holds by now.
UpdateProfileStatus(w) ==
  /\ wk[w].pc \in {"checkpoint", "expired"}
  /\ status' = IF wk[w].row = row THEN wk[w].pc ELSE status
  /\ wk' = [wk EXCEPT ![w] = Resting]
  /\ UNCHANGED <<row, lastRow, token, owns, stamped, resynced, held, tokenVars, conn,
                 schedVars, queued, alertVars>>

\* The update fails and is logged; SkipRetry all the same.
UpdateStatusFails(w) ==
  /\ wk[w].pc \in {"checkpoint", "expired"}
  /\ wk' = [wk EXCEPT ![w] = Resting]
  /\ UNCHANGED <<rowVars, tokenVars, conn, schedVars, queued, alertVars>>

-----------------------------------------------------------------------------
(* Time and Meta. *)

TokenAges(v) ==
  /\ v <= issued
  /\ \/ near' = near \cup {v} /\ UNCHANGED dead
     \/ dead' = dead \cup {v} /\ UNCHANGED near
  /\ UNCHANGED <<rowVars, issued, conn, schedVars, queued, wk, alertVars>>

Midnight ==
  /\ resynced' = FALSE /\ sameDay' = FALSE
  /\ UNCHANGED <<row, lastRow, status, token, owns, stamped, held, tokenVars, conn, sched,
                 firstTick, queued, wk, alertVars>>

CallbackStep(c) == \/ ExchangeCode(c) \/ UpsertFBProfile(c) \/ ImportAccounts(c)
                   \/ MarkResynced(c) \/ EnqueueFirst(c) \/ CallbackFails(c)
SchedulerStep == \/ ProfilesNeedingExpiryAlert \/ SendAlert \/ MarkExpiryAlerted
                 \/ AlertStepFails \/ SyncProfiles \/ TickFails \/ Resync \/ StampResync
                 \/ ResyncFails \/ EnqueueChunk
WorkerStep(w) == \/ TakeTask(w) \/ ClaimBatch(w) \/ CallSucceeds(w) \/ RunFails(w)
                 \/ CallRefused(w) \/ UpdateProfileStatus(w) \/ UpdateStatusFails(w)

Next ==
  \/ DeleteFBProfile \/ SchedulerStep \/ SchedulerRestarts \/ Midnight
  \/ \E c \in Callback : CallbackStep(c)
  \/ \E w \in Worker : WorkerStep(w)
  \/ \E v \in Token : TokenAges(v)

Safety == Init /\ [][Next]_vars

\* Scheduler and workers keep going, and no call fails every time.
Fairness ==
  /\ WF_vars(SchedulerStep)
  /\ SF_vars(ProfilesNeedingExpiryAlert) /\ SF_vars(SyncProfiles) /\ SF_vars(SendAlert)
  /\ SF_vars(MarkExpiryAlerted) /\ SF_vars(EnqueueChunk)
  /\ \A w \in Worker :
       /\ WF_vars(WorkerStep(w))
       /\ SF_vars(ClaimBatch(w)) /\ SF_vars(CallRefused(w))
       /\ SF_vars(UpdateProfileStatus(w))

Spec == Safety /\ Fairness

-----------------------------------------------------------------------------
Actor(pcs) == [pc : pcs, row : Row \cup {NoRow}, token : Token \cup {NoToken}]

TypeOK ==
  /\ row \in {NoRow, lastRow} /\ lastRow \in Row \cup {NoRow}
  /\ status \in {"active", "checkpoint", "expired"}
  /\ token \in Token \cup {NoToken} /\ (token = NoToken <=> row = NoRow)
  /\ owns \in BOOLEAN /\ (owns => row # NoRow)
  /\ stamped \in BOOLEAN /\ resynced \in BOOLEAN /\ sameDay \in BOOLEAN
  /\ firstTick \in BOOLEAN
  /\ issued \in 0 .. MaxToken /\ near \subseteq 1 .. issued /\ dead \subseteq 1 .. issued
  /\ conn \in [Callback -> Actor({"idle", "exchanged", "stored", "imported", "marked"})]
  /\ sched \in Actor({"idle", "send", "mark", "list", "resync", "stamp", "enqueue", "stopped"})
  /\ queued \subseteq Row
  /\ wk \in [Worker -> Actor({"idle", "claim", "call", "checkpoint", "expired"})]
  /\ held \subseteq Token
  /\ alerts \in [Token -> 0 .. 2] /\ tried \subseteq Token /\ lost \subseteq Token
  /\ stray \subseteq Token

\* A token's expiry is announced twice only if the stamp of the first alert was
\* lost: reconnects, deletions and stale rows never repeat an alert.
RepeatOnlyAfterLoss == \A v \in Token : alerts[v] > 1 => v \in lost

\* A profile is marked only for a token it has held itself: a refusal that
\* arrives after the profile was deleted and connected anew does not hit the
\* new row.
BlamedForOwnToken == status # "active" => held \cap dead # {}

\* A scheduler whose first tick failed does not come back by itself: only where
\* somebody restarts it in the end can anything be expected of it.
SchedulerUp == []<>(sched.pc # "stopped")

\* Once the stored token nears its expiry the scheduler tries to tell the
\* operator, unless the token is refused or replaced first.  Outages, failing
\* ticks and restarts only delay it; the stamp of an earlier token's alert that
\* lands on the row after a reconnect does prevent it.
ExpiryAnnounced ==
  SchedulerUp =>
    \A v \in Token :
      row # NoRow /\ token = v /\ v \in near
        ~> (v \in tried \/ v \in stray \/ token # v \/ status # "active")

\* A token that dies is noticed on the same day if the profile has accounts to
\* fetch: until midnight makes the daily resync due, chunks keep reaching Meta
\* and the refusal is recorded.
DeathNoticedSameDay ==
  SchedulerUp =>
    \A v \in Token :
      token = v /\ v \in dead /\ owns
        ~> (status # "active" \/ token # v \/ ~resynced)

\* "it fires a single time until the buyer reconnects the profile"
AlertOnce == \A v \in Token : alerts[v] <= 1

\* "stamps that an expiry alert has been sent": a row stamped for a token whose
\* alert was tried has had the alert, in Telegram or in the alerts table.
StampMeansSent == stamped /\ token \in tried => alerts[token] > 0

\* "have not been alerted since their last reconnect": a stamp says that the
\* scheduler has been at it since the row got its present token.
StampedSinceReconnect == stamped => token \in tried

\* "performs the daily account-list resync at the first tick of each new UTC
\* date and then continues round-robin snapshot chunks": a tick that found the
\* profile ends with a chunk for it.
TickContinuesChunks == [][SchedulerStep /\ sched.row # NoRow /\ sched' = Resting
                            => sched.row \in queued']_vars
=============================================================================
