# Facebook Traffic Monitoring in TLA+

This directory is a TLA+ development of the Facebook Traffic Monitoring backend
(Go, PostgreSQL, Redis with asynq, the Meta Graph API and Telegram). It models the
parts whose correctness depends on the order in which things happen: which profile
fetches which ad account, which accounts a sync task takes next, what the queue and
its unique keys let through, who writes the state of a profile, who owned an account
when, how cumulative snapshots become the figures of a report, and how long a login and
the rights it gave live on.

TLC checks every model on small instances; for each of them TLAPS proves the safety
properties the runs check, and the refinements, for every value of the constants. Paths below are relative to
`src/`; `PROJECT.json` maps each definition to its lines.

## 1. The system

Two programs share one PostgreSQL database and one Redis.

- `cmd/api`: the HTTP server. It runs OAuth callbacks, assigns buyers, deletes
  profiles, issues session tokens and answers reports.
- `cmd/worker`: with `WORKER_MODE=all` the scheduler and an asynq server with
  concurrency 1; with `WORKER_MODE=server` only the latter, so that several workers
  may run beside one scheduler.

### Components

**Account pool** (`repository/postgres.go` 261-317, `repository/activity.go` 80-86,
`migrations/0001_init.sql` 47-73). State: `fb_profiles`, `ad_accounts`,
`fb_profile_ad_accounts` with `is_primary_for_sync` and the partial unique index "one
primary per account". Operations: `UpsertAdAccountsForProfile` (one transaction that
upserts each account, asks whether a primary exists, writes the link),
`DeleteFBProfile`. Called by the OAuth callback and by the daily resync of the
scheduler, in two processes at once. Hard: two imports that both see "no primary", row
locks taken in the order Meta lists the accounts, a deletion during an import. Correct
if an account has one primary at most, the answer of the EXISTS query is still true when
it is acted on, no link outlives its profile, and an account loses its primary only with
the profile.

**Round-robin cursor** (`postgres.go` 464-548, `activity.go` 111-200). State:
`sync_profile_cursors.next_offset`. Operations: claim the next batch (list the primary
accounts, lock the cursor row, advance it), and the prediction of the next update of an
account for the dashboard. Hard: the list is read before the row is locked; the list
grows at any position between two claims; a last batch that is not full. Correct if the
offset stays a position of the list, nobody is starved, and the prediction is exact.

**Scheduler** (`worker/tasks.go` 190-330). State: its ticker and, in the database,
`last_account_resync_date` and `token_expiry_alert_sent_at`. Each tick reads the
profiles, alerts about expiring tokens, resyncs the account list of a profile on the
first tick of a UTC day, and enqueues one chunk per profile, staggered over the cadence.
Hard: the tick works from what it read at its start; a failed resync drops one profile
from it, any other error all that are left and, on the first tick, ends the scheduler; the
resyncs run inside the loop and delay what comes after them.

**Queue** (`tasks.go` 58-81, asynq). State: tasks with retry counts and one unique key
per profile with a TTL. `EnqueueSyncProfile` counts `ErrDuplicateTask` as success. Hard:
the TTL, the timeout, the backoff and the cadence are about the same length; a key
outlives an archived task. Correct if each profile gets its chunk, chunks of a profile do
not pile up, and a key costs no more than it must.

**Processor** (`tasks.go` 83-186). Reads the profile, claims a batch, asks Meta, stores
the snapshots, raises alerts, sets the status. Hard: it dies, fails or is retried between
any two of these. Correct if a refusal of the token ends the task, throttling alerts
nobody, and the status is what Meta said.

**Meta client** (`meta/client.go`). No state of its own: Graph batches of 50, each
posted up to three times, with errors on three levels (transport, batch, item). Hard:
one item's error may end the call after other batches were answered. Correct if the
caller gets either one outcome per account or an error.

**Profile status and alerts** (`postgres.go` 173-259 and 701-717, `activity.go` 88-109,
`http/server.go` 242-321). State: `status`, `access_token_ciphertext`, the alert stamp,
the resync date, `alerts`. Four parties read the row, talk to Meta or Telegram, and write
by row id without a lock. Correct if the scheduler sees to the announcement of an
expiring token, a dead token is noticed while the profile has accounts to fetch, and the row is
blamed only for tokens it held.

**Buyer assignment** (`postgres.go` 319-358, `server.go` 456-489). State:
`buyer_account_history` with a partial unique index on the open row. A request reads the
clock before its transaction. Correct if past intervals are final and a moment has one
owner.

**Snapshots and analytics** (`client.go` 217-363, `postgres.go` 550-642,
`repository/analytics.go`, `http/analytics_handlers.go`). State:
`account_stat_snapshots`, cumulative values per local day. Reports turn them into
differences, filtered by the viewer's ownership intervals. Hard: periods that meet, values
that Meta takes back, answers out of order, local midnight, accounts that change hands.
Correct if adjoining periods add up, charts agree with totals, nothing is lost and nothing
invented.

**Sessions** (`http/auth_handlers.go`, `auth/jwt.go`, `postgres.go` 35-171,
`server.go` 59-97 and 186-293). State: `app_users`, `refresh_tokens`, and what clients hold:
refresh tokens, signed access tokens and OAuth states. A login stores a refresh token; a
refresh consumes it by one UPDATE, reads the user and stores the next one; a request is
admitted on the claims of its access token alone. Hard: two refreshes with one token, a
failure between the consumption and the next token, a user disabled or demoted in between,
requests admitted just before their token ends. Correct if a token is exchanged once, a
session that met no failure goes on, and withdrawn rights fade within the lives of the
tokens.

**Without state of their own**: configuration, token encryption, Telegram client,
Swagger document, listings, domain types.

### How they interact

    OAuth callback -- stores profile, imports --> account pool <-- resync -- scheduler
          |                                          |                          |
          +---- enqueues the first sync ---> queue <-+---- enqueues chunks -----+
                                               |     |
                                               v     v (list of primaries)
                                           processor --> cursor
                                               |
                                               +--> Meta client --> snapshots --> reports
                                               +--> status, alerts <-- scheduler (expiry)
                                buyer assignment --> ownership intervals --> reports
    login, refresh --> access token --> every request of an administrator or buyer

The database is the only shared state; there is no lock between parties beyond PostgreSQL's
row locks, the unique indexes and asynq's keys. The models follow these boundaries.

## 2. Modules

| Module | Models | Relation to the others |
|---|---|---|
| `RoundRobin` | the arithmetic of the cursor | operators used by the next two |
| `SyncCursor` | the cursor of one profile, a claim as one step | what the dashboard's prediction counts on |
| `CursorClaim` | the claim statement by statement, two tasks at once | extends `SyncCursor`, whose claim it implements while lists are fresh; `SyncPipeline` implements it |
| `PrimaryRegistry` | abstract: each account belongs to one profile at most | implemented by `AccountPool`, part of `SyncPipeline` |
| `AccountPool` | imports and deletions statement by statement | refines `PrimaryRegistry` |
| `SyncPipeline` | scheduler, queue, workers, OAuth, deletion, outages | composes `PrimaryRegistry` and one `CursorClaim` per profile |
| `SyncQueue` | the same queue with a clock, and the time of the next update the dashboard shows | the timing `SyncPipeline` and `SyncCursor` leave open |
| `MetaCall` | abstract: one outcome per account, or an error | implemented by `MetaClient` |
| `MetaClient` | a sync task's calls, errors, retries and status | refines `MetaCall`; the detail of `SyncPipeline`'s `MetaAnswers` |
| `ProfileLifecycle` | every writer of one user's profile row | the columns `SyncPipeline` leaves out |
| `Ownership` | assign and unassign as transactions | the `owner` of `Analytics` |
| `Analytics` | from spend over snapshots to reports | |
| `SessionChain` | abstract: the refresh tokens of a session form a chain, each redeemed once | implemented by `Sessions` |
| `Sessions` | logins, refreshes, guarded requests, the OAuth state | refines `SessionChain` |
| `CursorProofs` | theorems about `RoundRobin`, `SyncCursor` (with the waits of `MCSyncCursor`), `CursorClaim` | |
| `BuyerReportProofs` | theorems about `Analytics` and `Ownership` | |
| other `*Proofs` | the theorems about the module of that name | |
| `MC*` | instances for TLC | |

`SyncPipeline` is the composition. Its `owner` and `gone` are the abstract registry, which
is sound because `AccountPool` is shown (by TLC and by TLAPS) to implement exactly that;
its claims, split into the same statements as in `CursorClaim`, are shown to implement that module for
each profile. They do not implement `SyncCursor`: an import between the account list and the row
lock makes a claim work from an old list.

### State and actions against the code

- `AccountPool`: `link` is the committed rows of `fb_profile_ad_accounts`, `writes` the
  rows of each open transaction, `lock` the row locks on `ad_accounts`. One action per
  statement: `UpsertAccount` (waits for the lock), `ReadPrimary` (the EXISTS query, which
  sees committed rows only), `UpsertLink` (`ON CONFLICT` keeps an existing link), `Commit`.
  `StatementFails` is a foreign key that broke because the profile is gone, or a deadlock
  PostgreSQL resolved; `LoseConnection` any other end.
- `SyncCursor.ClaimBatch` is a whole `NextTrackedPrimaryAccountBatchForProfile`;
  `CursorClaim` splits it into `ReadList`, `InsertRow`, `LockRow`, `Advance`; `Rollback` is any
  end before that.
- `SyncPipeline`: `Tick`, `Resync` and `MarkResynced` (the import and, in a call of its own,
  the date), `ResyncFails`, `EnqueueChunk`, `TickEnds`, `TickFails` are `enqueueOnce`;
  `OAuthStore`, `OAuthImport`, `OAuthMark`, `OAuthEnqueue`, `OAuthFails` the callback;
  `ReadProfile`, then `ReadList`, `InsertRow`, `LockRow`, `Advance` (the claim), `MetaAnswers`,
  `SaveSnapshot`, `Finish`, `MetaRefuses`, `ClaimFails`, `TaskFails` are `HandleSyncProfile` and
  `handleSyncError`. Imports and deletions may come between any two statements of a claim; the
  deletion waits for the holder of the cursor row. `up` is whether Meta, PostgreSQL and Redis
  answer; the failure actions need `~up`, but for `ClaimFails`, the profile that was deleted
  since the list was read. `LockExpires` is the TTL, at any time.
- `SyncQueue`: units of 50 s, a twelfth of the default cadence, so that
  `uniqueWindow(10m) = 9m10s` is exact. `staggerDelay` and `uniqueWindow` are translated;
  time passes only when nothing is due. `Dequeue` includes the claim, which is where the
  cursor row gets its `updated_at`; `claimed` is the time since, and `NextUpdate` what
  `NextUpdateTimes` makes of it. A tick begins with `Tick` (or `TickFails`, the failed list
  query) and its loop ends within `MaxLoop`: each profile gets `EnqueueChunk` or, after a failed
  resync, `SkipProfile`, and `EnqueueFails` (an error of Redis, before or after the task was queued)
  ends the loop for all that are left, and `Run` when it is the first. `skipped` remembers
  whom a tick has missed. `FailEarly` is a run that fails before the claim, `Fail` one
  that fails after it. `EnqueueChunk` and `OAuthEnqueue` are the two callers of
  `EnqueueSyncProfile`.
- `MetaClient`: `Chunk` is a Graph batch; `PostAnswered`, `PostBlips`, `PostFails` are the
  outcomes of one post; `ClaimFails` is a run that ends before Meta is asked, `RunLost` the
  task's timeout or a lost worker; `HandleThrottled`, `HandleRefused`, `HandleUnknown` the branches of
  `handleSyncError`. Errors are code and subcode, the classes are translated.
- `ProfileLifecycle`: the row's columns as variables; each party is a small program counter
  with the row id and token it has read. Of the accounts it keeps whether the profile is primary
  for a tracked one (`owns`), since a run without accounts ends before Meta is asked
  (`ClaimBatch`). `RunFails` is a run that fails in any other way and is retried or archived. A
  tick ends in `EndTick` or `AbortTick`, and an aborted first tick leaves the scheduler `Stopped`
  until `SchedulerRestarts`. `dead` are the tokens Meta refuses, `near` those
  within seven days of their end.
- `Ownership`: `clock` is the servers' time, `rows` are committed, `closes` and `inserts` belong to open transactions.
  `FindOpen` finds the open row by the transaction's snapshot, `CloseOpen` waits for its lock
  and evaluates the condition again, as READ COMMITTED does.
- `Analytics`: `meter[d]` is what Meta counts on local day `d`, `snaps` the stored rows,
  `owner[i]` who owns the account at instant `i`. The report operators are the code's:
  `AnalyticsSnapshots`, `calculateDeltas`, `snapshotDelta`, `Accumulate`, `buildTimeseries`,
  and the handlers `Summary`, `Compare`, `BuyerRows`, `Detail`, `Listing`. One counter stands
  for spend, impressions, clicks and the rest, which go through the same arithmetic.
- `Sessions`: a request of the server is a record with its step, user, role, session and age.
  `Login`, `Refresh` (which includes `ConsumeRefreshToken`, one UPDATE), `ReadUser`,
  `IssueTokens`, `Answer` are the handlers' store calls; `RequestFails` is a store call that
  fails, `middleware.Timeout` or a lost answer, at any step. `refresh` are the rows of
  `refresh_tokens`, `held` and `access` what reached clients. `BeginCreate` to
  `CreateAppUser` or `CreateBuyerWithUser`, and `OAuthStart` to `OAuthCallback` to
  `UpsertFBProfile`, are the paths of an administrator. All times are kept as time left.
  `ChangeUser` stands for the hand that disables users in the database: no handler does.

## 3. What is checked

Each row is one `.cfg`. Sizes are distinct states.

| Run | What it shows |
|---|---|
| `cursor` | Lists of up to five accounts in batches of two that grow before, at and after the cursor. `CursorInList`: the offset is a position of the list, so "a cursor past the end starts over" never discards progress. `WaitBounded`: an account is claimed again within two passes whatever is imported. `PredictionExact`: the number of tasks the dashboard predicts counts down by one with each task and reaches 0 for exactly the accounts the next task takes. |
| `claim` (44k) | Lists of up to five accounts in batches of two; two claims, an import and a deletion, statement by statement. The list is read before `FOR UPDATE`; still the committed offset is in the current list (`CommittedInList`: lists only grow), a deleted profile gets no row back (`NoCursorAfterDelete`: the foreign key and the cascade), and two tasks with the same list never take the same chunk (`ChunksDiffer`). |
| `pool` (84k) | Two imports, two profiles, two accounts. `PrimaryUnique`, and why: `DecisionStillValid`, the row lock taken by the upsert keeps the EXISTS answer true until the commit. `LinksOfLiveProfiles`, `OrphanedOnlyByDelete`, `NeverStolen`, the refinement of `PrimaryRegistry`, and `ImportsEnd`: no set of imports waits for ever, because PostgreSQL breaks deadlocks. |
| `pool_doc` | Expected violation, see section 6. |
| `pipeline` (182k) | Two deployments in one run. `WORKER_MODE=all`: scheduler, queue, one worker, OAuth, deletion, outages and midnight. `WORKER_MODE=server`: two workers, two profiles that share an account. `RefinesClaim`: through outages, retries, lost workers, imports and deletions the claims of each profile are those of `CursorClaim`, stale lists included; so what is proved of `CursorClaim` holds of each profile in the pipeline. `InFlightOnce`: two tasks fetch the same account at once only if they are of one profile or one of their profiles is deleted. `SyncedWhenUp`: once everything stays up and the scheduler is past its first tick, every owned account is stored again after each tick. `TasksEnd`: every task leaves the queue even if everything keeps failing. |
| `lifecycle` (1.9M) | Two tokens, a row that is deleted and created anew, one callback, scheduler, one worker, within one day. `RepeatOnlyAfterLoss`: an expiry alert repeats only if its stamp was lost. `BlamedForOwnToken`: a late refusal of an old row's token never marks the new row. |
| `lifecycle_live` (26k) | With fairness, in two parts, under the premise `SchedulerUp`: the scheduler is not left stopped after a failed first tick. `ExpiryAnnounced` (part "alert", two tokens): the scheduler sees to the alert of a token near its end, unless the token is replaced or refused first, or the stamp of an earlier token lands on its row (`stray`, section 6). Whether Telegram then delivers it is not promised. `DeathNoticedSameDay` (part "death"): a token that dies after the day's resync is noticed before the next midnight if its profile is primary for an account, through failing claims and runs, failing ticks and restarts. |
| `queue` (5.3M) | The default timing with two profiles and loops of up to 50 s, in three parts: ticks that miss a profile, with runs of up to 150 s, and with a first sync at any time; the same ticks with runs of up to 100 s that fail before or after their claim; loops that take time with failing runs and a first sync. `ChunkEveryWindow`: until a run fails, no window passes without a chunk of every profile the tick itself has not missed, reconnect or not. `NextUpdateKept`: without failed runs and reconnects, a profile no tick has missed is claimed at the time the dashboard shows, early by the time of one loop and late by two at most, although that time is derived from the last claim and not from the schedule. `BlockedByFailure`: a key is found held only after a failed run or a first sync. `BlockedOnce`: it costs one tick at most, however long the task is retried. |
| `ownership` (2.3M) | Two assign or unassign requests at once over one account. `PastIsFinal`: an interval that has ended never changes. `ReassignKeepsOneOwner`: only an unassignment can make a moment have two owners. |
| `reports` (242k) | Two overlapping syncs, spend that grows and is taken back, a local midnight, reassignments. `RangesAddUp`: two adjoining periods add up to the whole, for every viewer. `SeriesMatchesSummary`: each bar of a chart is the summary of its hour, the bars add up to the figures, the figures rest on as many snapshots as the listing shows. `SoleOwnerSeesAll`: who owned the account since local midnight sees all of it. `NothingLost` and `NothingInvented`: a local day's report is at least what its snapshots saw and, while answers are orderly, at most what Meta counted. |
| `meta` (150k) | Three accounts in Graph batches of two, five kinds of error, on the batch or on an item. `RefinesCall`: one outcome per account, or an error. `RefusedTaskStops`: after a refused token, in a batch or in any item of one, the task posts nothing, on this run or a retry, unless an item was throttled too (the throttling hides the refusal, section 6) or a run was lost. `QuietWhenThrottled`: throttling raises no alert. `StatusFromRefusal`: status changes only as the refusal says. |
| `sessions` (330k) | Two users, three refresh tokens, two requests at once, failures at every step. `RefinesChain`: a session has one redeemable token at most and redeems it once, whatever requests race. `SessionGoesOn`: a session that met no failure and no inactive user can always be continued by its client. `RightsFade`: an access token outlives a withdrawn right by the timeout of a refresh, its own life and the leeway at most. `FormerAdminStops`: what a former administrator has begun (users to create, profiles to connect) ends within a stated time, which for OAuth is longer by the life of the state. |

Every passing run has, for each of its properties, a mutated operator (the definitions
whose comment says "Mutant of"): a dropped guard, an off-by-one, a missing wrap, a missing
WHERE. With the operator in place of the original the property fails, so each property
depends on the code it is about.

### Bounds and why they are enough

- Accounts: the cursor arithmetic depends on the list length relative to the batch. Lists
  of 0 to 5 with batches of 2 have empty, partial, exact and wrapping batches; the theorems
  cover all lengths. The pool needs two accounts for lock cycles and two profiles for
  contention; the theorems cover any number.
- `MaxRetry` 1 for asynq's 5, and 3 posts per batch as in the code: first attempt, retry and
  archive all happen. `MaxStack` bounds the tasks of a profile in the queue: 1 in `pipeline`
  (a key does not expire while the slot is used, so overlapping tasks of one
  profile are left to `claim` and `queue`), 3 in `queue`. `RefinesClaim` is proved for every
  `MaxStack`.
- `queue`: `Cadence` 12 is the default ten minutes; `MaxLoop` 1 the twelfth of it up to which
  `BlockedOnce` holds; `Backoffs` 9 units is a late retry, the kind that matters to a key.
  `MaxDuration` 3 is a run that fits, with the loop, the share of two profiles.
  Longer ones make chunks wait, which the code does not promise to prevent.
  For the same reason runs of the parts with a reconnect take at most 100 s, so that the share
  holds two of them: with 150 s, or two reconnects in one window, the other profile's chunk is
  late. `MaxReconnect` 1. The parts keep failing runs apart from ticks that miss a profile in a slow
  loop: the four properties speak of time until the first failed run, and the theorem about
  `BlockedOnce`, the one that goes on after it, has no parts.
- `MaxToken` 2, `MaxRow` 2: one reconnect and one deletion with reconnect, the shortest
  histories in which a stale write can hit. `lifecycle_live` has one row, since each of its
  properties ends with the row, and needs two tokens for the alert and one for the death; the
  part "alert" has no refusals and no accounts, which play no part in an alert.
- `meta`: one item per account of the post. An answer with fewer or more items is left out.
- `ownership`: four instants and four rows allow a closed, an open and two racing intervals.
- `reports`: days of three instants, with one local midnight and two buckets of two in the four
  modelled instants, so that periods, buckets and calls lie on either side of midnight.
  `MaxSpend` 2 allows rise, fall and rise.
- `sessions`: the durations keep the order of the real ones (leeway, timeout and state below
  access, access below refresh token). Three tokens are a login and two refreshes, or two
  sessions; two requests are a race. The run has two parts, chosen in the first state: "chain"
  has requests side by side and no clock, "rights" one request at a time and a clock that runs
  for `Horizon` 9, the longest time a promise speaks of. The theorems have neither split nor
  bound.

Symmetry is used for task, worker, request and buyer names in runs without liveness
properties only. Deadlock checking is on except in `cursor` and `claim`, where a deleted
profile really has nothing left to do.

### Fairness and why the code justifies it

- `AccountPool`: weak fairness of an import's own statements (the connection serves them),
  strong fairness of `UpsertAccount` (PostgreSQL queues waiters for a row lock), weak
  fairness of `StatementFails` (the deadlock detector, the foreign key check).
- `SyncCursor`: weak fairness of a claim, the scheduler's ticker.
- `SyncPipeline`: weak fairness of the tick (a ticker), of the loop's steps (the Meta client,
  pgx and asynq's client all have timeouts), of a worker's step (the task timeout), of
  `LockExpires` (the key has a TTL), strong fairness of `Dequeue` per slot (asynq serves a
  list in order). No fairness for failures or recovery: `SyncedWhenUp` assumes that
  everything eventually stays up, in its premise.
- `ProfileLifecycle`: the scheduler and workers keep stepping; strong fairness of the steps
  that may fail each time says that Meta, Telegram and the database do not fail every time.
  Nothing is assumed of callbacks, deletions or `SchedulerRestarts`: `Run` returns when its first tick
  fails (`tasks.go` 206-208), `main.go` 56 only logs it, and nothing in the code starts it again.
  That it is not left so is therefore the premise `SchedulerUp` of both liveness properties.
- `MCSyncPipeline!Deployed` is the same fairness with the ticker in `WORKER_MODE=all` only.
- `Ownership`, `Analytics`, `SyncQueue`, `Sessions`: none; their properties are about safety. In
  `SyncQueue` time cannot pass a task that is due.
- `MetaClient`: weak fairness of the task's own steps, needed by `TaskEnds` only.

## 4. What is proved

All proofs hold for every value of the constants under the named assumptions.

**The cursor** (`CursorProofs`; `AccountAssumption`: account ids are a finite set of integers,
`BatchSizeAssumption`: the batch size is an integer, of any sign). The arithmetic comes first
(`NextOffsetInList`, `BatchInList`, `PredictedNowIsTaken`, `PredictedComesCloser`): case analysis
on whether the batch reaches the end, with lemmas on integer division. Then `CursorTypeCorrect`,
`CursorStaysInList` and `PredictionIsExact`. `CursorInList` alone is not inductive: after a
deletion the list is empty and an import could meet an old offset, so the invariant adds that
an empty list has no cursor row. The finite-set part is that `Index` is a position below the
cardinality. `NobodyStarves` is `WaitBounded`: by the invariant `Waits` an account
behind the cursor has waited for no more claims than this pass has made (`Start \div K`), one
ahead of it for at most a pass over the whole pool more. An import that pushes an account ahead
of the cursor again only raises its bound, and a claim that ends the pass takes all it had left.

*Its statements* (`ClaimAssumption`), for any number of tasks at once. `ClaimTypeCorrect`,
`StaleListsAreSafe`, `DeletedForGood`, `ClaimsTakeTurns`. The invariant adds `Held` (who is past
`FOR UPDATE` holds the row and has read what is still there), `Lists` (lists were read from a
list that only grows, and are part of the present one) and `InTurn` (the cursor is where the last
batch left it, at 0 or at least a batch behind it). That last part is what makes two batches from
one list disjoint. `StatementsKeepPromise`: as long as every list is up to date when its claim
commits, the statements are the one-step claim of `SyncCursor` and stuttering otherwise; with a
list that went out of date they are not, which is why the theorems above are about both.

**The account pool** (`AccountPoolProofs`; `PoolAssumption`: the null values are no
members). `TypeCorrect`, `AtMostOnePrimary`, `DecisionsStayValid`, `LinksNeedProfiles`,
`OnlyDeleteOrphans`, `PrimariesAreKept`, `PoolRefinesRegistry`. The inductive invariant `Inv` adds two things to
what is checked. `LockDiscipline`: what a transaction has read or written is guarded by rows
it holds; without it another import could commit a primary between the EXISTS and the link.
`SecondaryExplained`: an uncommitted secondary link had a primary, or the account was
orphaned. Each action preserves each part; the refinement maps `Commit` to `Claim` of the
accounts that got a primary, `DeleteFBProfile` to `Release`, all else to stuttering.

**The pipeline** (`SyncPipelineProofs`; `PipelineAssumption`). `TypeCorrect` and
`PipelineRefinesClaim`, for any number of profiles, accounts, workers and queue slots. The
invariant adds that a deleted profile owns nothing, has no cursor and will not be connected
again, and that a run has a list, an offset and a row lock just while it claims; the step simulation
shows that each step is, for each profile, a statement of a claim, a rollback, an import, a deletion
or stuttering. With `StaleListsAreSafe`, `DeletedForGood` and `ClaimsTakeTurns`, which are about
`CursorClaim`, this says what the cursor of each profile is worth in the whole system.
`NeverFetchedTwice` is `InFlightOnce`: the invariant `FetchedByOwner` says that what a run
has listed or claimed is still owned by its profile or the profile is gone, and an account has one owner.

**The Meta client** (`MetaClientProofs`; `ClientAssumption`). `TypeCorrect`,
`RefusalStopsTask`, `ThrottledIsQuiet`, `StatusFollowsRefusal`, `ClientRefinesCall`. `Inv` adds `Settled` (the
two maps hold exactly the accounts of the batches answered so far and are disjoint) and
`Refusals` (once an error is about the token, and neither a throttled item nor a lost run voids the
promise, the task is handling that error or over): the first fatal item of a batch is the error, so a
refusal stays out of sight only behind a throttled one. `Quiet` carries
over retries that nothing has been announced while every error met was throttling.

**Profile rows** (`ProfileLifecycleProofs`; `LifecycleAssumption`), for any number of callbacks
and workers at once, tokens and rows. `TypeCorrect`, `OneAlertPerToken`, `NoForeignBlame`. What a
party has read may be stale when it writes, so the invariant says what it still knows. `Fresh`:
Meta issues a token once, so it is stored once at most. `Alerting`: as long as the token the
scheduler alerts for is stored, it is in the row the scheduler read. `AlertedOnce`: a token that
was announced and whose stamp was not lost is stamped, about to be, or out of use for good; a
reconnect that clears the stamp also brings another token. `Blame`: what a worker holds against
the present row is about a token this row has held.

**The queue's clock** (`SyncQueueProofs`; `QueueAssumption`), for any number of profiles, cadence,
backoff and number of retries, loops that take time and ticks that miss profiles. Each theorem names
what it asks of the time that the code leaves to its operator.

- `OneTickLost` (`BlockedOnce`) asks for `LoopFits`: a loop takes a twelfth of the cadence at most.
  `Released` bounds each key by the time to the next tick and, if it has not blocked a tick yet,
  one cadence, because a delay and `uniqueWindow` are less than two cadences by a twelfth; a
  profile's call may come that much later in one loop than in the other.
- With `FitsShare` (the longest loop and the longest run together are shorter than a profile's share
  of the cadence): `NobodySkipped`, `HeldOnlyAfterFailure` and `DashboardKept`. Each profile was
  called at a moment of the loop that the state has forgotten; the invariant says that there is
  one moment per profile, in the order of the loop, such that each chunk is where its moment and its
  stagger place it (`Placed`, `Timely`). A profile the tick has missed keeps no moment, which is
  why the theorems say nothing of it until the next tick.
- With `FitsTwice` (a loop and two runs together are shorter than a share) `FirstSyncSkipsNobody`:
  `ChunkEveryWindow` even if a reconnect asks for a first sync at any moment. Chunks may then
  be late, so the invariant `Phases` follows the first sync: before it is asked for everyone is on
  time; while it waits, it waits for one run; while it runs, others are late by no more than
  it has run; and afterwards one chunk starts late by at most one run, and is done before the next
  is due. The key keeps a second task of a profile out of the queue, also when
  the first sync is under way across a tick. With runs of half a share `FitsTwice` fails, and TLC
  finds a late chunk (section 3, bounds).

**Reports** (`BuyerReportProofs`; `AnalyticsAssumption`: lengths are natural numbers and `Everyone`
is no buyer), for any workers, buyers, timezone, bucket length and amounts. `AnalyticsTypeCorrect`,
`PeriodsAddUp`, `SoleOwnersSeeAll`, `NothingGetsLost`, `NothingGetsInvented`, `ChartIsSummary`. The
invariant is small (`RowsKept`: finitely many rows, one per instant, each under the local day of
its instant); the weight is in the operators. `Deltas` says what `calculateDeltas` computes: the
difference of a row is to the viewer's last row before it and depends on neither end of the
period, since `Previous` supplies that row and no other. A sum over a set of rows is then the number
of its *units*, one pair for each of the values up to the row's (`UnitsAdd`; the sum's recursion has one
solution, shown by well-founded induction on subsets). Periods that meet have disjoint units;
`NothingGetsLost` and `NothingGetsInvented` are injections: each unit of a stored figure goes to the first row
of the day that shows it, and each unit of a difference to a unit Meta counted.

**Buyer assignment** (`BuyerReportProofs`; `OwnershipAssumption`), for any number of buyers, requests
and rows. `HistoryTypeCorrect`, `ThePastIsFinal`, `ReassigningKeepsOneOwner`. `RequestsOK` says what the
row lock and the unique index give a transaction: the row it closes is open and closed by no other,
and beside a row it inserts nobody else has written. `Apart` is the property in a form that is
inductive: intervals that share a moment were let in by a later unassignment. `AllFollowed`
explains why an assignment that finds no open row comes after every earlier assignment's interval
unless an unassignment is later.

**Sessions** (`SessionsProofs`; `SessionAssumption`: the lives are natural numbers and `Horizon`
is no shorter than the longest promise). `TypeCorrect`, `RightsFadeAlways`,
`FormerAdminStopsAlways`, `SessionsAreChains`, `SessionsGoOn`. `Fading` bounds, for each
request, client and OAuth state, its age plus the time left by the time since the right was
withdrawn; each step hands on at most the life it was given. `OneChain` says that a session has
one redeemable token or one request that renews it, never two; `Going` that its token is held or
is being answered, unless it met a failure.

**Model-checked only**: liveness under fairness (`ImportsEnd`, `SyncedWhenUp`, `TasksEnd`,
`ExpiryAnnounced`, `DeathNoticedSameDay`), which is beyond the provers used; `ChunkEveryWindow` with
two reconnects or more, and with runs that fit a share once but not twice when there is a
reconnect, is not claimed at all. The type invariants are proved and not run. No proof
uses induction theorems that take a predicate; where induction over data was needed, a
least counterexample (`WFMin`) does the same.

## 5. What is not modelled

- Password hashing, rules for e-mail addresses, signatures and the listing of buyers in the
  session handlers; the models take a password or a signature to be right.
- Token encryption, Swagger document, configuration, Telegram client: pure or one call
  with an outcome; the outcome is a nondeterministic choice where it matters.
- The clock of `NextUpdateTimes` for an account several chunks away, and freshness: `SyncCursor`
  counts the tasks, `SyncQueue` has the clock of the next chunk.
- Cadences of a minute and less (`uniqueWindow`'s first branch).
- A timezone that changes on import (`Analytics` has one), KPI ratios, pacing, sorting,
  CSV, status listings: formulas over one row.
- Paging of `AdAccounts`: an import begins once all pages are read.
- Two schedulers: the compose file runs one worker; two with `WORKER_MODE=all` would both
  resync and alert.

## 6. Where code and documentation disagree

**Checked as the run `pool_doc`** (`ImportLeavesPrimary`). After a deletion an account may
be linked and primary for nobody: an import that read the old primary before the deletion
committed stays secondary, and `ON CONFLICT` never raises an existing link later. Imports by
the profiles that are linked do not repair it; only a profile that links the account for the first time
becomes primary for it. The
comment at `internal/repository/postgres.go` 263-264 says "each account is fetched by
exactly one profile", `README.md` 142-143 "exactly one profile is its primary for sync".
`OrphanedOnlyByDelete` is what does hold.

**Further disagreements.** Each is stated in its module and fails in the named
configuration; the traces are short. They are kept as configurations and are not part of
the listed runs. To see one: `tlc -config MCOwnershipStale.cfg MCOwnership.tla`.

| Configuration | Property | What the trace shows | What the repository says |
|---|---|---|---|
| `MCSyncPipelineRetry` | `RetryRepeatsChunk` | The cursor is committed before Meta is asked; the retry of a failed sync takes the next chunk, the failed one waits for the next pass. | `postgres.go` 550-552: "a retry simply rewrites the same facts" |
| `MCSyncPipelineReconnect` | `FirstSyncRightAway` | The key left by an archived task makes the enqueue of the OAuth callback a duplicate, which counts as success; nothing is queued. | `server.go` 309: "First sync runs right away" |
| `MCSyncQueueStack` | `NoStack` | A run of up to the 10m timeout outlives the 9m10s key and the next tick queues a second chunk. | `tasks.go` 59-60: "a slow tick cannot stack duplicate chunks" |
| `MCSyncQueueBlocked` | `TickNotBlocked` | asynq counts the key of a delayed task from when it is due, so the key of a staggered task reaches past the next tick; if its run failed that tick is blocked. | `tasks.go` 74-75: "the next intended tick is never blocked by its own lock" |
| `MCProfileLifecycleAlert` | `AlertOnce` | The alert is sent before the stamp; if the stamp is lost the next tick repeats it. | `tasks.go` 289-290: "it fires a single time" |
| `MCProfileLifecycleStamp` | `StampMeansSent` | Telegram and the alert row both fail, both only logged; the profile is stamped all the same. | `postgres.go` 252: "stamps that an expiry alert has been sent" |
| `MCProfileLifecycleRace` | `StampedSinceReconnect` | A reconnect between query and stamp has its reset overwritten; the new token is never announced. | `postgres.go` 224-225: "have not been alerted since their last reconnect" |
| `MCProfileLifecycleTick` | `TickContinuesChunks` | A failed daily resync skips the profile's chunk on every tick until a resync succeeds; so do, for one tick, a failed list query and a failed enqueue of a profile before it. | `README.md` 125-127: "and then continues round-robin snapshot chunks" |
| `MCOwnershipStale` | `OneOwner` | An assignment takes its time before its transaction; an unassignment with a later time commits first; the new interval overlaps the closed one. | `migrations/0001_init.sql` 75-76: "Who owned the ad account and when" |
| `MCAnalyticsDay` | `SnapshotOfItsDay` | capturedAt is noted before the call; an answer after local midnight stores the new day under the old date. | `client.go` 308-309: "the calendar date of "today" in the ad account's own timezone" |
| `MCAnalyticsBuyer` | `BuyerWithinAccount` | The previous row is filtered by buyer too, so the first snapshot after a reassignment credits the new buyer with the whole day. | `analytics.go` 11-14: "includes the latest snapshot before From for every account in the range" |
| `MCMetaClientRefused` | `DeadTokenNotRetried` | The first fatal item of a batch is the error of the call. If that one was throttled and another was a refused token, the run is retried and Meta is asked again with the dead token; so it is when the run that was refused is lost before the task is archived. | `tasks.go` 181-183: "retrying won't help until an operator reconnects the profile, so stop asynq from hammering Meta" |
| `MCMetaClientTransient` | `TransientNeverAlerts` | A code 1 or 2 in one item of a batch is a failure of its account and raises `ACCOUNT_SYNC_FAILED`. | `client.go` 83-85: "should be retried without alerting" |

One more, seen while reading: `README.md` 124 says "Every active FB profile"; `SyncProfiles`
(`postgres.go` 402-422) has no condition on the status, and the models read it so.

**Stated, true and checked elsewhere or implied.** `EveryAccountServed` (`SyncCursor`),
`ActiveIsRunning` (`SyncPipeline`) and `TaskEnds` (`MetaClient`)
hold on the same instances; `WaitBounded` and `TasksEnd` say more.

## 7. Plan

Done, in this order: cursor (`RoundRobin`, `SyncCursor`, `CursorClaim`), pool
(`PrimaryRegistry`, `AccountPool`), their composition (`SyncPipeline`), profile rows
(`ProfileLifecycle`), timing (`SyncQueue`), `Ownership`, `Analytics`, `MetaClient`, `Sessions`
over `SessionChain`; the proofs of section 4, last those of `ProfileLifecycle`, `SyncQueue` and
`Analytics`.

Models to come:

1. `Analytics` with an account whose timezone an import changes, and account status with its
   alerts in `ProfileLifecycle`.
2. `SyncPipeline` with two queue slots and the refusal of `MetaCall` in place of `up`.
3. The configurations of section 6 as runs.

Proofs to come:

1. `SyncQueue`: `ChunkEveryWindow` for `n` reconnects in a window, with `n + 1` runs in a share.
2. `StatementsKeepPromise` without its premise, against a claim that may use an older list.
3. The theorems of the models to come.

## 8. Running it

    tlc -workers 2 -config MCAccountPool.cfg MCAccountPool.tla
    tlapm AccountPoolProofs.tla

`PROJECT.json` lists runs, mutants, the mapping of definitions to source lines, findings,
hazards and theorems.
