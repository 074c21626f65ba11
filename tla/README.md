# Omnigate: TLA+ specifications and proofs

Omnigate is a gateway in front of many AI providers. Clients call one API with a
token; the gateway picks an upstream channel, relays the request and charges the
user. This directory specifies the parts of the program where mistakes cost
money or let a user in or out, and are hard to test: the life of a charge, from
the estimate taken before a request is relayed to the last refund of an
asynchronous task; the subscription rows and their quota periods; the runner
that starts the pollers on one node at a time; login sessions, in the tabs of a
browser, on the server and in its Redis caches; and the chat of the playground,
which is the front end's one long-running conversation with the server. Paths
below are relative to the root of the repository (`src/` in PROJECT.json).

## 1. Inventory

| Component | State | Operations | Interacts with |
| --- | --- | --- | --- |
| Billing session (`service/billing_session.go`, `funding_source.go`, `billing.go`) | one `BillingSession` per request: source, pre-consumed amounts, extra reservation, settled/refunded flags | `NewBillingSession`, `Reserve`, `Settle`, `Refund` (goroutine) | wallet, token and subscription rows; request handler |
| Wallet and token (`model/user.go`, `model/token.go`, `service/quota.go`) | `users.quota`, `tokens.remain_quota` | reads, increments, `PreConsumeTokenQuota` | shared by all requests of a user; Redis caches, batch updater |
| Subscription (`model/subscription.go`) | `user_subscriptions.amount_used`, status, overflow flag; pre-consume records | pre-consume, delta, refund by request id, expiry, period reset | billing session, tasks, reset task |
| Request handler (`controller/relay.go`) | the running request | pre-consume, relay with retries, deferred refund, violation fee | billing session, channels |
| Asynchronous tasks (`service/task_polling.go`, `task_billing.go`, `model/task.go`) | `tasks` row: status, quota marker, `updated_at` | poll, time out, refund, settle, reconcile | funding source, token, provider, user polls |
| User polls (`relay/relay_task.go`) | a copy of the row | `tryRealtimeFetch` for Gemini and Vertex | the task row |
| System task runner (`service/system_task.go`, `model/system_task.go`) | task rows and one lock row per type with a lease | schedule, claim, heartbeat, finish, expire | starts the task poller on one node at a time |
| Login session (`web/src/lib/auth-session*.ts`, `http-client.ts`, `service/auth_session.go`, `controller/auth_session.go`) | refresh cookie of the browser; per tab the auth store, `authEpoch`, `refreshPromise`; rows of `user_sessions` | bootstrap, refresh under a browser lock, sign-in, sign-out, security change, events between tabs | session rows, cache, every API call |
| Session cache (`model/user_session.go`) | the row and a Redis hash with version and TTL, in one Redis or one per node | validate, fill, rotate, advance, revoke (fence, row, tombstone) | login session |
| Playground (`web/src/features/playground/`) | rendered messages, React's queue of updates, stream buffer, generation numbers, localStorage | send, regenerate, edit, stop, load, save, reload | relay over SSE or a plain request |
| Batch updater (`model/utils.go`) | maps of pending increments in memory | accumulate, flush | wallet, token, channel rows |
| Caches (`model/*_cache.go`) | Redis hashes, memory maps | read-through, invalidate | all readers of quota |
| Channel selection, rate limits, adaptors, sign-in methods, payments, Midjourney, logs, the rest of the front end | - | - | listed in PROJECT.json with the reason they are not modelled |

What is hard in this code:

* concurrency: several requests of one user read the same rows, compare, and
  write later without a condition; several nodes poll the same task; user polls
  race the poller; refunds run in goroutines;
* failure: any write may fail after another one has been made; the process may
  restart at any point; a handler may panic;
* order: a task row carries a quota marker that is cleared before or after
  the refund depending on who refunds; a whole-row write can bring back an
  old marker;
* limits: subscription totals, the clamp of a usage at zero, trust thresholds;
* clocks: a quota period ends while a charge of it is open, leases and cache
  entries end while their owner is slow;
* late answers: a refresh, a stream event, a cache write or a queued state
  update that belongs to something that is over.

What makes it correct: a request that is over has paid exactly what it consumed,
from one source, and does not get back more than it paid; preferences are kept; a
subscription keeps its limit; a task is charged once and adjusted at most once
more; a failed task is refunded in the end; nobody decides a finished task anew
with a stale copy; a background task is executed by one runner and never blocks
its type; a quota period is granted once; what was signed out or revoked stays
out, and an honest user is not thrown out; an answer keeps its own text and
nothing stays pending. Where the code does not achieve one of these, the property
says exactly how far it gets, and the case is named below.

## 2. Modules

| Module | Role |
| --- | --- |
| `BillingSession` | requests of one user over a shared wallet, token and subscription |
| `MCBillingSession` | its small instances |
| `BillingSessionProofs` | TLAPS proofs about `BillingSession` |
| `TaskLedger` | abstract: a task is charged once and its charge is changed at most once more |
| `TaskBilling` | one task, its row, and the workers (polling passes, sweeps, user polls) on copies of the row |
| `MCTaskBilling` | its small instances |
| `TaskBillingProofs` | TLAPS proofs about `TaskBilling`, with the refinement of `TaskLedger` and with `DataInduction` |
| `SystemTask` | runners on several nodes that claim, renew, sweep and finish the background tasks of one type |
| `MCSystemTask` | its small instances |
| `SystemTaskProofs` | TLAPS proofs about `SystemTask` |
| `SubscriptionLedger` | the subscription rows of a user, the pre-consume records, refunds with retries, maintenance, administrators |
| `MCSubscriptionLedger` | its small instances |
| `SubscriptionLedgerProofs` | TLAPS proofs about `SubscriptionLedger`, with `DataInduction` |
| `LoginSession` | the tabs of one browser, the cookie they share, and the session rows |
| `MCLoginSession` | its small instances |
| `LoginSessionProofs` | TLAPS proofs about `LoginSession` |
| `SessionCache` | one session row and its snapshots in one or several Redis instances |
| `MCSessionCache` | its small instances |
| `SessionCacheProofs` | TLAPS proofs about `SessionCache` |
| `Playground` | the chat of the playground, from the submitted text to the stored message |
| `MCPlayground` | its small instances |
| `PlaygroundProofs` | TLAPS proofs about `Playground`, with `DataInduction` |
| `DataInduction` | TLAPS: induction over numbers and finite sets, and what follows for sums |

### BillingSession

`wallet`, `token`, `subUsed`, `subActive` and `allowOverflow` are the database
columns. `sess[r]` is the `BillingSession` struct of request `r` with the
position `pc` of its handler and the position `bg` of the goroutine that
`Refund` starts. `paid[r]` and `lost[r]` are history: the net amount the request
took from each row, and what failed writes should have moved. So are `returned`,
how often the pre-charge was given back to the subscription, and `unmarked`, how
often that committed and the attempt returned an error all the same.

Each access to a shared row is one action, so a value may be stale when it is
used:

| Code | Actions |
| --- | --- |
| `NewBillingSession`, `tryWallet`, `trySubscription` | `Start`, `HasActive`, `TryWallet`, `CheckOverflow` |
| `preConsume` | `PreConsumeToken` (read), `DecreaseToken` (write), `PreConsumeFunding`, `RollbackToken` |
| `Reserve` | `ReserveFunding`, `ReserveToken` (read), `ReserveDecrease` (write), `RollbackReserve` |
| `Settle` | `SettleFunding`, `SettleToken` |
| `Refund` | `Refund`, then in the goroutine `RefundWallet` or `RefundSubscription` (once per attempt of `refundWithRetry`), `RefundExtra`, `RefundToken` |
| the upstream call ends | `UpstreamEnds`: `SettleFunding` or `Refund` |
| environment | `ReadFailed`, `ExpireSubscription`, `Panic`, `Crash` |

Abstractions: prices are amounts from small sets; the session mutex is not
modelled because one handler owns its session; a subscription transaction is
one action, with the pre-consume record folded into `consumed`; Redis and batch
updates are switched off. An attempt of a subscription refund is one action with
three outcomes: done, nothing done, or the amount given back and an error
returned, after which the retry gives it back again. `SubscriptionLedger` has the
two transactions of an attempt as separate actions.

### TaskBilling

`row` is the `tasks` row: status, the `quota` column, and `fresh` for "updated
less than the grace period ago". Each worker holds in `work[w]` the copy it read
and the step of the handler it is in. `paid` is the net charge on the funding
source, `tokenPaid` on the token, `closings` counts adjustments after the
submission. `charged` is the charge the row was inserted with and `unsettled` the
part of it that was never taken: `RelayTask` only logs a `SettleBilling` that
fails or is refused, so `Submit` ends with the actual charge, with the pre-charge
alone, or with a token that was not adjusted. `lapses` remembers that a change of
the charge was not marked in the row (`mark`) or a claimed marker lost before its
refund (`restore`), because a write failed or the worker died. One task is
enough: tasks share only balances, which take increments.

| Code | Actions |
| --- | --- |
| `RelayTask` after a success | `Submit` |
| `sweepTimedOutTasks` | `ReadTimedOut`, `TimeOut` |
| `sweepUnrefundedFailedTasks` | `ReadFailed`, `ClaimQuotaForRefund`, `RestoreQuotaAfterFailedRefund` |
| `updateSunoTasks`, `updateVideoSingleTask` | `ReadPoll`, `PollNothing`, `PollPending`, `PollFailure`, `PollSuccess`, `PollSuccessSettle` |
| bulk failure of tasks without channel or upstream id | `BulkFail` |
| `RefundTaskQuota` | `RefundFunding`, `RefundToken`, `ClearQuota` |
| `RecalculateTaskQuota` | `SettleFunding`, `SettleToken`, `SettleQuota` |
| `tryRealtimeFetch` | `ReadFetch`, `FetchNothing`, `Fetch` |
| environment | `Upstream`, `Age`, `Crash` |

`UpdateWithStatus` is the whole-row write under a status condition; it writes
the quota of the copy, not of the row. The statuses between submission and the
end are reduced to two. `usage` says whether the adaptor reports what the task
used; `ReadFetch` is for tasks without it, because only Gemini and Vertex tasks
are polled by users and their adaptors report none.

### SystemTask

`rows` are the `system_tasks` rows of one type, `lock` its row of
`system_task_locks`. `pass[r]` is the runner loop of process `r` between two
statements of a claim or a sweep, `hand[t]` the goroutine that executes row `t`.
A restarted process has a new runner id, so it is another runner. Time is
relative: `lock.left` is `locked_until` minus the present, and `pass[r].now`
is the time the claim or sweep noted at its start, which the code goes on
comparing leases with; `Tick` lets both age. `MaxStall` bounds how long a
claim or sweep may last: up to `Lease` it is prompt, beyond it outlives its own
lease. `BeatsInTime` says that heartbeats, sent every third of the lease, are
not late.

| Code | Actions |
| --- | --- |
| `runSystemTaskScheduler`, `EnqueueSystemTask`, `StartLogCleanupTask` | `Create` |
| `runSystemTaskClaimPass`, `ClaimSystemTask` | `FindPending`, `InsertLock`, `ReadLock`, `StealLock`, `MarkOld`, `TakeRow`, `UndoLock` |
| `ExpireStaleSystemTaskLocks` | `FindStale`, `ExpireRow`, `DeleteStale` |
| `runWithLeaseHeartbeat` | `Heartbeat` |
| the handlers | `StateRefused`, `Finish`, `Release` |
| environment | `Tick`, `Crash` |

The look for an active row and the insert are one action, since the unique index
on `active_key` decides anyway; so are the list of pending rows and the re-read
at the start of a claim, since a row never becomes pending again. `LegacyRows`
are pending rows without `active_key`, which the tests of the repository create
too.

### SubscriptionLedger

`sub[s]` is a row of `user_subscriptions`, `job[r]` a request with its
pre-consume record and the attempts of its refund, `maint` the maintenance pass,
`period` the plan's reset period. `book` is history: what each request has
charged since its row was last reset (`cur`) and whether its charge lies before
that (`old`); reductions beyond it, kept apart for a charge from before the reset
(`leak`) and for a refund that was repeated (`again`); how often a record's
amount was taken back (`given`) and how often an attempt failed after that
(`lost`); the times from which periods of a row were counted (`base`), how often
each boundary was granted (`grants`), and how often an administrator put the
count back (`reopened`).

| Code | Actions |
| --- | --- |
| `PreConsumeUserSubscription`, `maybeResetUserSubscriptionWithPlanTx` | `PreConsume` |
| `PostConsumeUserSubscriptionDelta` | `Settle`, `RefundDelta` |
| `RefundSubscriptionPreConsume`, `refundWithRetry` | `RefundAlready`, `RefundDelta`, `RefundDeltaFails`, `RefundDeltaUnheard`, `RefundMark`, `RefundMarkFails`, `RefundAnswerLost` |
| `runSubscriptionQuotaResetOnce` | `Expire`, `ListDue`, `ResetRow` |
| `CreateUserSubscriptionFromPlanTx` | `Create` |
| administrators | `Invalidate`, `Delete`, `AdminReset`, `EditPlan` |
| environment | `Tick` |

A transaction that locks its rows is one action (MySQL and PostgreSQL; SQLite
has no row locks and makes one of two conflicting transactions fail). Its clock
was read before it began, so it may be up to `Lag` old. Periods are counted in
units of the clock: `custom` from the last reset, `daily` aligned to a
boundary, which stands for daily, weekly and monthly.

### LoginSession

`tab[t]` is a page: its token, `bootstrapState`, the state of `refreshPromise`
(`run`), whether `authEpoch` is still the one the refresh began with
(`current`), and the request the user waits for. `cookie` is the one refresh
cookie of the profile; secrets form a chain, so it is a session and a position.
`net` holds requests that the server answers in steps and whose `Set-Cookie`
takes effect when the answer arrives, whatever the tab has done since.

| Code | Actions |
| --- | --- |
| `bootstrapAuthentication`, `withTimeout` | `Bootstrap`, `BootTimeout` |
| `refreshAuthentication`, `createRefreshRunner` | `FreshHeaders`, `RunRefresh`, `RefreshAnswer`, `RefreshMismatch`, `RefreshSuperseded` |
| interceptors of `http-client.ts` | `Send`, `CallAnswer`, `Denied`, `DeniedTwice`, `OpFailed` |
| sign-in, sign-out, security change | `LoginAnswer`, `LogoutAnswer`, `LogoutMismatch`, `SecureAnswer` |
| `auth-session-sync.ts` and its listener | `HearAuthenticated`, `HearSignedOut`, `HearNothing`, `HearLate` |
| `RefreshLoginSession`, `RotateUserSessionRefresh` | `CheckRefresh`, `ReadRotation`, `Rotate`, `PublishRotation`, `RevokeReused` |
| other handlers of the server | `ServeLogin`, `ServeLogout`, `ServeCall`, `ChangeSecurity`, `AdvanceSession` |
| environment | `TokenExpires`, `RevokedElsewhere`, `Reload`, `LateAnswer`, `Fail` |

A rotation reads the row, replaces the secret and publishes the version it read
to the cache in three steps. When the session was changed or revoked in between
the cache refuses and the answer is an error without a cookie, although the
secret has been replaced; `lost` has the sessions of which the browser does not
know the current secret for this reason or because an answer did not arrive. The
row and the cache of a change or revocation are one step here; `SessionCache` has
them apart. `HearLate` is a tab that gets an event more than 60 seconds old and
discards it, and `missed` what it missed.

### SessionCache

Requests run step by step over the row and the Redis of their node; the Lua
script of `writeUserSessionCache` is one step (`Fill`). Time is relative: an
entry, the observation window of a request and the session have the ticks they
have left. `leaks` records a request that was granted although it began after a
revocation was reported, or a TTL after the row was revoked.

`Prompt` assumes that a revocation takes less than a TTL from its fence to its
tombstone. Without it `RevokedStaysOut` fails: the tombstone carries the version
the revocation read at its start; when the session is advanced before the row is
revoked and the fence expires, the snapshot of the newer version is stored as
active and the tombstone, older, is refused. `BoundedStaleness` does not depend
on it. `unfenced` records that a revocation was reported without its tombstone:
the write failed, or Redis held a newer version and refused it, which two
revocations and an advance can bring about. The code only logs both, so
`RevokedStaysOut` speaks of the other revocations. The comment at
`model/user_session.go:270` does not mention the second case.

### Playground

`ui` is what is rendered and the queue of state updates that React has not run,
`chat` the refs of `useChatHandler`, `ctl` the closure of
`createStreamRequestController`, `net[g]` the request of generation `g`, `disk`
the save timer and localStorage. Text is a sequence of places, each marked with
its generation, so that text in the wrong answer, lost or doubled is seen. The
code does not see places: it compares the letters that `Says` puts there
(`Begins`, the `startsWith` of the source), and letters may repeat. A provider
sends chunks of any length, the new text alone (`delta`) or all text so far
(`snapshot`).

Saving may fail, which the code only logs; loading may find a value it removes
for its size or cannot read, and the save after a load may fail. `disk.unsaved`
remembers that the last attempt failed. Not modelled is what `storage.ts` does to
the contents of long conversations: it cuts off stored messages above a size and
collapses repeated sections.

| Code | Actions |
| --- | --- |
| `sendChat`, `stopGeneration` | `Send`, `Regenerate`, `SaveAndSubmit`, `Stop` |
| `createStreamRequestController` | `HeadersStale`, `HeadersReady`, `HeadersFailed`, `Chunk`, `Done`, `StreamError`, `LateEvent`, `Cut` |
| `sendNonStreamingChat` | `PlainAnswer`, `PlainError`, `PlainIgnored` |
| stream buffer, React | `FlushTimer`, `Render` |
| `usePlaygroundState`, `storage.ts` | `Mount`, `Load`, `SaveTimer`, `Unmount`, `Clear` |
| edits | `SaveEdit`, `Delete` |
| environment | `Reload` |

## 3. Runs

Deadlock is checked only in the subscription runs, where the maintenance pass
always comes again: a finished request, task or conversation is a state in which
the system rightly stops.

| Run | Instance | Shows |
| --- | --- | --- |
| `billing` | 2 requests, 4 profiles (one per preference, flags spread), estimate 1, actual {0,3}, one reservation to 3, wallet 4, token 4, subscription 3, trust above 3, one failed write | `TypeOK`, `ChargedExactly`, `NoFreeCredit`, `OneSource`, `PreferenceHonoured`, `SubscriptionLimit`, `EventuallyClosed` |
| `task_overlap` | 3 workers, charge 2 of which 1 is pre-consumed, actual {1,3}, 2 failed writes of the row, the funding source or the markers, 1 death at any step | `TypeOK`, `OneHolder`, `MarkerExact`, `NeverOverRefunded`, refinement `BilledOnce`, `RefundCompletes`, `TaskFinishes` |
| `task_tokens` | 2 workers, charge 0 or 2, pre-consumed 1 or 3, every kind of failed write, bulk failures, user polls, no grace period | `TokenFollows`, `TerminalGuarded` |
| `task_fetch` | 2 workers, user polls | violated: `NeverOverRefunded` |
| `system_task` | 2 runners, 2 rows (1 legacy), lease 1, claims up to 1 tick, 1 failed statement, 1 death | `OneHandler`, `RunningHasLock`, `ClosedForGood`, `NeverStuck` |
| `subscription_ledger` | 2 requests, 2 rows, total 2, period 2, life 3, clock to 4, batch 2, one fault of any kind, one act of an administrator | `TypeOK`, `Balanced`, `RefundsExplained`, `OneAllowancePerPeriod`, `PassEnds`, `DueAreReset` |
| `subscription_refund` | the same with 1 row | violated: `RefundOnce` |
| `login_session` | 2 tabs, 1 sign-in, 2 requests, 3 of: security change (at most 2), expiry, revocation | `NoResurrection`, `NoFalseReuse`, `TokenNeverOlder` |
| `login_liveness` | 2 tabs, 1 sign-in, 1 request, 1 of: fault, reload, revocation, message that comes too late | `RefreshEnds`, `LoginPropagates` |
| `login_overwritten` | 2 tabs, 1 sign-in, 1 expiry | violated: `LoginSticks` |
| `session_cache` | 3 requests, 2 Redis instances in any placement, TTL 2, sessions that end and that do not, 1 failed access, 1 write, 2 revocations | `RevokedStaysOut`, `CalmCacheAgrees`, `BoundedStaleness` |
| `playground` | 3 generations of 2 letters, the second one repeating its letter, 3 messages, 2 stored, failing storage, streams of both kinds and plain requests | `TextExact`, `QuietIsFinal`, `NoOrphan`, `Durable`, `NeverWaitsInVain`, `FinalStable` |

Bounds. In `billing` wallet and token hold both estimates but not both
reservations, so that admission, refusal, overdraft by a race, refused
reservation and refused settlement all occur; actual amounts lie below and
above the pre-charge, one fault reaches each single failure, and its safety
invariants are proved for all amounts anyway (section 4). For tasks, three
workers let a winner, a sweep and a stale copy coexist, and two faults let a
refund and its retry fail. For system tasks a claimant and a sweep need two
runners, two rows pending together a legacy row. In `subscription_ledger` a row
created at 1 is reset at 3, is then in its last period and ends at 4, so a
charge can be open across a reset, an expiry and an advance that finds no next
period; two rows make a request walk past a full one and fill a batch, so that a
pass reads a second list. `LastSale` keeps the purchases in the first half of the
clock. `Periods = {"never", "daily"}` passes as well. Two tabs are a tab and
its rival for cookie and lock; three requests on the cache are a slow reader, a
writer and a revoker. Three generations are an answer, its successor and one
after a reload; two letters make merging and snapshots differ and allow a
repetition, and the proofs are for texts of any length.

Fairness. `Advance` and `Goroutine` are weakly fair: the Go scheduler runs
every runnable goroutine. Nothing is assumed of the upstream (`UpstreamEnds`):
`RELAY_TIMEOUT` is 0 by default, `service/http_client.go:104` then sets no
timeout, and a handler may wait for ever. `EventuallyClosed` therefore promises
that billing brings a request to its upstream call or to its end, and from the
upstream's answer to its end.
For tasks a worker that holds a copy goes on (weak fairness of `Step`), time
passes (`Age`), and the two sweeps are strongly fair, because every pass of
`RunTaskPollingOnce` performs both before it polls. For system tasks the clock,
the handlers and the runner loops go on, and the looks for stale locks and for
pending rows are strongly fair, because every loop performs both again and
again. The maintenance pass of subscriptions is weakly fair: a ticker starts it
every minute and its steps are straight-line code. For login sessions the server
answers or the request fails, messages between tabs are delivered, and the
browser lock is granted in the order of requests, so a tab that waits for it is
not overtaken for ever (strong fairness of `RunRefresh`). Users,
administrators and faults are never assumed to act.

### Findings

* `task_fetch`: `tryRealtimeFetch` (`relay/relay_task.go:486`) rewrites a
  FAILURE row from a copy read earlier. If the refund happened in between, the
  old marker returns and the task is refunded twice, against the comment at
  `service/task_polling.go:341`.
* `subscription_refund`: `RefundSubscriptionPreConsume`
  (`model/subscription.go:1409`) is documented as idempotent and is retried for
  that reason, but it takes the amount back in a second transaction that commits
  before the record is marked. If only the mark fails, or the answer to the inner
  commit is lost, each retry takes the amount back again. `RefundsExplained` shows
  that these are the only ways: a retry after any other failure, the lost answer
  of the outer commit included, repeats nothing. In `BillingSession` the same
  shows as a request that is given back up to two pre-charges too much.
* `login_overwritten`: a test says that a refresh response cannot restore
  credentials after a newer sign-in (`web/src/lib/auth-session.test.ts:223`).
  The page drops its body, but the browser has already stored its cookie. A
  start-up refresh that outlasts the 4 seconds of the root route shows the
  sign-in page; after the sign-in the late answer puts the old cookie back, and
  when the access token expires the tab falls back into the old session.

Other limits of the code, seen with TLC under constants that the runs leave out:

* `TaskBilling`: when the channel of a task cannot be loaded the poller fails it
  with `TaskBulkUpdateByID`, which has no status condition
  (`service/task_polling.go:196`, `268`, `440`), and a task another pass moved to
  SUCCESS becomes FAILURE and is refunded by the sweep. The comment at
  `model/task.go:530` forbids that in billing flows. A user poll moves a finished
  row to whatever the provider says then (`relay/relay_task.go:486`).
  `TerminalGuarded` shows that no other write does such a thing. `task_overlap`
  leaves both out; `task_fetch` shows what a user poll does to
  `NeverOverRefunded`.
* `TaskBilling`, inside the properties: a settlement that fails at the submission
  is logged and the row records the full charge, so a refund gives back what was
  never taken (`controller/relay.go:576`); a refund whose marker write fails, or
  whose worker dies before it, is made once more (`service/task_billing.go:197`
  accepts this), and not a third time.
* `SystemTask` with `MaxStall` above `Lease` violates `NeverStuck`:
  `ClaimSystemTask` takes the row without a look at its lease
  (`model/system_task.go:246`). A claim held up for longer than the lease takes
  the row after a sweep has passed over it and before the sweep deletes the
  lock; the row runs without a lock and its type accepts no new task.
* `SystemTask`: the sweep fails the row of a lock it read earlier without
  repeating the lease condition (`model/system_task.go:366`), so a handler whose
  heartbeat succeeds can lose its row when the lock was taken over meanwhile.
* `SubscriptionLedger`, inside the properties: when a plan loses its reset period
  (or gets a longer one) its due rows stay due, yet `ResetDueSubscriptions` counts
  them. A full batch of 300 such rows is read again without end and no other row
  is reset or expired; this is the exception `PassEnds` states.
* `SubscriptionLedger`, inside the properties: `AdminReset(TRUE)` in the last
  period of a row stores `last_reset_time` 0, so the next pre-consume resets the
  row once more, counting from its start (`model/subscription.go:1012`, `1261`).
  `OneAllowancePerPeriod` counts this grant and allows it because of `reopened`.
  And a refund after a period reset reduces the usage of the new period (`leak`).
* `LoginSession`: a refresh that read the session before a security change and
  the user after it revokes the session that made the change
  (`service/auth_session.go:229`). Without Web Locks two tabs can look like a
  replay once the replay window is over; with them one tab can, after a rotation
  that was committed and answered with an error because the session was changed
  meanwhile (`model/user_session.go:492`): `NoFalseReuse` names this case. A tab
  that sleeps for more than a minute after a sign-in elsewhere discards the event
  (`web/src/lib/auth-session-sync.ts:89`) and does not follow. And
  `applyAuthRotation`
  (`web/src/lib/auth-session.ts:160`) compares the session of the answer to a
  security change with that of the store, not their versions: an answer that a
  later change overtakes puts an older token back, and the next request is
  refused and refreshes. `TokenNeverOlder` leaves this one answer out.
* `Playground` with `Habits = {"late_edit"}` violates `QuietIsFinal`: the editor
  of an older message stays usable during a generation, and saving it replaces
  the list by the rendered one, so an ending that was queued is lost and the
  answer stays pending, although `use-message-action-guard.ts:25` is there to
  guard message actions. With `{"early_input"}` `TextExact` fails: a message sent
  before the load timer of `use-playground-state.ts:84` is replaced by the
  stored list and its answer lands in an old message.
* `Playground`, inside the properties: Stop drops up to 50 ms of text that was
  not flushed; a stream that closes with status 200 and without `[DONE]` keeps
  the page generating until Stop; a reload loses what the save timer had not
  written; a save that fails is only logged. `mergePendingStreamChunk` and
  `getAppendableChunk` take a delta that begins with the text before it for a
  resent text: of two equal tokens in a row the second is lost
  (`use-chat-handler.ts:59`, `message-streaming-utils.ts:74`). The second answer
  in the run is such a text, and `TextExact` demands the whole text only of the
  others.

## 4. Proofs

Each theorem states its property for every value of the constants that the
`ASSUME` of its module allows; hypotheses beyond that are named.

### BillingSessionProofs

For every set of requests, every profile, all amounts and any number of faults:

* `TypeCorrect`: `Spec => []TypeOK`;
* `ExactCharge`: `Spec => []ChargedExactly`;
* `NoCredit`: `Spec => []NoFreeCredit`;
* `SingleSource`: `Spec => []OneSource`;
* `WithinLimit`: `Spec => []SubscriptionLimit`.

They rest on `BillingAssumption` only (amounts are natural numbers, balances
integers). The first two results have the one exception the code has: a refund of
the subscription that committed and reported an error is repeated by
`refundWithRetry`. `ExactCharge` counts the repetitions and says that each follows
such an attempt, `NoCredit` that there are at most two; wallet and token have no
exception. `ChargedExactly` speaks of closed requests and says nothing of the
steps that lead there, so it is not inductive. The invariant is
`IInv == TypeOK /\ Accounting`: for each request, `SessionInv` relates the
session, what it paid and what was lost at every position of its handler and of
its refund goroutine (for example: in `resRollback` the source has paid
`preConsumed` plus the amount in progress; in `extra` the subscription still owes
`extraReserved`; while the refund is being retried what was paid is what was
consumed less `returned` pre-charges). `NextInv` is proved action by action. Each action concerns one
request: `Current` picks its session and histories, a record lemma per result
session states its fields, and `Lift` carries the other requests over.
`SubscriptionMoves` says that a debit accepted by `SubAccepts` keeps the limit.

`PreferenceIsHonoured` (`Spec => []PreferenceHonoured`) has an invariant of its
own, `Preferring`. `PrefInv` says which sources a preference lets a session look
at. `Kept` says that, while the subscription is active and does not allow
overflow, no `subscription_first` session looks at the wallet or has it for a
source. All actions but four merely go on with their source or drop it
(`Continues`); only `Start`, `HasActive`, `CheckOverflow` and `TryWallet` look at
another one, and each is held against the condition the code tests there.

### TaskBillingProofs

For any number of workers, any charges, faults and deaths. The theorems name
the circumstances they need, as operators over the constants:

| Circumstance | Why it is there |
| --- | --- |
| `Compared`: no user polls, no vanished channel | these two paths write a status without comparing it; the findings and limits above show what they lead to |
| `Graced`: and `GraceHolds` | the sweep leaves a failed task alone for a grace period, which an immediate refund, three statements long, is meant to outlast |

* `TypeCorrect`: `TypeOK`, in all circumstances;
* `StatusIsGuarded`: `TerminalGuarded`, in all circumstances, user polls and bulk
  updates included;
* `ChargeHasOneHolder`: `OneHolder`, `RefundIsBounded`: `NeverOverRefunded`,
  `MarkerIsExact`: `MarkerExact`, and `BillRefinesLedger`: `BilledOnce`, when
  `Graced`, with any settlement at the submission, any writes that fail and any
  workers that die; what a lost write leads to is in the properties (`lapses`,
  `unsettled`);
* `TokenIsInStep`: `TokenFollows`, for any finite number of workers none of
  which dies, also outside `Compared`: user polls, bulk updates and overlapping
  sweeps may then let several workers change the charge at once.

`Placed` says what a worker at each step knows of the row: one that refunds is
at a FAILURE, one that settles at a SUCCESS, one that reads has a copy of an
unfinished row. `Single` adds that at most one worker holds the charge, and that
a claimed refund has cleared the marker while an unclaimed one is recent; the
first half is not inductive without the second, because the marker and the
grace period are what keeps the sweep out. `Books` relates `paid + unsettled` and
`closings` to the row, to `lapses` and to the worker that holds the charge: after
a change that went unmarked the marker is still there once, and the claim that
takes it clears it first, so there is no third refund. `Exact` relates the marker
to `paid + unsettled`. `TokenBook` needs none of these: what the token is behind `paid` and the
lost adjustments is the sum, over all workers, of what each has moved in the
funding source and not yet in the token, and a step changes this sum by what it
changes for one worker. The refinement maps every step to a step of `TaskLedger` or to a stutter,
with `Books` as its invariant.

### SystemTaskProofs

For any number of runners, rows, failed statements and deaths:

* `ClosedIsFinal`: `ClosedForGood`, with nothing assumed of clocks, leases or
  heartbeats;
* `RunningRowIsLocked`: `RunningHasLock`, when claims and sweeps last no longer
  than a lease (`Brisk`; the limits above show what happens beyond);
* `OneHandlerRuns`: `OneHandler`, when also heartbeats come in time. They are
  sent every third of a lease.

`Ordered` says that rows begin in the order of their creation, which runner
claims what, and that a handler belongs to a row its runner has taken. `Locked`
says whose lock it is: `Held` for a claim between lock and row, `Own` for a
running row, and `Fresh` for the key step: while a row runs, no claim and no
sweep that is under way finds its lease over by the time it noted at its start.
`Brisk` bounds how old that time can be. `Beating` adds that the lease of a
running handler is not over.

### SubscriptionLedgerProofs

For any number of requests, rows, retries, faults and acts of administrators:

* `TypeCorrect`: `TypeOK`, in particular that the usage stays within its total;
* `RefundsAreExplained`: `RefundsExplained`;
* `OneAllowance`: `OneAllowancePerPeriod`;
* `BooksBalance`: `Balanced`, the usage of a row is what the requests charged to
  it since its reset, or less by what was taken back of charges from before it
  and by what repeated refunds took back again.

They rest on `BoundsAssumption` only. Every step is shown to be `Good`: it keeps
the types, it does to each row one of four things (`Kept`, `Renewed`, `Begun`,
`Created`), and it is `EvenStep` for the refund counters of each request. The
invariants then follow from these kinds and no longer look at the actions.
`Allowed` carries the third result: `Ahead` says that the time a row counts its
period from is one of its bases or a boundary after one, and that the boundaries
still ahead of it were granted no more often than the count was put back;
`Rationed` is the property for one row. That the next reset
lies on the same grid takes the lemmas about `\div` and `%` at the head of the module. For
`BooksBalance` a step is shown to change the sum over the requests by what it
changes for one request.

### LoginSessionProofs

For any number of tabs, sessions, faults and requests, without further
hypotheses:

* `SignOutIsFinal`: `NoResurrection`;
* `TokenIsNeverOlder`: `TokenNeverOlder`;
* `ReplayIsNeverFalse`: `NoFalseReuse`.

`Fresh` says that a session whose sign-in is not answered yet is known to no
tab, no other request and not to the cookie. `Parted` says that a tab parts with
revoked sessions only, and that an answer which its `authEpoch` still lets in is
of none of them. `Graded` says that no store and no answer has a version above
that of its row, and that the answer to a current refresh is not older than what
the tab has. `Chained` says that with Web Locks one refresh is under way, and of
every session outside `lost` (`Linked`) that the refresh carries its current
secret at each step of the rotation, and so does the cookie unless that refresh
has rotated it and is not answered.
The actions are sorted by what they do to rows, stores, requests and the cookie,
and the invariants are proved of these kinds.

### SessionCacheProofs

For any number of requests, nodes, Redis instances and changes, any TTL:

* `DisagreementFades`: `CalmCacheAgrees`, with nothing assumed;
* `StalenessIsBounded`: `BoundedStaleness`, when the write of a snapshot does
  not itself fail: a request whose write fails is granted without the second look
  at its deadline (`model/user_session.go:240`);
* `RevocationIsFinal`: `RevokedStaysOut`, when `Prompt`.

`Calm`: what is left of a snapshot that disagrees with the row, in Redis or on
its way, and the time since the last change together never exceed a TTL. `Aged`
says the same of snapshots from before a revocation and the time since it.
`Covered` says that a revocation works behind its fence, and that when it is over
its tombstone outlasts every snapshot still on its way.

### PlaygroundProofs

For any number of generations and messages, texts and chunks of any length, with every kind of request
and both habits of the user (`late_edit`, `early_input`):

* `NothingIsOrphaned`: `NoOrphan`;
* `NothingIsAwaitedInVain`: `NeverWaitsInVain`;
* `ShownIsStored`: `Durable`.

Their invariant speaks of `chat`, `ctl` and `net` only. `Together`: the
generation counters of the chat and of the stream controller move together.
`Source`: the active source is that of the present generation. `Held` and
`Waiting`: an open request is the one that Stop closes, and a page that shows a
generation waits for it. `ShownIsStored` adds which list was rendered last,
whether a save is pending and whether the last access failed, whatever the lists
hold.

For a user with neither habit (`Habits = {}`; section 3 says how each habit
breaks them):

* `TextIsExact`: `TextExact`;
* `QuietPageIsFinal`: `QuietIsFinal`;
* `FinalAnswersStay`: `FinalStable`, an action property.

These are about what the lists hold, and a list is the fold of the queue of
updates over the last rendered one. Lemmas say what one more update does to the
fold (`AppliedEmpty`, `AppliedAppend`) and what removing a message leaves
(`Removal`). The invariant is `Talk`, of which `Conversation` is the new part:

* `Flags`: what the flags of the chat say about each other;
* `Lists`: the list that is shown, the one saved last and the stored one hold
  places of what was sent (`Own`), as a prefix of it where the text does not repeat
  itself (`Shows`), and at most their last message waits;
* `Resting`: a page without a generation has nothing to render and nothing
  waiting;
* `Working`: with a generation under way, the queue ends in an answer `l` when it
  is applied under the present generation and in an answer `b` when it is applied
  under the next one, as after Stop (`Tracks`); the text that waits for its flush
  is exactly the slice that `l` lacks or, from a provider that sends snapshots,
  all of it (`Awaits`).

The step that needs thought is the merging of a chunk. `Awaits` says that the
pending text is the one right before the chunk, so a chunk that begins with it
would be a repetition, which `Unrepeated` excludes; without `Unrepeated` the code
drops the repetition and only `Own` is left. `Steady`
adds for the action property that a rendered answer which is final is the one
the queue leaves alone.

### DataInduction

The induction theorems of the library take an operator as a parameter, which the
provers cannot instantiate. `Numbers` and `Parts` state induction for the SET of
the numbers, or of the subsets of a finite set, that have the property, and are
proved from the existence of a smallest element (`WFMin`). `MapThenSumSet` and
`FoldLeft` are defined with a function that CHOOSE picks: `AddsExists` and
`AddsAgree` show that this function exists and is determined, from which the
lemmas about sums follow (`SumEmpty`, `SumAgree`, `SumWithout` and others); the
same is done for `FoldLeft` in `PlaygroundProofs`.

### Only model-checked

* Liveness (`EventuallyClosed`, `RefundCompletes`, `TaskFinishes`, `NeverStuck`,
  `PassEnds`, `DueAreReset`, `RefreshEnds`, `LoginPropagates`): fairness and
  `ENABLED` are out of the prover's reach.
* The three violated properties are about instances by nature.

## 5. Plan

1. Proofs: `BoundedStaleness` with failing writes of snapshots, with the bound
   that then holds.
2. Models that would join the present ones: the per-turn charges of realtime
   sessions (`PreWssConsumeQuota`), the violation fee and channel retries around
   `BillingSession`, and `SystemTask` composed with `TaskBilling`.

### Not modelled

* Most of the repository by size is the web front end: forms, tables, dialogs,
  charts and translations. They show and submit values through single calls,
  keep no state beyond the form, and have no protocol to check; modelling them
  would transliterate layout. Its two parts with a protocol, login sessions and
  the playground, are modelled.
* Protocol adaptors and stream conversion translate data; price arithmetic is
  in floating point and only its results matter to the accounts.
* The batch updater and the quota caches: the models are of the deployment
  without them. Exactness of the accounts then holds between flushes only.
* Subscription orders, purchases and group changes, top-ups, redemptions,
  payment callbacks: single transactions that lock an order row.
* Midjourney tasks (an older poller of the same shape), rate limits, channel
  selection, logs, sign-in methods.
