# Verification of the billing, coordination and session core of micross-api

The repository is an LLM gateway (a fork of new-api) with a web front end: it
authenticates a caller, picks an upstream channel, relays the request and charges
a quota. This directory holds TLA+ models of the parts where several requests,
nodes, goroutines, browser tabs or retries change the same state, the TLC runs
that check them and the TLAPS proofs that hold for every size.

## 1. The system

| Component | State | Operations | Interacts with |
|---|---|---|---|
| System tasks (`model/system_task.go`, `service/system_task.go`) | rows of `system_tasks`, one lock row per type, a handler goroutine per claimed task | create, claim, sweep of stale locks, heartbeat, finish | every master node through the database; runs log cleanup, channel tests, task polling |
| Wallet quota (`model/quota_reserve.go`, `model/user.go`, `model/user_cache.go`, `model/utils.go`) | `users.quota`, a Redis hash, an in-memory batch store | reserve, hydrate, credit, debit, top-up, refund, flush, expiry | every billing session, payments, redemption |
| Request billing (`service/billing_session.go`, `funding_source.go`, `billing.go`, `quota.go`, `violation_fee.go`) | one session per request, the refund goroutine | choose a source, pre-consume, reserve more, settle, refund, fee | wallet, token, subscription; called by `controller/relay.go` |
| Subscriptions (`model/subscription.go`) | plans, subscriptions with used/total and reset times, pre-consume records, orders | pre-consume, post-consume, refund of a record, reset, expire, purchase | request billing, payments |
| Asynchronous tasks (`service/task_polling.go`, `task_billing.go`, `model/task.go`) | task rows with status and quota | submit, poll, time out, settle, refund | system tasks, billing |
| Top-ups, orders, redemption (`model/topup.go`, `model/redemption.go`) | orders, codes | create, callback, complete, redeem | wallet, ledger |
| Login sessions (`model/user_session.go`, `service/auth_session.go`, `controller/auth_session.go`) | session rows, a Redis entry per session with deny fences and tombstones | create, check, rotate, advance, revoke in three ways | auth middleware, the browser |
| Web authentication (`web/src/lib/auth-session*.ts`, `http-client.ts`, `stores/auth-store.ts`, `routes/__root.tsx`, `features/auth/api.ts`) | per tab the access token, one refresh promise and its epoch; per browser the refresh cookie, a lock and broadcast events | refresh with retries, log in, log out, security change, react to events | login sessions |
| Chat playground (`web/src/features/playground`) | conversation, request generations, stream controller, pending chunks and their timer, React's update queue, a copy in localStorage | send, stream, stop, regenerate, edit, delete, save, leave | the relay, through SSE or a plain request |
| User authentication cache (`model/user_auth_cache.go`) | version fences in Redis | fence, commit, read | every user update |
| Ledger, commissions, agents (`model/account_ledger*.go`, `service/commission.go`) | append-only ledger, commission rows | record, settle, claw back | top-ups, refunds |
| Discount plans (`model/discount_*.go`) | plans and bindings | resolve the applicable plan | pricing |
| Channel selection and affinity (`service/channel_select.go`, `channel_affinity.go`, `model/channel_cache.go`) | channel cache, affinity cache | select, retry, disable | relay |
| Rate limiting (`middleware/*rate-limit.go`, `common/limiter`) | windows and buckets | admit | relay |
| Relay adaptors, settings, OAuth, logs, the other web pages, desktop shell | configuration, presentation, third-party protocols | | |

What is hard in it:

* several processes claim and finish the same background work through database
  rows and a lease, and can stall or die between two statements;
* a balance lives in three places (row, Redis hash, batch store) that are
  changed by separate, unordered steps;
* a request's charge passes through several holds that can each fail, is undone
  by rollbacks, and is given back by a goroutine that races with everything
  else of the same user;
* refunds are retried although part of them was already committed;
* an asynchronous task is billed long after its request, by whichever of several
  polling passes, timeout sweeps and status queries first stores its outcome;
* a revoked login session must stay revoked although checks that read its row
  earlier write what they read into the cache later, and cache entries expire;
* the tabs of a browser share one rotating secret, and using an old one looks
  like theft; answers arrive after the tab has logged in or out again;
* the playground hears of one answer from a stream, a timer, React and the user,
  in any order, and each of them may be about a request that is already over.

`PROJECT.json` lists these hazards at their lines.

## 2. Modules

| Module | Models | Uses |
|---|---|---|
| `SystemTask` | system tasks of one type | |
| `SystemTaskProofs` | proofs about `SystemTask` | `SystemTask` |
| `QuotaCache` | the balance of one account in row, hash and batch store | |
| `QuotaCacheProofs` | proofs about `QuotaCache` | `QuotaCache`, `SetSums` |
| `BillingSession` | the billing life of concurrent requests of one user | |
| `Escrow` | abstract specification: hold, then commit or release, once | |
| `BillingEscrow` | refinement mapping from `BillingSession` to `Escrow` | `BillingSession`, `Escrow` |
| `BillingProofs` | proofs about `BillingSession` and the refinement | `BillingEscrow`, `SetSums` |
| `TaskPolling` | one asynchronous task from its insertion to its final bill | |
| `TaskPollingProofs` | proofs about `TaskPolling` | `TaskPolling` |
| `LoginSession` | the row and the Redis entry of one login session under concurrent calls | |
| `LoginSessionProofs` | proofs about `LoginSession` | `LoginSession` |
| `WebAuth` | the tabs of one browser, their cookie jar and the server they refresh against | |
| `WebAuthProofs` | proofs about `WebAuth` | `WebAuth` |
| `Playground` | the chat playground of one page | |
| `PlaygroundProofs` | proofs about `Playground` | `Playground`, `SetSums` |
| `SetSums` | lemmas: sums over finite sets, minimal sets | |
| `MC*` | what TLC instantiates: values for constants, a symmetry set | the component |

`LoginSession` and `WebAuth` look at the same sessions from two sides:
`LoginSession` splits the server's calls into statements and Redis commands,
`WebAuth` takes each handler as one step and splits what the browser does around
it. `OneWinner` of the first is what justifies the single step of the second.

Operators named in a comment as a mutant are deliberate mistakes; no
specification uses them. They record which slip of the code each property would
catch. `PROJECT.json` ("map") names the source lines of every definition.

### SystemTask

State: the status, `active_key` and owner of each row; the one lock row of the
type with the time its lease has left; per runner the program counter and the
locals of its pass (`runSystemTaskScheduler`: sweep, then claim); per task the
handler goroutine. Every SQL statement is a step, so a pass can be overtaken, or
die, between any two. `CreateSystemTask` inserts under the unique `active_key`;
`Sweep*` is `FailStaleSystemTasks` in its three statements; `Claim*` and
`Acquire*` are `ClaimSystemTask` (insert the lock, or inspect and take over an
expired one, fail its task, then the guarded pending-to-running update);
`Dispatch` starts the handler; `Heartbeat`, `Finish`, `FinishRelease` are the
handler's writes, each conditional on owner and status as in the code; `Crash`
kills a runner and its handlers. Time is a countdown in the lock, moved by
`Tick`; `MaxStall` bounds how long a pass stays between two statements.

### QuotaCache

State: `users.quota` (`db`), the Redis hash and its Quota field, the batch store
and the store being written, the calls in flight with their program counters,
and the cache deltas handed to goroutines. `truth` is what the accepted calls add
up to. A call is a reservation (`TryReserveUserQuota`: script on the hash, on a
miss hydrate and try again, on a Redis error fall back to the row; persist, and
compensate if that fails), a credit or debit of a settlement, a top-up
(transaction, then `syncCreditUserQuotaCache`), a refund (`refundWalletQuota`,
row only) or a plain read that hydrates. `FlushSwap`/`FlushWrite` are
`batchUpdate`; `Evict` is expiry or invalidation, at any moment: the life of the
hash runs from its hydration and has nothing to do with the flush. Of a
compensation that Redis refuses (`CompensateError`) or that finds no hash the
code only writes a log line. Two ghosts say what that costs. `drift` is by how
much the hash is off for good: what its hydration read too early or too late,
and every change nobody tells it of (a refund, a reservation on the row, a
settlement the row refused, a delta Redis refused). `worst` is the most by which
a balance that admitted a reservation has been ahead of the account.

### BillingSession, Escrow, BillingEscrow

State: wallet, token and subscription usage; per request its position in the
handler, the session's fields (funding source, pre-consumed amount, what the
source and the token gave, extra reservation, settled and refunded flags) and its
refund job. The actions follow `NewBillingSession` (preference, fallback from one
source to the other, trust bypass), `preConsume` with its rollback, `Reserve` with
its undo, the realtime turns of `PreWssConsumeQuota`, whose charge the database
may refuse (fault `"turn"`), `Settle`, `Refund` (the goroutine of three to four
separate changes, the subscription part repeated up to three times) and the
violation fee. `Faults` names which change may be refused by the database. The
early return of `PreWssConsumeQuota` for `relayInfo.UsePrice` is not there:
nothing in the repository assigns that field (`relay/common/relay_info.go:98`), so
it is never taken.

`Escrow` says what a user may rely on: money moves between a pool and one
request's charge, a commit or a release is final. `BillingEscrow` maps a session
to it: the charge of a request is what its session *remembers*, the pool is what
the balances *hold*, so the refinement says that the two never diverge.

### TaskPolling

State: the tasks row (status, quota), whether it is past the timeout, what was
taken for it from funding source, token and usage statistics, the upstream's
progress, and per goroutine a copy of the row with the answer it received. A pass
is `sweepTimedOutTasks` and then the poll of `RunTaskPollingOnce`: read the row,
ask, `UpdateWithStatus` guarded by the status that was read, and only the winner
goes on to `RefundTaskQuota` or `settleTaskBillingOnComplete`, step by step.
`BulkFail` is `TaskBulkUpdateByID` for a missing channel, `FetchRead` and the
steps after it `tryRealtimeFetch`, which copies the row whatever its status and
writes it back if the status has not changed since; `overwritten` counts the times
it did so over a finished task. An answer of Suno also brings the upstream's
submit time (`SubmitTime`), so a task can stop being past the timeout. `torn`
records that a failure the code only logs left row and charge apart. Two
unfinished statuses are kept, and the progress column is dropped: every writer in
the repository sets 100% with a final status and never with another (an upstream
of the same kind that reported 100% with an unfinished status would be copied, and
the task would then be invisible to poll and sweep; that case is outside the
model).

### LoginSession

State: the clock, the row (status, version, number of the current secret, end of
the previous one's window), the Redis entry with its expiry, and the calls in
flight. A call is a check (`GetUserSessionCached`), a revocation (by id or by the
cookie's secret), a rotation (`RotateUserSessionRefresh`), a version change
(`AdvanceUserSessionAuthVersion`) or the tail of `CreateUserSession`. Every
statement, every Redis command and every reading of the clock is a step, and
`Tick` may come between any two; one clock stands for those of the nodes and of
Redis. `Capture` takes the deadline after which an observation may not be cached;
`Fill` and `FillTooLate` are `writeUserSessionCache`, whose script refuses older
versions and anything under a deny entry (also when it runs late, and then the
caller gets `ErrUserSessionInactive`); `Fence`, `RevokeRow` and `Final` are the
three writes of a revocation; `Confirm` is the second look at the row. `published`
records that Redis accepted the tombstone of a revocation, `late` that a check
began after that.

### WebAuth

State: the session rows as the refresh handler uses them, the cookie jar, and per
tab the store, the refresh with its runner, a waiting api request, a login,
logout or security change in flight and the inbox of broadcast events. Three
abstractions keep it small:

* a refresh secret is its *age* in its session (current, previous, older), and a
  rotation ages every copy wherever it is, so no secret has to be named;
* the epoch is its only use: `cur` says whether the epoch still is the one in
  which the refresh began, and `Supersede` is `authEpoch += 1`;
* a login, logout or security change is handled by the server in the step that
  sends it; its answer and cookie arrive in a step of their own, or are lost
  (`OpLost`). A security change takes two steps on the server, the user's version
  and the session's, of which the second can fail (`AdvanceFails`).

`ServerRefresh` is `RefreshAuth` down to `RotateUserSessionRefresh`;
`RefreshLock` to `RefreshTransient` are the ways through `createRefreshRunner`
and `runRefresh`; `Settle` resolves the promise for everybody who waits on it.
A request that got 401 waits for the refresh and is sent again; the server's
second verdict (`ApiRetry`) and its arrival (`ApiRefused`) are two steps, and the
second 401 signs the tab out whatever happened in between: `http-client.ts` looks
at no epoch there. Revoking a session clears the cookie when the *cookie's*
session is the revoked one, whichever session the tab has. `PageLoad` drops all
that a page has in flight and starts the bootstrap refresh of `__root.tsx`: the
refresh request it had becomes an *orphan* that the server still handles, and
cookies on their way may or may not be stored. `history` remembers whether an
answer was lost and whether the server saw a replay. What users and pages begin
(`MaxUses`) and what goes astray (`MaxFaults`) are counted separately.

### Playground

State: what React has rendered (conversation, busy flag), the updaters it has not
run, the refs of `useChatHandler` and `useStreamRequest` (request generation,
pending chunks, flush timer, controller, abort controller), the requests on the
network, the open editor, and the debounced copy in localStorage. A request is
named by its number and its answer is `Script`, which arrives in deltas of one or
more letters, cut anywhere. Every letter is tagged with its request, so a letter in
the wrong message is visible. A stream ends with `[DONE]`, with an error, or by a
close with status 200 before `[DONE]` (`StreamCut`), for which the page runs no
callback at all; `relay-baidu.go` ends its streams that way. `Render` runs the
queue; an updater may also run at once when nothing is queued, as React does.
Clicks are followed by a render before anything else, timers and stream events
are not. "late" delivers events of a stream that was closed.

## 3. Runs

| Run | Expect | Checks |
|---|---|---|
| `systask` | pass | `TypeOK`, `OneActiveTask`, `SingleExecution`, `TerminalStable`, `RunningHasLock`, `OneLiveHandler`, `AbandonedTaskFails`: with claims that finish within the lease and timely heartbeats a task is executed once, crash detection works, no two handlers of a type are live |
| `quota_faults` | pass | `TypeOK`, `LedgerConserved`, `CacheAgrees`, `OverspendBounded`, `EventuallyDurable`: every kind of call, both modes, Redis and the database failing, the hash lost at any moment |
| `quota_expiry` | violation | `NoOverspend` in batch mode, without any failure |
| `billing_books` | pass | `BooksBalance`, `ImplementsEscrow`, `AllFinish` without database errors |
| `billing_faults` | pass | `TypeOK`, `NoOverRefund` with every change but the marking of a refund record allowed to fail |
| `billing_realtime` | violation | `BooksBalance` with realtime turns |
| `task_polling` | pass | `TypeOK`, `OneBiller`, `NeverPaidOut`, `RowTellsCharge`, `PassesKeepFinal`, `EventuallyFinal`: overlapping passes and queries of the task, finished or not, with two failures or crashes |
| `task_reopen` | violation | `FinalStays`, one pass and one status query, without any failure |
| `web_tabs` | pass | `TypeOK`, `NoFalseReuse`, `NoStaleRefresh`, `TabsSettle`: two tabs, two sessions, two uses, every kind of fault |
| `playground` | pass | `TypeOK`, `OwnText`, `NothingStuck`, `ReceivedShown`, `FinalStays`, `AnswersEnd`, `SavedInTheEnd`: two requests with late events and cut streams, one edit, deletion or departure |
| `playground_text` | violation | `FullRawContent` for an answer "110" |
| `login_session` | pass | `TypeOK`, `RevokedStaysOut`, `OneWinner`: three calls of any kind, Redis and the database failing |

Bounds. Two tasks and two runners are what it takes for a claim to meet another
claim, a sweep or an old handler; a lease of two ticks with stalls of one puts the
expiry between the statements, and the theorems cover longer stalls. Three calls
on an account give every pair of calls a third that observes them; a balance of 1
and amounts of 1 make both success and refusal happen. Two requests with estimates
and costs around the balances 3 and 4 make each source sufficient for one and not
for both, so fallback, rollback and a refused settlement occur. Two passes and one
query around one task cover every pair of writers with an observer; two failures
allow one inside the recovery from another, and one query that writes over the
finished task is followed by passes that find it unfinished again. Three calls on
a login session are a revocation, a snapshot that is late for it and a third call
that observes both or changes the version between them; the times (entries live 2,
the session 3, the clock to 3) let an entry or a fence end before, with and after
the session. Two tabs and two sessions let each tab log in over the other; two
uses are a logout and the refresh it has to wait for, or a refresh and what
supersedes it, and the refresh of a page that is loaded again does not count as
one. One thing may go astray, at any place; what follows it (retries, repeated
logouts, page loads on events) is not bounded. Two requests in the playground are
the one being answered and the one that replaces it; the script "ab" has an order
to lose and comes as one delta or two. (The passing properties also hold of "aab",
whose first letters repeat, with no edit or departure.) `CHECK_DEADLOCK FALSE` is
set where the calls or requests simply end.

Fairness. `SystemTask`: the ticker of the runner loop fires for ever, a pass runs
to its end, and the statement that fails an expired task does not fail for ever
(strong fairness of `SweepMark`, because a new claim can disable it in between);
handlers may hang. `QuotaCache`: started calls and goroutines run and the batch
timer fires. `BillingSession`: handler and goroutines run, the upstream call is
bounded by the relay timeout. `TaskPolling`: passes are scheduled as long as a
task is unfinished, HTTP timeouts bound a poll, time passes; no user has to query
and no failure has to happen. `WebAuth`: in each tab something goes on as long as
something can (weak fairness of its steps together): every request is answered or
fails, the event loop runs what is queued, `navigator.locks` serves its queue, and
a page goes on using its token, so a dead one is noticed. No fault has to happen
and there are at most `MaxFaults`, so a server that fails for ever is not a
behaviour of the run. `Playground`: a request is answered, fails or is cut off,
timers fire, React renders; no user has to do anything. `LoginSession` has no
liveness property: every call is a bounded sequence of steps.

### What the violations show

* `quota_expiry`: the hash disappears (its 60 seconds are over, or a profile update
  deletes it) while a reservation is in the batch store only. The next reservation
  hydrates it from the row, which does not have the first, and the same quota is
  spent twice. The comment of `TryReserveUserQuota` says that the cached balance
  decides so that the outdated row of batch mode does not make this worse.
  `OverspendBounded` is what remains true.
* `billing_realtime`: every turn of a realtime session is charged outside the
  billing session, and the end of the session settles the sum of the turns again.
* `task_reopen`: a status query of a timed-out Gemini or Vertex task asks the
  upstream, which is still working, and writes IN_PROGRESS over FAILURE, because the
  guard of its update is the status it copied. The comment at the guarded update
  says that it keeps a final status from being overwritten. `PassesKeepFinal` is what
  remains true: passes, sweeps and bills do not do it.
* `playground_text`: "1" is waiting or shown, "1" or "10" arrives, and the page
  takes it for the whole text again, so a letter is gone from the message for good.
  `ReceivedShown` is what remains true: every letter that came is somewhere in the
  text, and the last one is at its end.

### Reachable as well, outside the passing runs

The models contain these behaviours; the constants of the runs or the
preconditions of the properties exclude them, and the hazards in `PROJECT.json`
name them at their lines.

* `RefundSubscriptionPreConsume` lowers the usage in a transaction of its own;
  when the outer one fails (fault `"record"`), the retry lowers it again.
* A status query reads a task between its final status and the clearing of its
  quota and writes the whole copy back: the refunded task is unfinished again and is
  refunded a second time. The run contains it; `OneBiller`, `NeverPaidOut` and
  `RowTellsCharge` speak of a task that no query has written over.
* A task whose submission settlement was refused (fault `"settle"`) is later refunded
  at the full price; a failed task whose status was stored by a status query or a
  bulk update is not refunded.
* Settlements charge what a request has cost, covered or not: `OverspendBounded`
  speaks of accounts without them.
* A revocation whose final tombstone Redis refuses (a newer version is there) or
  fails to take is left with its fence, which ends before the deadline of a
  snapshot read between fence and revocation: that snapshot then admits the
  revoked session until it expires. `RevokedStaysOut` is about accepted tombstones.
* The cookie of a superseded refresh is still stored and can replace or clear that
  of a newer login; a refresh between the two steps of a security change finds the
  session outdated and revokes it; a logout by a cookie whose secret is past its
  window revokes nothing. The tabs settle in each case.
* In the playground: an edit saved between an event and its render overwrites the
  event (`"staleEdit"`), a message sent before the saved conversation is loaded is
  lost (`"early"`), a stop drops what was buffered for at most 50 ms, and
  an answer whose stream was cut off without `[DONE]` stays pending until the user
  stops it (`AnswersEnd` speaks of the others).

## 4. Proofs

All theorems hold for every set of tasks, runners, calls, requests, passes,
queries, tabs and sessions, every amount, every answer and every number of
failures. They assume the `ASSUME` of the module (types of the constants) and the
side conditions in the table.

| Theorem | States | Side condition |
|---|---|---|
| `TypeCorrect`, `AtMostOneActive`, `ExecutedOnce`, `OutcomeStable` | `TypeOK`, `OneActiveTask`, `SingleExecution`, `TerminalStable` | none: stalls and late heartbeats included |
| `CrashDetectable` | `RunningHasLock` | `MaxStall < TTL` |
| `HandlersExclusive` | `OneLiveHandler` | `MaxStall < TTL`, `Timely` |
| `QuotaTypeCorrect` | `TypeOK` | none |
| `ChangesConserved` | `LedgerConserved` | none: what a rejected batched update loses is part of the property |
| `ReservationsBounded` | `OverspendBounded` | none (the property itself speaks of accounts without settlements) |
| `HashAgreesAtRest` | `CacheAgrees` | none: every kind of call, any failure, the hash lost at any moment |
| `BillingTypeCorrect` | `TypeOK` | none |
| `NeverOverRefunded` | `NoOverRefund` | marking a refunded record does not fail on its own |
| `BooksAlwaysBalance`, `SessionsImplementEscrow` | `BooksBalance`, `ImplementsEscrow` | `Exact`: no database errors, no realtime turns |
| `PollTypeCorrect` | `TypeOK` | none |
| `BilledByOne`, `FinishedForPasses` | `OneBiller`, `PassesKeepFinal` | none |
| `NothingPaidOut`, `ChargeReadable` | `NeverPaidOut`, `RowTellsCharge` | submissions settle |
| `SessionTypeCorrect`, `RotatedOnce`, `RevocationHolds` | `TypeOK`, `OneWinner`, `RevokedStaysOut` | none |
| `WebTypeCorrect`, `RefreshNeverStale`, `TabsNeverReplay` | `TypeOK`, `NoStaleRefresh`, `NoFalseReuse` | none (the property itself speaks of browsers with locks and of answers that arrive) |
| `PlaygroundTypeCorrect` | `TypeOK` | none |
| `AnswersKeepTheirText`, `NoDeadMessages`, `FinishedAnswersStay` | `OwnText`, `NothingStuck`, `FinalStays` | `Orderly`: late events may happen; the user sends once the conversation is loaded, and edits are saved over a rendered conversation |
| `ReceivedTextShows` | `ReceivedShown` | `Orderly`; every answer, cut into deltas anywhere |

The side conditions stand for behaviour of the code, listed under "Reachable as
well" and in the findings, that breaks the property. `Exact` leaves out refused
changes, after which the code logs and goes on, and the turns that a finding is
about. In `NeverOverRefunded` the one failure left out is that of marking the record,
after which `RefundSubscriptionPreConsume` lowers the usage again.

Arguments.

* `SystemTask`. `Core` adds to the properties that a row has an owner exactly
  from its claim on; execution is exclusive because only the guarded update gives
  an owner, never because of the lock. `LeaseInv` is needed for the lock: a claim
  or a sweep carries the clock of its start, so it states that the lock of a
  running task was always written later than any claim or sweep in flight read
  the clock (they cannot take it over or delete it), and that from acquisition to
  dispatch the lock row is the claim's own.
* `QuotaCache`. `LedgerConserved` is inductive with the types. `CacheAgrees` is a
  sum: `HashInv` says that a live hash plus what every call still has to apply to it
  (`Owed`, summed over the calls) is the truth plus the drift, so at rest, when
  nobody owes anything, only the drift is left. A hydration in flight needs no
  clause of its own: the drift of a new hash is taken when it is filled.
  `OverspendBounded` needs `HashInv` and `Covered`: without settlements all that is
  owed to the hash is top-ups, never a charge, so a hash admits at
  most its drift too much, and the drift never exceeds `worst`.
* `SetSums`. `SumFunctionOnSet` is a recursive function over subsets. An
  induction theorem with an operator parameter cannot be used here, so the
  induction is done with sets: the subsets for which a fact fails form a set, and
  `MinimalSubset` gives a smallest one, from which one element is taken. From it
  follow the step of a sum, that it changes by what one summand changes, and that
  it is monotone.
* `BillingSession`. `AllBooks` is one predicate per request over its handler,
  session, refund job and record: which amounts may be non-zero at which step,
  which end was reached, that a refund follows exactly from a failed request.
  `TypeOK` needs it, because amounts are subtracted. From the books each request
  has a part it has taken of wallet, subscription and token (`WalletPart`,
  `SubPart`, `TokenPart`); `Within` says that balance plus the sum of the parts is
  at most the initial balance, whatever fails, which is `NoOverRefund`;
  `Balanced` says that it is equal when nothing fails, which at the end is
  `BooksBalance`. The refinement maps a request's charge to the same parts: every
  action is one of hold, commit, release or a stutter of one client, and the pool
  moves by the change of one summand.
* `TaskPolling`. `PassesSound` says, whatever queries do, that the copy a pass or
  a sweep holds is of an unfinished row, which is why its guarded update cannot
  touch a final status. `WinInv` adds, until a query writes over the finished
  task, that the copies of a finished row are those of queries and that every
  biller stands before a final row, so a second guarded update cannot win.
  `PollInv` adds how far the biller has carried the charge from the copy's quota
  to the new amount, that a copy of a row still unfinished has its quota, and that
  nothing is charged or returned before the row is final.
* `LoginSession`. `TypeInv` adds to the types what each kind of call can be doing.
  `OneWinner` needs `WinInv`: nobody has won a secret that is still current, and
  two winners of one secret are one call. `RevokedStaysOut` needs `GoneInv`: after
  a published tombstone the row is revoked for good (`RowGone`), and for every
  call that still holds an active snapshot Redis has a deny entry that outlives
  the snapshot's deadline (`NoRevival`); so the late write finds either the deny
  entry or its deadline past. `DenyCovers` is the arithmetic: a tombstone lives a
  full TTL from a moment after the snapshot was taken, or as long as the session.
* `WebAuth`. `Follows` says of a tab that its token, an answer on its way and a
  new token on its way are never ahead of the session's row, that a refresh that
  is still current was sent for the session the tab has, and that its answer is
  not older than the tab's token. The server answers with the row's version, which
  only grows, and everything that changes a tab's store supersedes its refresh:
  except a mismatch, which forgets the session and asks again in one step.
  `NoFalseReuse` needs `Calm`: until an answer is lost there are no orphans, every
  copy of a cookie that is still to be sent is current, and the cookie of the jar
  is current too, except while the one tab that holds the lock has rotated it and
  its answer is on the way (`Renewing`).
* `Playground`. `RunUpdaters` is a fold over the queue; its one step (`RunAppend`:
  an updater added at the end runs on what the rest makes) is proved like the
  sums, by a least queue. After that the invariant speaks of `View`, the
  conversation after the queue, and `Base`, the same if the generation ended
  before the render, which a stop brings about. `TypeInv` says which request may
  hold controller, stream and abort controller (the latest, of the current
  generation), that a buffer with text has its timer armed and that while anything
  is queued the stop button is shown; the last two are why no flush comes too
  late. `SoundInv` adds that all copies of the conversation are sound (own text in
  order, unique keys, at most the last answer pending), that `View` and `Base`
  keep every finished answer of the screen, that what is pending is being
  requested, and that the running answer is the last message of `View` with the
  text and then the buffer in the order received. `ShownInv` says that the two
  together have every letter received and end with the last one: a chunk that
  replaces text begins with what it replaces, so it has all of its letters
  (`MergeShows`).

Only model-checked: liveness (`AbandonedTaskFails`, `EventuallyDurable`,
`AllFinish`, `EventuallyFinal`, `TabsSettle`, `AnswersEnd`, `SavedInTheEnd`), which
is out of the prover's reach. Every safety property that a passing run checks is
also a theorem. The inductive invariants were checked with TLC on the instances of
the runs before they were proved.

## 5. Not modelled, and the plan

Left out for good: relay adaptors and protocol conversion, settings, OAuth,
passkeys and two-factor login, logs and metrics, HTTP plumbing and the desktop
shell: no shared state that decides anything modelled here, or third party
protocols. The expression evaluator of tiered billing is an external interpreter.
Most of the front end by size is forms, tables, dialogs, generated routes and
translations of one page each: a component sends one request and shows its answer.
What of it has protocol-like behaviour, authentication and the playground, is
modelled, and it is a small share of the lines.

Parts of modelled components that are left out are named in the notes of
`PROJECT.json`: among others token quota (same scheme as the wallet), session
limits and the deletion of old session rows, the parameters and models of the
playground.

Planned, in this order:

1. Weaker side conditions where the code allows them: the refinement of `Escrow`
   for the requests whose changes are not refused, `OverspendBounded` with
   settlements that a reservation has covered.
2. Subscriptions: pre-consume records, periodic reset against late refunds,
   purchase and expiry. `BillingSession` treats the usage as one counter.
3. Top-ups, orders, redemption: duplicated and late payment callbacks, credit
   once, the ledger entry with it.
4. The user authentication cache: version fences of the user hash.
5. Discount resolution as a pure algorithm against a reference order; saturating
   quota arithmetic.
6. Channel selection with retries and automatic disabling; rate limiting.
