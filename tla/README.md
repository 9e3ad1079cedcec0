# TierFlow: a verification project

TierFlow is a gateway in front of many AI providers: a request arrives with an
API key, money is held for it, a channel to a provider is chosen (and changed
when it fails), the answer is streamed back, and the hold is settled against
what the request really cost. The code is Go (`src/tierflow-core-main`), with a
web console in TypeScript (`web/default`), a desktop shell (`electron`) and a
small agent for the machines of a cluster (`src/node-agent`). These modules
model the parts of it whose correctness depends on the order in which
concurrent steps, failures and restarts happen; TLC checks them on small
instances and TLAPS proves what is marked so below for every instance.

Paths in this file are relative to `src/tierflow-core-main` unless they begin
with `src/`.

## 1. The system

| Component | State | Operations | What makes it correct |
|---|---|---|---|
| Billing of a relayed request (`service/billing_session.go`, `funding_source.go`, bucket functions of `model/subscription.go`, key functions of `model/token.go`) | balance (`users.quota`), key quota and status (`tokens`), use of two buckets, reset time and status (`user_subscriptions`), hold records; per request a `BillingSession` in memory | authenticate, pre-consume, roll back, settle, refund (goroutine), violation fee, periodic reset, expiry | each request is charged once or not at all; a session remembers exactly what it took; a bucket is used by what its requests hold; refunds and settlements end |
| Quota cache and batch updates (`model/user_cache.go`, `token_cache.go`, `utils.go`) | Redis copies of balance and key; deltas waiting in memory | read-through fill in a goroutine, increments on both, flush | the copy converges to the row; no delta is lost or applied twice |
| Realtime billing (`relay/websocket.go`, `service/quota.go`) | balance, key, bucket | charge per response, charge at the end | the session is charged once |
| Relay retry and channel selection (`controller/relay.go`, `service/channel_select.go`, `model/channel_cache.go`, `channel.go`) | per request: tried channels and keys, retry index, group | pick, rotate key, abandon channel, give up | bounded attempts, no key tried twice, an untried channel is preferred |
| Route breaker (`pkg/routehealth/breaker.go`) | per channel or channel and key: failures in a window, trips, cooling-down time | record failure or success, filter, configure, prune | a cooling route is not used before its time, backoff is bounded, at least one route is offered |
| Subscription orders, upgrades, redemption (`model/subscription.go`, `subscription_upgrade.go`, `subscription_order_admin.go`, `redemption.go`) | orders, bills (`top_ups`), subscriptions, keys, balance, codes | gateway callback (repeated, late), upgrade from the balance, administrator's delivery, closing, expiry, refund | a payment is delivered once or visible for manual review; one price difference buys one upgrade |
| Top-ups (`controller/topup.go`, `model/topup.go`) | orders, balance | callback, manual completion, refund | a payment is credited once |
| Subscription keys (`model/subscription.go`) | keys, group of the user | issue, rotate, expire, invalidate | a key lives no longer than its subscription; the group falls back |
| Cluster (`controller/cluster_node.go`, `model/cluster_node.go`, `src/node-agent/agent.go`) | nodes, last heartbeat, channel states | heartbeat, monitor, drain, start and stop | a channel is enabled only while a healthy node backs it; a manually disabled one stays so |
| Stream scanner (`relay/helper/stream_scanner.go`) | a queue of chunks, a channel of stop signals, the write lock, the first end reason; four goroutines and one per ping | scan, queue, handle, ping, wait, clean up | what was queued is handled before the request goes on; a good end drops nothing; nobody waits for ever |
| Message capture (`service/message_store.go`, `message_session.go`) | bounded queue, daily quota, cursor | submit, write, drain | a turn is recorded whole or counted as dropped |
| Performance metrics (`pkg/perf_metrics`) | atomic buckets | record, drain, flush | each sample is counted once |
| Web console session (`web/default/src/lib/api.ts`, `stores/auth-store.ts`, `routes/_authenticated/route.tsx`, `features/auth`) | session cookie and `localStorage` of the browser; per tab the signed-in user, `sessionVerified`, requests in flight | sign in (with and without a second factor), guard, query, refuse, sign out, reload, expire | nobody is shown a page the server has not vouched for; whoever signs in gets in |
| Desktop shell (`electron/main.js`) | child process, probes, tray, windows, dialogs, quit flags | probe, retry, crash, close, show, quit | no server is left behind; the user always has a way out; starts and quits end |
| Rate limits (`common/rate-limit.go`, `common/limiter`, `middleware/model-rate-limit.go`) | windows per user | reserve, refund | never more than the limit in a window |

The components meet in the relay handler (`controller/relay.go`): it opens a
billing session, runs the retry loop over channels filtered by the breaker, and
ends in a settlement or in a deferred refund. Orders, keys and the reset task
write the rows the billing reads. Everything shared is a database row, a Redis
value, or a structure behind a mutex; the handlers run concurrently on one or
several nodes. The web console and the desktop shell are clients of the same
server: the console's state is in the browser, shared by its tabs; the shell
owns the server as a child process. The console's pages and forms (the greatest
part of the repository's lines) are presentation of what the server decides.

What is hard: almost every operation is several statements with other requests
in between; holds are given back by goroutines nobody waits for; sessions live
in memory and die with the process; callbacks repeat; time passes between a
hold and its settlement. The list of hazards, each at its line, is under
`hazards` in `PROJECT.json`.

## 2. The modules

| Module | Models |
|---|---|
| `BillingSession` | the billing of any number of requests of one user over one balance, one subscription and several keys |
| `PrepaidCharge` | what one request's charge promises: opened once, closed once, never touched again |
| `BillingSession_proofs` | type correctness, the money invariants and the ledgers of `BillingSession`, and its refinement of `PrepaidCharge` |
| `SumTheorems` | what sums over finite sets do, for the ledgers, the windows and the balance |
| `RelayRetry` | the retry loop of one request over shared channels and keys |
| `RelayRetry_proofs` | the theorems about `RelayRetry` |
| `RouteBreaker` | the circuit breaker and the relay attempts that report to it |
| `BreakerStates` | the state machine the documentation gives for the breaker |
| `RouteBreaker_proofs` | the theorems about `RouteBreaker`, the refinement of `BreakerStates` among them |
| `SubscriptionOrders` | the subscription orders of one user, from request to refund |
| `OrderDelivery` | what the orders of a user promise: one subscription for money that has come, or an administrator's decision |
| `SubscriptionOrders_proofs` | the theorems about `SubscriptionOrders`, the refinement of `OrderDelivery` among them |
| `ConsoleSession` | one browser's session of the web console, in one or several tabs |
| `ConsoleSession_proofs` | the theorems about `ConsoleSession` |
| `ElectronShell` | the main process of the desktop shell and its server |
| `ElectronShell_proofs` | the theorems about `ElectronShell` |
| `StreamScanner` | one streamed answer: scanner, queue, handler, pings and the request that waits for them |
| `StreamScanner_proofs` | the theorems about `StreamScanner` |
| `MC...` | the instances of each that TLC checks |

The modules share no variables. `BillingSession` and `RelayRetry` meet only at the
ends of a request: the loop's success is what `Answered` takes its cost from, its
failure is `Failed`. `RelayRetry` and `RouteBreaker` meet in the set of cooling
routes: `RelayRetry` takes any set, `RouteBreaker` says which. `StreamScanner` is what an
attempt does with a streamed answer, before `Answered` takes its usage. An active
subscription of `SubscriptionOrders` is the bucket of `BillingSession`, where
`EndSubscription` stands for all that may end it.

### BillingSession

*State.* The database: `wallet` (`users.quota`), `remain` and `keyStatus`
(`tokens`), `used` (both buckets), `subscription` (status, whether
`next_reset_time` has come, number of the quota period), `record` (the hold's
row that makes a refund idempotent). The process: `pc` (where the handler
stands), `refunder` and `attempts` (the goroutine `Refund` starts), `session`
(the fields of `BillingSession` and of its `FundingSource`), the values a
handler carries, and `penalty`. Auxiliary variables (`drawn`, `tokenDrawn`,
`lost`, `heldIn`, `carried`) are an auditor's book: what has really moved on
behalf of a request. No action reads them.

*Steps.* A database statement or transaction is one step. `TokenAuth` is
`ValidateUserToken` with `SetupContextForToken`; `OpenOnWallet` and
`OpenOnSubscription` are `NewBillingSession` up to its first write, trust
included; `CheckToken` and `TakeToken` the two statements of
`PreConsumeTokenQuota`; `TakeFromWallet` and `TakeFromBucket` the funding
source, the latter with the lazy reset in the same transaction;
`RollbackToken` the key's rollback. `Answered` hands the cost to `Settle`,
whose steps are `SettleNothing`, `SettleWallet`, `SettleBucket`, `SettleFails`
and `SettleToken`. `Failed` is the deferred function of the relay handler: it
starts the refund goroutine (`RefundWallet`; `RefundBucket`, `RefundBucketFails`
and `RefundBucketUnanswered`, an attempt that commits and whose answer is lost, so
that `refundWithRetry` repeats it; `RefundToken`) and goes on to the violation fee
(`ChargeFee`, `ChargeFeeToken`). `PeriodEnds`, `ResetDueSubscriptions` and
`EndSubscription` are the subscription's own life; the last disables its keys in
the same transaction. `Crash` forgets every session and goroutine.

*Abstractions.* Amounts are small numbers. The upstream's answer has any price and
any number of tokens: the ratios give no price without tokens
(`service/text_quota.go:303`), but a billing expression may, and gives the estimate
when it cannot be computed (`service/tiered_settle.go:107`). A statement that fails
has changed nothing. That it may have committed with its answer lost is modelled
where the code repeats it, in the refund of a bucket; elsewhere such a statement
leaves one hold or price too much or too few, which nothing in the code repairs.
The statuses `expired` and
`cancelled` behave alike here and are one. Which bucket a request uses is a
constant of the request (the gate decides it before billing). The store is the
database; the Redis copies and the batch updater in front of it are another
component. A request with a free model has no session and is not modelled; nor
are `Reserve` (only a test calls it), `ApplianceMode` (every operation returns
at once), a key's expiry time, and notification mails.

*Fairness.* `FairSpec` assumes weak fairness for each request's admission,
settlement, refund and fee steps and for the reset task: the Go scheduler runs
every goroutine that can run, and the task is on a ticker. It assumes nothing of
clients and upstreams.

### RelayRetry

*State.* The channel cache shared by all requests: `listed` (the pools of
`group2model2channels`), `enabled` (`MultiKeyStatusList`). One request: `pc`,
`channel` and `key` of the current attempt, `multiKey` (a context flag), `mode`
(how the first channel was found), `skipRetry`, `attempts`, `sticky`, `abandoned`
and the fields of `RetryParam` (`retry`, `resetNextTry`, `tried`, `rotations`)
with the group index of the context. `trail` and `via` are auxiliary: the attempts
made, and the group the channel came from.

*Steps.* `DistributeFromPool`, `DistributePreferred` and `DistributeRefused` are
the `Distribute` middleware; `GiveUp`, `Rotate` and `PickAgain` the head of the
loop with `getChannel`; `TakeMultiKey`, `TakeSingleKey` and `KeyNotFound` the
choice of the key in `SetupContextForSelectedChannelExcluding`, a step of its own
because the channel and its key are chosen under different locks. `Succeed`,
`FailAndRotate` and `FailOver` take the upstream's answer. `DisableKey`, `Unlist`
and `DisableSingle` are `UpdateChannelStatus` on behalf of other requests, in its
two steps for a multi-key channel: the last key first, the pools after it.

*Abstractions.* The upstream's errors are four classes by what the loop makes of
them (`Failures`). Which routes the breaker is cooling is any set, chosen anew at
each selection; which channel of a tier and which untried key is taken is any
(weights, random, polling). A channel the key names is read from the database,
taken here to agree with the cache. Not modelled: the members of a model group,
selection without the memory cache, request bodies that cannot be read again,
channels enabled, edited or deleted meanwhile. Rotation switched off is
`MaxRotations = 0`.

*Fairness.* `FairSpec` lets the handler's own steps run; an upstream may never
answer.

### RouteBreaker

*State.* `cfg` is the manager's configuration, `tracked` the keys of its table and
`entry` the entries (`open`, `fails`, `windowStart`, `until`, `trips`,
`lastChange`, with the source's names). Each attempt has a `pc`, the `scope` it
uses (a channel, or a key of a multi-key channel) and what its report has read
before it locks the entry: `snapshot`, `stamp`, and `held` (the entry it has
looked up is still in the table). `counted` is auxiliary: when the failures of a
scope since its last trip or success were counted.

*Steps.* `Select` is the availability filter over channels and then over keys,
with its fallback to all. `ReportFailure` reads configuration and clock and looks
the entry up, pruning a full table (`Get`); `CountFailure` is
`recordFailureEntry` under the lock. `ReportSuccess`, `CloseKey` and
`CloseChannel` do the same for a success, which reports to the key and then to
the channel. `Configure` sanitises what an administrator sets; `Tick` is a second.

*Abstractions.* Time is in whole seconds. A status code that does not count is
`ReportNothing`, whichever it is. `MaxSkew` bounds how long a report waits for
the lock of its entry: without a bound a report might come from before a whole
cool-down, and `CoolDownStands` would not hold. The snapshot for the monitor
changes nothing and is left out.

*Fairness.* None: an attempt may never report, and no liveness is claimed.

### SubscriptionOrders

*State.* The rows of one user: `orders` (with `from`, the source of an upgrade,
`sub`, what `UserSubscriptionId` names, and `worth`, what `ProviderPayload`
records of the source), `mirror` (the status of the bill in `top_ups`), `subs`,
`quota`, and which `plans` are not deleted. `session` holds the requests that are
between their two steps. `paid` and `told` are the payment gateway: what it has
collected, and which callbacks were answered so that it stops. `delivered` is
auxiliary: the subscriptions each order has produced.

*Steps.* `AskEpay` and `RequestEpay` are the check and the insertion of an online
order; `PurchaseWithBalance` and `Redeem` are one transaction each;
`BeginUpgrade` with `UpgradeWithBalance` or `CreateUpgradeOrder` the two ways to
upgrade. `Pay` is the user's; `Complete`, `Review` and `AlreadyDone` are
`CompleteSubscriptionOrder`, called by the gateway as often as it likes.
`Expire`, `AdminDeliver`, `AdminClose`, `AdminRefund`, `AdminInvalidate`,
`AdminDeletePlan` and `SubEnds` are the administrator and time.

*Abstractions.* A transaction that locks one row is a step. Under READ COMMITTED
the transactions of the upgrades are not: they update the pending orders they
see (`held`, whose rows others then wait for) before they lock the source.
Prices and worths are small numbers. That 30 minutes have passed since an
upgrade order was made is a choice at each callback. Keys, groups, logs and
notifications are left out, as are an administrator's binding and hard deletion
of subscriptions.

*Fairness.* None: users need not pay and gateways need not call.

### ConsoleSession

*State.* The browser: `cookie`, and `localStorage` with `uid` and `saved` (the
user). Each tab: `user` (the auth store), `verified` (`sessionVerified`), the
`page` it shows, the `task` of its form with the `pending` user, the `GET
/api/user/self` in flight (`self`, with those who await it) and the other
requests in flight (`data`). `vouched` is auxiliary: users the server has named
to this load of the tab.

*Steps.* `Visit` and `Enter` are a navigation and the `beforeLoad` guard up to its
await; `StartSignIn`, `LoginAnswered`, `CodeAnswered` and `LoginFailed` the
sign-in form; `SelfAnswered`, `SelfRefused` and `SelfLost` what every waiter of
`getSelf` does with its answer; `Query`, `DataAnswered` and `DataRefused` a page's
requests with the 401 interceptor; `SignOut`, `LogoutAnswered`, `Reload` and
`Expire` the ends of a session.

*Abstractions.* The server keeps its sessions in the cookie, so an answer is
settled by the cookie and the `TF-User` header a request was sent with
(`Answer`), and arrives any time later. A tab's GETs of one URL are joined
(`Joined`). Third-party sign-in, registration, passkeys and the wording of errors
are left out.

*Fairness.* Answers come, navigations are carried out, a sign-out ends (weak);
a page of the console keeps asking, a refused one is in the end a query, and the
user who wants in keeps signing in (strong, since a page is there only now and
then).

### ElectronShell

*State.* `startup` (the promise of `startServer`), `attempts` and `probes` (requests
open, destroyed by a timeout, and waiting to be repeated), the child process
(`server`, its exit `code`, whether its close event is still `closing`, `handle`),
`portTaken`, the windows (`window` is `mainWindow`; a `stray` is one that it does not
name any more), `tray`, `dialogs`, and the flags of a quit.

*Steps.* Each event handler of `electron/main.js` is an action: `ProbeAnswered`,
`ProbeRefused`, `ProbeTimeout`, `ProbeDestroyed` and `Reconnect`; `ServerListens`,
`ServerExits`, `SpawnFails` and `ServerClosed`; `DialogAnswered`, `TrayQuit`,
`MenuQuit` (each with `before-quit`, which is `Quit`) and `GraceOver`;
`CloseWindow`, `CloseStray`, `ShowWindow` and `Activate`.

*Abstractions.* Log files, the analysis of error texts and the dock icon are left
out, and so is the development mode.

*Fairness.* Probes are answered or time out, timers run out, a close event is
handled and a dialog is read. Nobody need quit and a server need never end.

### StreamScanner

*State.* Where each goroutine stands: `scanner`, `handler`, `ping` with the `writer`
of its current ping, and `main`, the request's own. The queue is counted:
`received` (`ReceivedResponseCount`), `sent` and `taken` chunks of `dataChan`, and
whether it is `closed`; `handled` counts the chunks whose `dataHandler` has
returned. `tokens` is the number of values in `stopChan`, `mutex` the holder of
`writeMutex`, `reason` the `EndReason`, `gone` a client that has left. `result` and
`expired` are auxiliary: how the handler ended, and whether `main` gave up waiting.

*Steps.* `LineStopped`, `ReadChunk`, `ReadDone` and `BodyEnds` are one line for the
scanner, `Push` and `PushStopped` its `select` at the queue. `Take`, `Lock`, `Handle`
and `HandlePanics` are one chunk for the handler, which `QueueEnds` ends. `PingDue`
starts a writer (`WriterLocks`, `WriterWrites`), whose outcome the ping goroutine
awaits (`PingWritten`, `PingExpires`, `PingStopped`). `MainStopped`,
`MainClientGone` and `MainTimeout` are the last `select`; `MainSignals` and
`MainReturns` the deferred cleanup, the latter with the closing of `stopChan` and
of the body. The deferred function of each goroutine that ends is a step of its
own (`ScannerSignals`, `HandlerSignals`), after its `wg.Done`.

*Abstractions.* The values in `stopChan` are equal, so their number is enough;
which of several receivers gets one is open, as in Go. Times are left out: a limit
may run out at any moment. Lines that are no chunks change nothing. Panics of the
scanner and of a ping, and soft errors the handler records, are left out.

*Fairness.* Weak for every step of a goroutine that can go on, and strong for the
two that take `writeMutex`, since Go's mutex starves nobody. None for the upstream,
which may send nothing for ever until its body is closed, nor for a limit, except
that `main` does not wait for the others for ever.

## 3. What TLC checks

A property that is proved for every instance is checked in one run only.

| Run | Instance | Checks |
|---|---|---|
| `billing_wallet` | two requests, one limited key, one balance of 4, prices 0, 1, 3, trust above 3, one failing statement, one crash | `StoreMatchesSessions`, `ImplementsPrepaidCharge` |
| `billing_buckets` | one premium and one basic request on one subscription, buckets of 3, prices 0, 2, 4, prices without tokens and tokens without a price, one period's end, expiry or deletion, one failing statement or lost answer, one crash; 3.7 million states | `TypeOK`, `BooksAgree`, `ChargedOnceOrNotAtAll`, `NeverOvercharged`, `BucketMatchesSessions` |
| `billing_liveness` | one wallet and one premium request, one failing statement, one period's end | `RefundFinishes`, `SettlementFinishes` |
| `relay_keys` | two groups of two tiers, two of the three channels with three keys; two retries, one rotation per channel, two disablings | `TypeOK`, `KeysTriedOnce`, `RotationsAreFree`, `RotationStays`, `FailsOver`, `EndsOrWaits` |
| `relay_rotated_groups` | the same groups with the tiers the other way round, one retry | `GroupsBeginAtTop`, violated |
| `breaker` | two attempts, one multi-key channel with the scopes of one key and of itself, two configurations, one reconfiguration, windows of 3 and 4 seconds, a table pruned at one entry, a clock of 7 seconds, a skew of 1 | `TypeOK`, `NeverWedged`, `BurstTrips`, `FollowsDocument`, `CoolDownStands`, `TripsOnRecentFailures` |
| `orders` | three orders, three subscriptions, two requests at a time, plans of price 2 and 3, a limit of 2, a balance of 4, one step of an administrator or end of a subscription | `TypeOK`, `DeliversWhatWasPaid`, `TradedInOnce`, `PaymentTraced`, `WalletAgrees`, `PurchasesAsAllowed` |
| `orders_refund` | the same | `RefundRevokes`, violated |
| `console` | one or two tabs, two accounts, four troubles with one tab and one with two | `TypeOK`, `ShownUserWasVouchedFor`, `ActsAsShown`, `SignInWorks` |
| `shell` | three probes instead of thirty, a port that may be taken | `TypeOK`, `NoOrphanServer`, `UserHasAHandle`, `StartupSettles`, `QuitFinishes`, `CrashEndsApp` |
| `stream` | a queue of two chunks instead of ten, four chunks, two pings or none | `TypeOK`, `NothingLost`, `EverybodyLeaves` |
| `stream_stop` | the same | `StopIsHeard`, violated |

*Bounds: billing.* Two requests, since every property that relates requests
relates two: two on one balance and one key, and one on each bucket of a
subscription. The balance and the key are just too small for both, and a bucket
for the dearest price, so that every refusal happens; the trust limit lies between two of the values, so that
both branches are taken; one failing statement reaches each error path and each
pair of a failure with another request's step, and a refund that has committed is
repeated; one end of a period is enough for
a hold of the previous period to be settled in the next. More of each repeats
the same situations.

*Relay.* A single request is enough, since requests share nothing but the cache,
which the environment's steps change at any moment. One channel on the upper tier
and one or two on the lower reach every case of the selection (an only channel, a
tier with a fresh channel, one all given up, the clamped last tier) and of the
change of groups; three keys leave one over after the single rotation; two
disablings empty the two-key channel, so that it leaves the pools.

*Breaker.* Two reports overlap; a third would only repeat what the second does to
the first's entry. Seven seconds are enough for a scope to trip, cool down, fail its
probe and reach the greatest cool-down, with windows of three and four seconds (a
window shorter than twice the wait for the lock leaves no burst to speak of) and
thresholds of two and three. A table that prunes beyond one entry prunes at every
report about the other scope.

*Orders.* Three orders make two upgrades of one subscription, or two renewals and
an upgrade; prices 2 and 3 with a worth of 1 make the dearer plan cost what the
cheaper one did, so that mixing them up shows in the balance of 4. One step of
help is enough to expire an order, or to end the source while it is paid for.

*Console.* A trouble is an expiry, a reload, a sign-out, a lost answer, a sign-in of
the other user or one while an earlier request is in flight: four suffice for a
sign-out, a sign-in of another, an expiry and an answer of the first session that
arrives in the third. With two tabs the state grows fast and one trouble is kept:
it is enough for one tab to sign out under the other. A user restored from what
another tab has saved needs a reload besides: with a second trouble for the two tabs
the run passes too (1.3 million states) but takes about four minutes, so one is kept
here, and the theorem `ShownUserVouchedFor` covers any number of tabs and troubles.

*Shell.* Three probes make both chains of a time-out reach the last attempt, in
either order.

*Stream.* Of four chunks one can be handled, two queued and one waiting for the
queue when the stream ends, so that each wait of the scanner is met with a full and
with an empty queue. The second ping comes after one that was written. A larger
queue only adds states in which nobody waits.

*Findings.* Three runs show places where the code does not do what it says.

- `orders_refund`: a purchase from the balance is refunded and its subscription
  stays active, since its order does not name it (`model/subscription.go:1173`,
  against the comments at `model/subscription.go:268` and
  `model/subscription_order_admin.go:290`).
- `relay_rotated_groups`: a key rotation in the last attempt of a group makes the
  next group start at its second priority (`controller/relay.go:289`, with
  `service/channel_select.go:189`).
- `stream_stop`: a handler that has stopped the stream sends one signal, which the
  ping goroutine may take and not pass on (`relay/helper/stream_scanner.go:188`,
  against `relay/helper/stream_result.go:38`). Then the request waits, with nobody
  to take chunks, until the body ends, the client leaves or the streaming timeout
  runs out.

*Observations.* Reading the code for the models showed other places where it does
not do what one expects. No run is about these, and the models follow the code.

- Billing: settling a basic-bucket request is skipped when its quota cost happens
  to equal the estimate in tokens (`service/billing_session.go:75`), so that the
  bucket keeps the estimate and `ChargedOnceOrNotAtAll` says so; a key is
  stored as exhausted when its quota is only held by a request that may give it
  back (`model/token.go:221`).
- Relay: a retry beyond the last tier repeats a failed channel while others were
  never tried (`model/channel_cache.go:172`); a channel picked again without a key
  left ends the request instead of switching channels (`controller/relay.go:220`);
  the first attempt is sent without a key when the last one was just disabled
  (`middleware/distributor.go:163`).
- Breaker: the document calls the failure window a sliding one
  (`docs/high-availability-routing.md:61`), the code counts in windows that begin
  with a failure, so that up to 2 * threshold - 3 failures within a window's length
  need not trip. With reports that wait for the lock even more may pass: a report
  with an old clock restarts the window at its own time, and three windows may fall
  within one window's length. `BurstTrips` is therefore stated for a burst
  (`Burst`: the shortest window less the wait at both ends), which falls into two
  windows at most; pruning also removes the
  entries that never tripped (`pkg/routehealth/breaker.go:168`); failures of attempts
  sent before a trip count as a failed probe once the cool-down is over
  (`pkg/routehealth/breaker.go:235`).
- Orders: of two requests to upgrade the same subscription each may leave a pending
  order, because each expires the orders it sees before it locks the source
  (`model/subscription_upgrade.go:110`); the later payment then goes to manual
  review, so that `TradedInOnce` and `PaymentTraced` hold. The callback of an upgrade
  takes no lock of the user. Refunding an upgrade and then the order that bought
  its source credits the source's worth twice. `RotateSubscriptionToken` checks that
  the subscription is active before its transaction (`model/subscription.go:677`).
- Stream: a ping is written by a goroutine that is not in the `WaitGroup`
  (`relay/helper/stream_scanner.go:140`), so that it may write after
  `StreamScannerHandler` has returned; a panic of `dataHandler` leaves `writeMutex`
  locked (`relay/helper/stream_scanner.go:193`), so that such a ping waits for ever
  (`EverybodyLeaves` says so); the body is closed only after the wait for the
  goroutines (deferred first, line 47), so that a scanner that waits for a silent
  upstream may cost the request the full five seconds.
- Console: tabs share `localStorage` and do not listen to it, so a tab may act
  under another name than the one it shows once another tab has signed in;
  `ActsAsShown` is stated for one tab only.
- Shell: a program that already listens on the port is taken for the server
  (`electron/main.js:193`); after a normal end of the server the window is to be
  closed (`electron/main.js:369`), but its close handler only hides it, and the
  application stays in the tray.
- Not modelled yet: a realtime session charges each response and then the total
  (`relay/websocket.go:15`); the writer of captured messages may drain its queue
  before the last submit (`service/message_store.go:120`).

## 4. What is proved

Everything in this section holds for every value of the constants that the
assumptions of the modules allow: `ConstantsAssumption` (billing),
`RetryAssumption` (relay), `BreakerAssumption` and `PowerAssumption` (breaker),
`OrdersAssumption` (orders), `ConsoleAssumption` (console), `ShellAssumption`
(desktop shell) and `StreamAssumption` (stream).

*BillingSession, types.* `TypeCorrect`. The type invariant is strengthened with
`PeriodOK` (a reset is due only while the bound on periods leaves room for one),
which the two resets need. One lemma per part of `Next` (admission, settlement,
refund and fee, the environment), each with one case per action.

*BillingSession, money*. `BooksAlwaysAgree`,
`ChargedOnce`, `NothingOvercharged` and `ChargesArePrepaid`. None of them is inductive: what a
request may have taken depends on where its handler and its refund goroutine
stand. `StageInv` says, for each stage, what the session remembers and what the
auditor's book shows (nothing before the key pays, the hold on the key alone while
the funding source is asked, ..., the price or the hold at the end), relative to
the type invariant; its part `StageRecord` says that a refund which has committed,
known to the goroutine or not, has left nothing drawn and is not called lost. A step moves one request, so a frame lemma carries the
invariant of the others (`Same`, `Frame`), and one lemma per part of `Next` shows
the request that moves (`StageAdmission`, `StageSettlement`, `StageRefund`,
`StageEnvironment`). The first three follow from `StageInv` without further
steps. `ChargesArePrepaid` is the refinement of `PrepaidCharge`: the same lemmas
show that a step makes one of the ideal moves on the charge of the request that
takes it (`Advance`) or, for a crash and the end of a period, at most leaves open
charges with their hold (`Stays`); `OneAdvances` and `AllStay` turn that into a
step of the abstract specification. The phase is a function of the stage, so
`StageInv` is what shows that a closed charge does not move: a refund statement
is only ever sent while the phase is open, with `amount > 0`.

*BillingSession, ledgers.* `StoreMatches` and `BucketMatches`: the rows that all
requests share move by what the requests' draws add up to. `MoneyMoves` says what
a step may do to the balance and the keys (`MoneyStep`: one request draws or gives
back on one ledger and its book says the same, or is fined, or nothing moves), its
counterpart for the buckets is `BucketStep`. The inductive invariant `Ledgers` has
the sums themselves (`WalletBalanced`, `KeyBalanced`, `BucketBalanced`) and what
they rest on: a request is fined once (`FeesOnce`), without a crash every statement
that moved money is booked (`NobodyHarmed`), and no hold is of a period to come
(`HeldInPast`, so that a reset finds nothing held in the new one). That the sums
over one key's requests and over one period's are sums over all requests with the
others as zero is `SumPart`. `ConstantsAssumption` makes the requests finitely many.

*Sums* (`SumTheorems`). `SumFunctionOnSet` of the community modules is a fold, which
is defined by `CHOOSE` of a recursive function: the module proves that there is such
a function on the subsets of a finite set (`SumsExist`), that two agree
(`SumsUnique`), and with them that a sum is any one of its terms and the sum of the
others (`SumRemove`), moves as one term moves (`SumMoves`), and over a part is at
most the whole (`SumAtMost`) and the sum of the restricted terms (`SumPart`). Each is
an induction over the subsets, put as a smallest counterexample: the strict subsets
of a finite set are well-founded (`FS_StrictSubsetOrderingWellFounded`), and `WFMin`
gives a least set that violates the claim without an operator parameter.

*RelayRetry* (`RelayRetry_proofs`). `TypeCorrect` (which bounds rotations,
attempts and the retry index), `KeysAreTriedOnce`, `RotationsStay`,
`RotationsCostNoRetry` and `FailoverLeaves`. The inductive invariant `IInv` says
that the request's memory agrees with its trail: `Position` (where the loop
stands, what budgets it has passed), `Remembered` (each multi-key attempt's key is
in `tried`, except that the first may have had none) and `Sticking` (a sticky
channel is the last one used and has several keys).
`SendStep` is the only step that appends to the trail; every other is `Quiet`.
`RotationsCostNoRetry` needs an account of the attempts at every stage (`Budget`):
in the first group no reset is pending, and a rotation decided on but not yet made
(`Ahead`) is one attempt paid for; `GroupStep` shows that whoever stays in the
first group has met no reset. `FailoverLeaves` rests on the selection alone
(`ReturnsOnlyWhenSpent`): the filter gives back an abandoned channel only when its
whole tier is abandoned. `RetryAssumption` makes the channels finitely many, as
the pools count them.

*RouteBreaker* (`RouteBreaker_proofs`). `TypeCorrect`, `NeverWedgedAlways`,
`CoolDownsStand` and `DocumentFollowed`. Two assumptions need a word:
`BreakerAssumption` makes the wait for an entry's lock shorter than any cool-down
(`MaxSkew`), and `PowerAssumption` says that the powers of two the back-off uses
are positive numbers, which the provers do not know; TLC evaluates both. The
inductive invariant `IInv` strengthens the types by what an entry may look like
(`EntryInv`: it changed in the past, it tripped at most once per second, its
cool-down is one of a configuration) and by how old a report may be. `StepChanges`
says what any step does to the entries (one is recorded on, or some that are not
open are pruned); the preservation of the invariant (`EntriesKept`,
`AttemptsKept`, `TablesKept`) and both action properties rest on it. The refinement
shows that a step moves one scope of the documented machine, or lets the
cool-downs end that the clock has passed, or stutters.

`BurstsTrip` and `TripsAreRecent` count failures over time. The invariant
(`CountsInv`) relates the counter of an entry to the failures since three instants
near the start of its window (`Counting`): the counter is at most those since the
window began less the wait for the lock, at least those since it began plus the
wait, and with the failures of before there are never enough for two full windows.
`NewWindow` and `SameWindow` show that a failure that begins a window, or counts in
it, keeps this; `CountedKeeps` that it keeps the bound on every burst (`Bursts`);
`StepCounts` that a step does this to one entry, and that every other step either
forgets the failures of an entry or leaves it. An attempt at the stronger claim, for
every window's length, failed at three windows and waits for the lock: it was true
of the small instance only, and is now stated as above.

*SubscriptionOrders* (`SubscriptionOrders_proofs`). `TypeCorrect`, `PromiseKept`,
`TradedInOnceAlways`, `PaymentTracedAlways`, `PurchaseRulesHold` and
`WalletAlwaysAgrees`. The inductive invariant `IInv` adds to the types that each
order's bill follows its status and its payment (`Traced`), that what was delivered
is one subscription whose source is over (`Once`), that an upgrade is dearer than its
source (`Dearer`, without which a late payment could trade a source for a cheaper
plan), that two delivered upgrades have two sources (`Unique`), and that the rows
held by requests under way stay pending and are held by one of them (`Holding`,
`Disjoint`). `SubsMove`, `OrderMove` and `SessionMove` say what any step may do to
one subscription, order or request; `SubsLast` that a subscription keeps its plan and
does not come back; `EnteredStep` that a plan is entered as the guard allows or by an
upgrade, which is the action half of `PurchaseRulesHold`; `LockedKept` that a held row stays as it is. Each conjunct is
then kept by the moves, whichever action makes them.
`PromiseKept` is the refinement of `OrderDelivery`: a step moves one order of the
promise (`Goes`, with the rows an upgrade expires staying open) and produces at most
one subscription, which was none before (`Production`, with `Born`: what was
delivered exists), so that an order delivers once and no two deliver the same one.
For `WalletAlwaysAgrees` a step either leaves each order's effect on the balance
(`Kept`) or books one (`Booked`: a charge, or the refund of what `Balance` says);
the sum then moves with the balance (`WalletStep`).

*ConsoleSession* (`ConsoleSession_proofs`). `TypeCorrect`, `ShownUserVouchedFor` and
`SingleTabActsAsShown`. The inductive invariant holds of each tab: `Known` (the user
of a tab past the guard was named by the server), `Forms` (a form that signs in has
no user yet), `Guarded` (pages ask for data, and wait for `GET /api/user/self`, only
behind the guard, which a load passes once with nothing else in flight) and `Alone`
(what `localStorage` holds for a single tab is what that tab has put there). The
last two are why a late answer of an earlier session cannot put another name on a
single tab. `Locality` says that a step moves one tab, and of the others shares
only the browser; `TabKeeps` that the one that moves keeps its part.

*ElectronShell* (`ElectronShell_proofs`). `TypeCorrect`, `NoServerLeft` and
`UserAlwaysHasAHandle`. The inductive invariant adds `Held` (a child process is
forgotten, and its close event comes, only when it has ended, without which a quit
that finds no process could leave one) and `Told` (a decided start has left an icon
or a dialog, and a dialog goes only with a quit).

*StreamScanner* (`StreamScanner_proofs`). `TypeCorrect`, `NothingIsLost` and
`SignalsNeverBlock`. The inductive invariant adds to the types where the chunks are
(`Counts`: the scanner has at most one that is not queued, the handler at most one
that is not handled), how things end (`Endings`: a handler that did not stop has
ended with the queue, a good end comes with the last chunk queued) and that a
`main` that has waited has seen all three leave (`Waited`). That no sender of a stop
signal blocks needs `Slots`: `stopChan` holds at most one value of each of the three
that have sent theirs.

Model-checked only: the liveness properties (`RefundFinishes`,
`SettlementFinishes`, `EndsOrWaits`, `SignInWorks`, `StartupSettles`, `QuitFinishes`,
`CrashEndsApp` and `EverybodyLeaves`), since fairness and `ENABLED` are out of the
prover's reach. Every invariant and every action property that a passing run checks
is proved.

## 5. Plan

1. `ClusterNodes`: heartbeat against monitor.
2. `TopUpOrders`, against the promise of `OrderDelivery`.
3. `SubscriptionKeys`, `QuotaCache`, `RealtimeBilling`, `MessageStore`, metrics and
   limits; the model-group members of the retry loop.

## 6. Not modelled

- The pages, forms and charts of the web console: they present what the server
  decides, keep state of one component only, and the server checks everything
  again. They are most of the repository's TypeScript, which is why the map covers
  a small share of those lines: what runs concurrently is in the Go code, and in
  the two TypeScript and JavaScript parts modelled here.
- Pricing expressions (floating point), provider adaptors and format conversion
  (data without shared state), the console's API, accounts and OAuth (single-row
  operations), third-party sign-in, translations, deployment scripts.
- Of modelled parts: the development mode of the desktop shell, an
  administrator's binding and hard deletion of subscriptions, the members of a
  model group.
