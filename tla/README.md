# Verification of the Hawk collector

TLA+ specifications of the collector (Go, `cmd/` and `pkg/`), the TLC
configurations that check them on small instances, and TLAPS proofs of their
safety properties for every value of the constants. The specifications are
translated from the code; where a comment quotes the repository's README, the
quotation is what a property states, never what an action does.

    tlc -workers 2 -config Broker.cfg MCBroker      # one run
    tlapm RateLimit_proofs.tla                      # the proofs of one module

`PROJECT.json` lists runs, mutants, hazards, findings, theorems and, for every
definition that models code, the lines it stands for.

## 1. The system

The collector receives error events (JSON, Sentry envelopes, websocket messages)
and releases over HTTP, decides whether their project may send them, and hands
what it accepts to RabbitMQ.

| component | code | state it keeps | operations |
|---|---|---|---|
| server | `pkg/server/server.go` | none | `handler`: blacklist, count the IP, dispatch, recover from panics; `UpdateBlacklist` |
| error handlers | `pkg/server/errorshandler` | Prometheus counters | `HandleHTTP`, `HandleSentry`, `process` |
| websocket transport | `handler_websocket.go` | open connections; counters and a gauge | `HandleWebsocket`, `sendAnswerWebsocket` |
| release handler | `pkg/server/releasehandler` | none | `HandleHTTP`, `process` |
| rate limiter | `pkg/redis/client.go` 226-287 | the hash `rate_limits` in Redis | `UpdateRateLimit` and its Lua script |
| blocked projects | `pkg/redis/client.go` 42-144, 179-191 | `blockedIDs` | `LoadBlockedIDs`, `IsBlocked` |
| IP blacklist | `pkg/redis/client.go` 70-91, 146-216 | `blacklistIPs`; two hashes and a set in Redis | `CheckBlacklist`, `IncrementIP`, `LoadBlacklist` |
| accounts | `pkg/accounts` | `validTokens`, `projectLimits` | `UpdateTokenCache`, `UpdateProjectsLimitsCache`, lookups |
| broker | `pkg/broker`, `cmd/error.go` | the channel `Chan`, one AMQP connection | `Init` (the goroutine), `Publish`, `FailOnError` |
| periodic tasks, startup | `pkg/periodic`, `cmd/collector/main.go` | tickers | `RunPeriodically`, `Execute` |
| project metrics | `handler.go` 136-193, `pkg/redis/client.go` 289-415 | Redis TimeSeries keys | `recordProjectMetrics`, `SafeTSAdd` and what it calls |
| health, metrics, catcher | `health.go`, `pkg/metrics`, `pkg/hawk` | none | |

How they interact. fasthttp runs each request in a goroutine of its own. A
handler reads the three caches one after the other, each as it is at that
moment (the blocked list under a read lock, the two caches of accounts without
one); four goroutines of `RunPeriodically` replace the caches
and the blacklist meanwhile, each by one assignment after its queries. Redis and
MongoDB are shared with other services, which change them at any time. An accepted message goes
through the unbuffered channel `Broker.Chan` to the only goroutine that
publishes. There the handler's part ends: it answers 200 when the goroutine has
received the message, not when RabbitMQ has it. Any error in the broker ends the
process (`FailOnError`), and a restarted one begins with empty caches. An accepted
event is then added to three time series of its project, in Redis, before its
client gets the answer. A websocket connection has one goroutine for as long as
it is open, which takes one message after the other through the same `process`.

What is hard: calls of the rate limiter whose clock readings reach Redis out of
order, whose replies are lost and whose limits are out of date; caches that are
replaced between two gates of one request; three collections joined without a
transaction; counters read and deleted by separate commands while they are
incremented; a series that several handlers find missing and create; a
websocket that can end at any point between two messages; a goroutine that all
handlers depend on; a connection that fails
without notice, and that waits for as long as RabbitMQ's alarm lasts; calls that have
no timeout at all (the send into `Chan`, a websocket answer, an alert); a death
between the answer and the delivery. `PROJECT.json` lists these hazards at their lines with the properties that watch them.

What makes each part correct:

- rate limiter: no window admits more than the limit, windows never go back, no
  event is refused while the limit has not been used;
- handlers: the answer says what happened to the message; a refused project gets
  nothing accepted once the refusal is installed, and one with limits none without
  them once they are; every accepted event under a limit has a permit of its own;
  every request is answered, as far as RabbitMQ allows;
- accounts: the limits are the documented ones for every project that did not
  change meanwhile; both caches converge to the database;
- broker: every accepted message has one fate, in order, and a lost one a cause;
- blacklist: every address has a count, a busy one its own as long as Redis keeps the
  order of the hash, no request is in two reports, and edits of the set take effect
  unless an alert hangs;
- project metrics: every accepted event is in each series once, and minutes,
  hours and days agree;
- websocket: answers match messages, the counters match what happened on every
  way a connection can end, bans reach open connections, closed ones end unless
  the broker or the client holds them up.

## 2. The modules

| module | models | state and actions |
|---|---|---|
| `RateWindow` | the Lua script as operators | `Opens`, `Allows`, `Updated` on a window `timestamp:count` |
| `RateLimit` | `UpdateRateLimit` called by many goroutines | `Invoke` (reads the clock), `Execute`, `ReplyLost` (the script ran, the caller got an error or the library repeats the command), `Unreachable`, `Return`, `Tick` |
| `RateLimit_proofs` | proofs: the limit, the window's start, bursts, refusals | |
| `Handoff` | abstract: what the broker promises for an accepted message | `Accept`, `Deliver`, `Lose` |
| `Broker` | channel, goroutine, connection, process | `Send`, `Receive`, `Publish`, `PublishFails`, `Crash`, `Restart`; the network: `Arrive`, `Block`, `Unblock`, `Break`, `Notice` |
| `Broker_proofs` | proofs: one place for each message, causes of losses, the refinement of `Handoff` | |
| `Collector` | handlers and the caches they consult, startup, death | one action for each gate (`Parse`, `GetValidToken`, `GetProjectLimits`, `IsBlocked`, `Unlimited`, `ReadClock`, `RunScript`, `RedisFails`, `ReadFiles`, `Send`, `Reply`), read and install of each cache, `LoadFails`, `Start`, `Crash`; RabbitMQ: `Stall`, `Resume` |
| `Collector_proofs` | proofs: true answers, refusals, known limits, permits | |
| `Accounts` | the join of plans, workspaces and projects; the token table | `ReadPlans`, `ReadWorkspaces`, `ReadProjects`, `InstallLimits`, `LimitsFail`, `ReadTokens`, `InstallTokens`; `Change...` by other services |
| `Accounts_proofs` | proofs: untouched projects have the documented limits | |
| `Blacklist` | requests counted by address; `UpdateBlacklist` | `Counted`, `CountedInAll`, `TurnedAway`, the commands `ReadKeys`, `ReadSet`, `ReadValues`, `Delete`, then for each address `Skip` or `Notify`, and `Finish`; `Retry`, `CountedAgain` (a command executed twice) |
| `Blacklist_proofs` | proofs: counts beside addresses, no request in two reports | |
| `Metrics` | one metric of one project in its series | `Accept`, `Stamp` (the clock is read), `Add`, and for a missing series `Exists`, `Create`, `AddAgain`; `Fault` (a command fails, or only its reply is lost), `Tick`, `Crash` |
| `Metrics_proofs` | proofs: every event counted once, nested buckets | |
| `Websocket` | connections of one project | `Request`, `UpgradeFails`, `NeverCalled`, `Begin`; the loop `Read`, `Gate`, `Send`, `Write`, and `WriteWaits` when the client reads no answers; the ends `ReadTooLarge`, `ReadClose`, `ReadFails`, `WriteFails`, each followed by `Leave` (the deferred decrement of the gauge); clients write, close, are lost; `Block`, `Unblock`, `Stall`, `Resume`, `Crash` |
| `Websocket_proofs` | proofs: bans, answers, doubt, counters | |
| `DataLemmas` | lemmas about data that the proofs share: appending, induction over naturals and finite sets, cardinalities, extremes, sums | |
| `MC...` | instances for TLC | values of the constants, symmetry sets |

How they compose. `Collector` runs the script of `RateWindow` in its `RunScript`
action and takes the broker at its word: `Send` is `Accept` of `Handoff`, possible
while `Stall` does not hold the goroutine up.
`Broker` is shown to implement `Handoff` (`ImplementsHandoff`, with
`accepted <- taken` as the refinement mapping), so what `Collector` assumes of
the channel is what the channel does; that a waiting handler is taken in the end
is `HandlersMoveOn` there. `Websocket` sends through the same `Handoff`; its `Gate` is
the gates of `Collector` in one step, for what matters to a connection is that
they are passed anew for each message. `Metrics` begins where `Send` of `Collector`
ends. `Collector` leaves the value of a project's limits
open (`LimitChoices`); `Accounts` is where they are worked out.

Abstractions worth knowing:

- A request is what its gates do with it. Sizes, JSON, headers, decompression
  and the form are choices between the outcomes of `Parse...` and `ReadFiles`;
  which outcome comes about is data.
- The rate-limit calls of `Collector` carry any reading of `Moments`, in any order
  and any number of periods apart. What follows when readings are not too old is
  `RateLimit`'s subject.
- RabbitMQ's alarm is one variable, `stalled`, in `Collector` and `Websocket`: the
  goroutine of the channel is in a write and receives nothing. `Broker` has the
  connection, its buffer and the message in hand.
- Reading one collection or one Redis set is one step. MongoDB does not promise
  a snapshot within a cursor; `Accounts` has changes between the three
  collections and not inside one.
- The two caches of accounts are replaced and read without a lock, a data race in
  the terms of Go. They are pointers to maps that are complete before they are
  stored: on amd64, where stores become visible in order, a reader gets the old
  map or the new one, and that choice is when `InstallTokens` and `InstallLimits`
  take place. Outcomes the memory model of Go permits beyond that are not modelled,
  and no property here speaks about them.
- Whether TS.ADD creates a missing series or fails is the choice `addCreates`,
  made once: RedisTimeSeries creates it, the code is written for the other answer
  and `Metrics` checks both.
- A websocket message is well formed or not, within its rate limit or not, as
  `Gate` chooses; only the ban is state, because only a ban has to reach a
  connection that is already open.
- A websocket client that reads no answers leaves the goroutine in `WriteMessage`
  (`stuck`), at any answer, for as long as it likes: the buffers in between are not
  modelled. A connection between the count of its error and the deferred decrement
  of the gauge is `leaving`. `ErrorsRejectedMessageTooLarge` is left out of the counters: the
  HTTP and Sentry handlers increment it too (handler_http.go:15,
  handler_sentry.go:28), so that nothing follows for connections. `Refusal` stands
  for every Code but 200.
- Redis keeps the fields of the blacklist's hash in the order they were inserted
  only until there are too many of them or one is too long - and a field is
  what a client sends in X-Forwarded-For. Either may happen whenever a field is added
  (`scattered`); from then on HKEYS and HVALS each read the fields in any order, and
  a new hash starts over. One collector writes it.
- An alert is sent or fails, or is never answered: the HTTP client has no timeout
  (notify.go:15), and nothing forces `Notify`.
- The steps of `handler` before the dispatch are in `Blacklist`, those after it
  in `Collector`: they share nothing but the request.
- History variables (`admitted`, `counted`, `steady`, `enforced`, `barred`,
  `covered`, `windows`, `taken`, `delivered`, `lost`, `untouched`, `exact`,
  `reported`, `due`, `owners`, `inOrder`, `alerted`, `cut`) record what properties
  speak about; no guard reads one, but for
  `Send` of `Broker`, where `taken` says that a request is handled once.
- Each module has mutants, definitions whose comment says so: plausible slips in
  the code a property must notice. They are used by no specification.

## 3. The runs

| run | instance | what it shows |
|---|---|---|
| `ratelimit` | 2 projects, one with N = 1 or 2 and T = 2 s, one without a limit, 2 calls, 5 s, readings up to 2 s old | `WithinLimit` while limits change under calls in flight; `WindowsMoveForward`; `BurstBound`: the price of a fixed window with old readings; `DenialJustified` |
| `broker` | 3 messages | `Accounted`, `LossHasACause`, `ImplementsHandoff`, and under fairness `HandlersMoveOn`, `Settled`, `DeadLinkIsFatal` |
| `collector_gates` | 1 request (error or release), 1 project, 2 changes, 1 death, any number of alarms | `AnswersAreTrue`, `BarredRefused`, `KnownLimitsApply`, and under fairness `EveryRequestAnswered`, `BansTakeEffect` |
| `collector_limits` | 2 Sentry requests, limits with a period and without one, readings 0 and 2 in any order, 1 command sent again, 1 death | `OnePermitEach` |
| `accounts` | 2 plans, 1 workspace, 2 projects that may share a token, 1 change | `UntouchedExact`, `CachesConverge` |
| `blacklist` | 2 addresses, 2 requests and 1, 1 edit, failures, 1 command executed twice, a hash that loses its order, alerts that hang | `ReportMatches`, `ReportedOnce`, `ReloadTakesEffect` |
| `metrics` | 2 handlers, 2 granularities (1 and 2 moments), 4 moments, 4 events, 1 fault, deaths | `EventsCounted`, `BucketsNest`, `RecordingEnds` |
| `websocket` | 2 connections, 2 messages and 1, any number of bans, alarms and deaths, answers that are not read | `AnswersInOrder`, `OneInDoubt`, `CountersBalance`, `BanReachesOpenConnections`, `MessagesAnswered`, `ClosedConnectionsEnd` |

Four runs find the code at variance with what the repository says of it:

| run | property | what the shortest behaviour shows |
|---|---|---|
| `collector_releases` | `LimitsEnforced` (README.md:221) | two releases of a project with a limit of 1 are accepted: the release handler looks the limit up and never asks the rate limiter. TLC finds the property violated for error requests alone too: a project that the token cache knows and the limits cache does not know yet has limit 0, which means none |
| `collector_status` | `StatusIsTrue` (README.md:108) | a release that is too large is answered without a Code and goes out as HTTP 200 |
| `accounts_plan` | `PlanLimitApplies` (README.md:178) | a workspace created between the reads of workspaces and projects leaves its project with limit 0 until the next refresh, although the database was complete at every moment (`KeepReferences`) |
| `blacklist_alert` | `BusyIsAlerted` (README.md:165) | requests counted between HVALS and DEL are deleted unread, and with them the alert |

Met while modelling and kept out of the runs, because nothing needs to be
searched for to see them: reaching `BLACKLIST_THRESHOLD` alerts and blocks
nothing, the set of blacklisted addresses is only read (README.md:164 says the IP
gets blocked); `RETRY_NUMBER` and `RETRY_INTERVAL` are read by nobody; `/health`
does not look at RabbitMQ; a workspace whose plan is missing has its own limit
ignored (`Inherited` in `Accounts`); an interval of 0, which config.go does not
rule out, makes `NewTicker` panic where nothing recovers; the IP of a websocket
client is looked up and counted at the upgrade and not for its messages; the
Help text of `collector_websocket_connections_total` says "established" where the code
counts the request before the upgrade, and the comment on
`collector_websocket_message_errors_total` says "non-connection errors" of what are
failed writes; RedisTimeSeries creates a missing series on TS.ADD, so that the
branch of `SafeTSAdd` with the retention is not taken and "store for 24 hours"
(handler.go:179) does not come about. Were it taken, a handler that loses the
race for TS.CREATE would drop its event: that is the term `Missed` of
`EventsCounted`.

Bounds. Counters that would grow for ever are bounded by constants that appear
in guards: `MaxClock` and `MaxDelay` (RateLimit), `MaxChanges` (Collector,
Accounts), `MaxCrashes`, `MaxRequests`, `MaxEdits`, `MaxRepeats` (Collector,
Blacklist), `MaxEvents`, `MaxFaults` and `MaxMessages`; `Moments` (Collector) are
the clock readings. They are as large as the
cases need: 5 seconds hold two periods of 2 s and a third window; a delay of 2 s is a whole
period, so a reading can be of a window that is over; two calls are enough to
reorder readings; two requests compete for the last place in a window, join
one after a lowered limit, or open windows of their own when their readings, 0 and 2
with a period of 2 s, or a setting without a period make them; two changes ban
and lift, or register and ban; one death separates two lives of the caches;
three messages fill the line, the hand and the wire at once; two requests
from one of two addresses pass the threshold of 2, before or after the one of
the other, around any command of the update; in `metrics` four moments hold two
buckets of the coarser series and four of the finer, two handlers race for
a series, and four events let a second pair of them meet one that exists; in
`websocket` one client writes ahead of the answers and the other competes for
the broker. In `accounts` the settings are chosen so that each field of each
level is set in some document and not in another, and one change falls before,
between or after any of the reads. No cfg
switches the deadlock check off: at every bound there is still a refresh, a
restart, or a call that can be made.

Symmetry is used for interchangeable calls and requests in the runs whose
properties are invariants and step properties, never with liveness.

Fairness.

- `Broker`: weak for `Receive` and `PublishFails` (the Go scheduler starves no
  goroutine), strong for `Publish` and `Arrive` (a write waits on a socket that
  RabbitMQ's alarm fills again and again, and goes on when there is room), weak
  for `Notice` (heartbeats find a dead peer). None for handlers, crashes,
  restarts or the end of an alarm: `HandlersMoveOn` and `Settled` except an alarm
  that never ends, for the code has no timeout there.
- `Collector`: weak for what a handler does without waiting (`Proceed`), strong
  for `Send`: the goroutine takes from each handler in turn whenever it is not in a
  write, and it may be in one again and again. That is `HandlersMoveOn` of `Broker`,
  with the same exception: `EveryRequestAnswered` claims nothing while an alarm never
  ends, for the send has no timeout (handler.go:108). Weak for each read and install
  of the refreshes, which `RunPeriodically` calls for ever; a failed load
  (`LoadFails`) leaves the read enabled, so that fairness asks for some success, not
  for no failures.
- `Accounts`: the same, strong for the second and the third read, which a failure of
  the whole refresh disables.
- `Blacklist`: the same, strong for the commands that `Retry` disables, and nothing
  for `Notify`: an alert that is never answered holds the update goroutine for good, and
  `ReloadTakesEffect` excepts it (`Alerting`).
- `Metrics`: weak for what a handler does next: it is scheduled, and a command ends
  in an answer, an error or the client library's timeout.
- `Websocket`: weak for what the goroutine of a connection does without waiting
  (`Serve`), strong for `Send` as in `Collector`. Nothing for `ReadFails` and
  `WriteEnds`: there is no deadline on a read or a write, and whether the loss of a
  client is ever noticed, or a full buffer ever read, is up to the network and the
  client. The liveness properties except lost clients, an alarm that never ends
  (`stalled`) and a client that never reads on (`stuck`).

## 4. The proofs

Every invariant and every step property that a passing run checks, and the
refinement of `Handoff`, is a theorem for every value of the constants. Each
proofs module rests on the assumption its model declares and on nothing else;
the runs evaluate those assumptions too. In each the plan is the same: the
property is not inductive, a stronger invariant is (first checked by TLC on
the instances of the runs), there is a lemma for each action or group of actions
that preserves it, and the theorem combines them.

| module | for every | inductive invariant | theorems |
|---|---|---|---|
| `RateLimit_proofs` | sets of projects and calls; finite sets of settings, negative limits and periods among them; `MaxClock`, `MaxDelay` | `Inv`, then `BurstInv` | `Safety` and `Types` (`WithinLimit`, `TypeOK`), `Forward` (`WindowsMoveForward`), `Burstiness` (`BurstBound`), `Refusals` (`DenialJustified`) |
| `Broker_proofs` | set of messages without `NoMessage` | `BrokerInv` | `Types`, `Accounting` (`Accounted`), `Losses` (`LossHasACause`), `Refinement` (`ImplementsHandoff`) |
| `Collector_proofs` | sets of requests and projects; settings, limits and periods of 0 or less among them; clock readings; bounds | `CollectorInv` | `Types`, `Truth` (`AnswersAreTrue`), `Refusal` (`BarredRefused`), `LimitsApply` (`KnownLimitsApply`), `Permit` (`OnePermitEach`) |
| `Accounts_proofs` | collections and settings; bound; references kept or not | `AccountsInv` | `Types`, `Exactness` (`UntouchedExact`) |
| `Blacklist_proofs` | addresses; positive threshold; bounds; failures or none | `BlacklistInv` | `Types`, `Matching` (`ReportMatches`), `Once` (`ReportedOnce`) |
| `Metrics_proofs` | nonempty finite set of handlers; any number of granularities, each a multiple of the one before; bounds | `MetricsInv` | `Types`, `Counts` (`EventsCounted`), `Nesting` (`BucketsNest`) |
| `Websocket_proofs` | finite set of connections; numbers of messages | `BanInv`, then `FateInv`, `BalanceInv` | `Ban` (`BanReachesOpenConnections`), `Fate` (`AnswersInOrder`), `Doubt` (`OneInDoubt`), `Balance` (`CountersBalance`), `Types` |

**The rate limiter.** `WithinLimit` alone is not inductive: that a count stays
within *some* setting of the project needs the call's setting to be one of the
project's, wherever the call has been since it was made; the fourth conjunct of
`TypeOK` carries that. `UpdatedWindow`, `UpdatedCount` and `UpdatedTimestamp` say
what one execution of the script does to a window, and one lemma for each part
covers `RunScript` for its two callers, `Execute` and `ReplyLost`. `Forward`
follows from `TypeOK` and `UpdatedTimestamp`.
`Burstiness` needs to know where the permits of a span of seconds came from.
`Backed` says that the permits a window counts were all taken since it began, and
`Bursts`, while a span lasts, that those taken in it are either of the window at
hand alone, or besides those of full windows before it, of which each began at
least the shortest period before the next (`NextPeriod`); readings
up to `MaxDelay` old let the first of them begin that much before the span. When
the span is over the sum stands still, and the arithmetic of
`BurstArithmetic` and `SpreadBounds` turns it into the bound. `Refusals` needs
`Backed` only: a refusal means that the window is full and began less than a
period before the reading, so its permits are in the span the property names.

**The broker.** The order of messages is kept by positions: `Done` is how
many of the messages taken are settled, those after them are the ones on the wire
followed by the one in hand (`Unsettled`), every one before is delivered or lost
and not both (`Settlement`), deliveries are in order (`DeliveredInOrder`), and no
message is taken twice (`Once`). Without `NothingHeld` - a connection that is gone
holds no frames - a delivery could overtake a loss. The refinement takes each step
in turn: `Receive` is `Accept`, `Arrive` is `Deliver` (what is on the wire first
is the oldest message pending), a write to a broken connection, its
breaking and the death of the process are `Lose` when they cost a message
and stutters when they do not, everything else is a stutter.

**The handlers.** `Answers` adds that whoever is about to be told 200 has been
heard by the broker. `Refused` follows a refusal from the database through the
snapshot a refresh holds into the cache, and `BarredStop` says for each place a
barred request may be at which of the two caches still refuses it: its gate is
ahead of it. `CoveredFind` does the same for limits: a covered request that has yet to
look them up is of a project the cache has, and one that has looked them up keeps
what a refresh found. `Permits` follows each place in a window from `RunScript` to
the broker: a window that was opened and is over gives out no place any more, the
current one has given out those up to its count (`PlaceTaken`), and nobody else
holds the next. That needs no relation between readings and no period at all - a script
run either opens a new window or adds one to the count.

**Accounts.** What the cache will hold is in the collections a refresh has read
so far: `Agreed` says of each project the refresh found untouched that they are
what the database still has for it, and `Right` that the cache has what their join gives.
The join is then shown to be the documented rule, field by field
(`Documented` in the model states it independently, as the first positive
value of project and workspace, and what the plan has where neither sets one).

**The blacklist.** Until the values are read, there are at least as many fields in
the hash as were read, for it only grows between the commands, so that there is a value
for each; while Redis keeps the order, those at its start are the addresses read
(`StartOfHash`). `Unreported` bounds what the hash and the values read hold by what
arrived and is in no report yet, and `Unique` lets each address be looked up in them.
That a request is in one report at most does not depend on the order (`AnyOrder`):
a rearranged hash has the same fields with the same values.

**The time series.** The properties compare sums with a margin for events under
way and events lost. A step that uses some of the margin must be known to do so only
once: `Counted` counts the handlers with the series still ahead of them (`Yet`)
and those that saw it missing and have yet to find that it is there (`Late`);
`FineFirst` and `CoarseFollows` count those with a stamp on one side of the end of a bucket
(`Ahead`, `Old`).

**Websocket connections.** A ban: `BanInv` adds to the property that nothing is
barred while the project is not blocked, that what waits for the broker is not
barred (`NotWaiting`), and that messages are accepted after they were written and,
as far as a goroutine in its loop can tell, after they were read (`InOrder`).
Answers: `FateInv` says for the places of the goroutine between two messages and
in the midst of one how the numbers of messages read and answered compare
(`Progress`), that the answers given and the one about to be given are true
(`Truthful`), and, of connections that are left too, that one message at most is
ahead of the answers (`InDoubt`). Counters: `BalanceInv` counts the connections in
each place: those before the upgrade, whose later failure must still find room in
`total`, and those being left, which are in an error count and in the gauge at
once; `Tally` says how one goroutine's step moves these numbers.

**Data.** Sums over seconds, buckets and handlers are folds, and the
prover cannot instantiate induction theorems that take an operator. `DataLemmas` does
induction with sets in place of operators: a set of naturals with 0 and
the successor of each is all of them (`NatSets`), a set of subsets closed under adding
one element has every subset of a finite set (`SubsetInduction`). From that follow the
existence of the function a fold computes (`SumExists`) and what the proofs
need of sums: that they are naturals, grow by what is added at one place, and split
and grow with the set.

What the proofs changed in the models. Attempts that failed for a reason showed
that `Documented` gave 0 where a plan's limit is negative although the code
lets it stand; that `BurstBound` took the maximum of no settings for a project
without any, and that it needs the settings of a project to be finitely many; that
`BucketsNest` is false for granularities that are not nested, and `EventsCounted` for no
handlers, which are now assumptions (one minute, an hour and a day are nested, and fasthttp has
handlers); and that a permit must be a place in a window, not a share of a
count, if periods are not to matter. `Handoff`'s `Pending` and `Lose` and a few definitions
elsewhere were restated, with the same meaning, in forms the provers can take.

Model-checked only: the liveness properties (`HandlersMoveOn`, `Settled`,
`DeadLinkIsFatal`, `EveryRequestAnswered`, `BansTakeEffect`, `CachesConverge`,
`ReloadTakesEffect`, `RecordingEnds`, `MessagesAnswered`, `ClosedConnectionsEnd`),
because fairness is about ENABLED, which the prover does not
handle; and the four properties that TLC refutes.

## 5. Not modelled yet, and the plan

1. Done: `RateWindow`, `RateLimit` and its proofs, `Handoff`, `Broker`, `Collector`,
   `Accounts`, `Blacklist`; then `Metrics` and `Websocket`.
2. Left out: `/health` (two pings and a status, no state), startup beyond the order
   of its loads (an interval of 0 is a certain death), which of a release's files
   are in its message (nothing says what should become of an unreadable one), two
   collectors on one Redis (the repository does not provide for it), the test
   endpoint for time series and what it alone calls (`TSIncrBy`, `SafeTSIncrBy`,
   `DeleteKey`), whose route is commented out.
3. Done: the proofs of section 4, for every invariant and every step property of
   the runs.
4. Proofs to come: that the handlers' calls of the rate limiter in `Collector` are
   calls of `RateLimit` where their readings are not too old, and that what `Collector`
   and `Websocket` send is what `Handoff` accepts, each as a refinement; that no reachable state of
   `Broker` is stuck (for each state a step whose guard holds, spelt out instead of
   ENABLED), which is the part of `HandlersMoveOn` and `Settled` that is a matter of
   states.

Left out for good: the Prometheus counters of HTTP requests, the Hawk catcher,
logging, and the parsing of flags and environment variables.
