# Kometa in TLA+

Kometa is an automated trading platform in Python: strategies propose trades, an allocator sizes them, a
risk gate signs what may be sent, execution sends it to a broker and keeps account of what became of it,
and a lifecycle ladder decides which strategy versions trade at all. This directory holds a formal model of
the parts whose correctness depends on order, failure and restarts, the TLC runs that check it and the
TLAPS proofs about it. Source paths are relative to `src/`; `OM` is
`packages/execution/src/autotrader/execution/order_manager.py`.

## 1. The system

### Components, state, operations

| Component (package) | State it keeps | Operations | Talks to |
|---|---|---|---|
| order manager (`execution/order_manager.py`) | `ExecState`: tracked orders, seen deals, expected balance, deals cursor, last decision sequence; confirmed stops | `execute`, `_send`, `_adopt`, `confirm_stop`, `sync_deals`, `expire_pending`, `cancel_pending_entries`, `apply_halt`, `tighten_stop`, `close`, `cancel`, `close_positions_of` | the broker (every await), journal, outbox callbacks |
| journal (`execution/journal.py`) | one hashed file | `load`, `save` (with pruning of seen deals) | disk |
| bus service (`execution/bus_service.py`) | intents by id, outbox, request strategies | a handler per stream (`INTENTS`, `DECISIONS`, `HALTS`, `CONTROL`, `REQUESTS`, `HEARTBEATS`, `QUOTES`), `flush`, `cycle` | bus, order manager, watchdog |
| periodic service (`execution/service.py`) | last reconciliation time | `cycle`: sync, expire, stops, watchdog, reconcile | order manager, reconciler, watchdog |
| reconciler (`execution/reconcile.py`) | episode, on disk in `ExecState.recon_episode` | `check`, `run_once`, `resync`, `owner_resync` | order manager, broker, the gate's halt |
| watchdog (`execution/watchdog.py`) | last heartbeat per service, tripped services | `beat`, `check` | order manager |
| risk gate (`risk/gate.py`, `state.py`, `service.py`) | `RiskState`: halt, reason, loss references, used nonces, sequence | `decide`, `on_account`, `roll_day`, `enter_/clear_recon_halt`, `enter_full_halt`, `resume`, `start` | bus, reconciler, signing |
| scheduler and composition (`cli/demo.py`) | day rolled over, last run of each job | `minute`, `play_sim`, `play_live` | every service, in one process |
| bus (`core/bus.py`) | streams with consumer groups | `publish`, `read`, `ack`, `pump`, `run` | every service |
| ledger (`core/ledger.py`) | hash-chained file, remembered tail | `append`, `records`, `verify` | registry, audit |
| lifecycle (`lifecycle/*.py`) | a stage per strategy version, replayed from the ledger; trial, watch and demotion records | `submit_candidate`, `promote_*`, `demote`, `swap`, `retire`, hourly evaluation | ledger, bus (`CONTROL`), allocator |
| engine (`engine/*.py`) | bar buffers, shadow books, simulated broker | `on_quote`, `on_time`, entry gate, requests | bus |
| allocator (`allocator/*.py`) | weights, open risk | `on_signal`: intent from signal | bus |
| learning (`learning/*.py`) | freeze file, pause, trade journal | guard update, re-optimisation, reports | registry, files |
| broker adapters (`execution/ctrader.py`, `oanda.py`, `mt5.py`) | the session: connection, authorisation, requests that wait for an answer | `connect`, `_call`, `_dispatch`, the operations of `adapter.py` | the broker |
| monitor (`monitor/*.py`) | alerts and outbox, journeys, the day's account | router `tick`, `send`, `ack`; a handler per stream | every stream, the owner's chat |
| validation (`validation/*.py`) | trials, holdout attempts, reports in a ledger | one run from trials to report | ledger, registry |
| ai (`ai/*.py`) | open questions, sessions on disk | `on_time`, `on_setup`; `post`, reply, `save` | Claude, engine, registry |
| data (`data/calendar.py`) | the news export in memory and in a cache file | `refresh`, `fresh` | a web site, the gate |
| strategies (`strategies/library`), indicators (`core/indicators`) | detectors fed bar by bar | `on_bar` | engine |
| mt5 bridge, api, cli, web | vendor calls, views | - | - |

### How they interact

A signal becomes an intent (allocator), the intent a signed decision (gate), the decision an order
(execution). All of it travels on bus streams and is acknowledged after its handler returned, also when the
handler raised (`core/bus.py:182-193`), so that a crash redelivers and an exception loses. Execution is one
asyncio process; its tasks may interleave at every `await`, and the awaits that matter are the broker's
calls. In the demo composition `Scheduler.minute` runs the periodic cycle, the bus cycle and `pump` one
after the other; the API's paper-trade switch pumps as well, and `core/bus.py:run` starts one reader task
per stream. The reconciler enters and clears `RECON_HALT` through the gate object of the same process
(`cli/demo.py:864`), while execution learns of loss halts by a message.

### What is hard

* a broker call may be lost before or after it took effect, and is retried;
* the journal, the gate's state file and the broker are three stores that a crash can separate;
* fills are reported by an answer and by a deal, late, twice or in either order;
* a tracked order is read before an await and written after it;
* four parties write one halt (losses, rollover, owner, reconciliation), each with its own way out of it;
* seen deals are pruned by age, queries look back by age, and both depend on a cursor that stands still;
* a decision waits on one stream while a halt overtakes it on another, and the account it was made on is old;
* the clock closes bars whose last quotes still wait on the bus, and several readers share one builder;
* several processes append to one hash-chained file, and one of them may die in the middle of a line;
* an answer - the broker's or Claude's - comes after seconds, when what was asked about has changed;
* what a guard needs to remember is partly in a file and partly in memory.

### What makes each component correct

| Component | Properties |
|---|---|
| order manager and journal | no ticket the journal does not know; a consumed decision is consumed on disk; no two positions for one intent; journal and broker agree at rest; an order only moves forward; a lost stop comes back; a confirmed stop is there; a close is published once and, without a crash, at least once |
| deal synchronisation | every deal counted once; tracked lots are the broker's; no deal outside the next query; a trade is the whole position |
| halts | a halt is left only as its severity asks; a reconciliation halt has an episode on disk and ends when the broker agrees; an unresolved mismatch stays halted; execution is told of every halt |
| reconciliation | a check that finds nothing leaves journal and broker agreed |
| watchdog | while a service is lost and no pass is owed, every entry the system had resting was cancelled, or the broker refused |
| trading path | after a halt the broker gets only entries approved before it, within their time to live; an approval counts every position but the youngest; a signal enters once, with an approved size; every intent is answered; a demotion or halt leaves the pump flat |
| broker adapters | what is reported as done was done, what is reported as refused was not |
| ledger | each record carries the hash of the one before it, whoever writes and whoever dies |
| lifecycle | a version that a demotion takes out of the money has its positions closed, after and never before its stage change; the ladder is kept through swaps, rollbacks and crashes; at rest the other services know the registry's stages |
| engine | a quote in time is in one bar of each timeframe; every runner sees every bar; no backtest event is skipped, no fill looks ahead, the books balance; a shadow trade pays for its nights |
| strategies and indicators | what is said of a bar when it closes is what the arrays say ever after; a sweep fires once |
| validation, cost model, reoptimisation | the holdout of an epoch is seen once per family; a cheaper model waits; a challenger is a step from its parent |
| journal of signals, journeys, daily summary, alerts | an outcome stands and what was told is what is saved; a journey read in order is the order's; summaries add up; an alert arrives |
| ai | an answer is used on the market as it is when it comes; what is sent is a conversation; a registered version's code stays |
| calendar | it is no older than it says |

## 2. Modules

| Module | Models | Extends or uses |
|---|---|---|
| `Broker` | the broker as `execution/fake.py` has it: tickets, deals, refusals, stops, expiry | - |
| `OrderManager` | OM, `journal.py`, the handlers of `bus_service.py`, `service.py:cycle` | `Broker` |
| `OrderLife` | abstract: the stages of an order on disk, one trade per close | - |
| `DealSync` | `initialize` and `sync_deals` over time, pruning, several callers | - |
| `HaltControl` | the gate's halts, the rollover, the reconciler's episode, two files | - |
| `Reconcile` | what `check` compares and a resync writes, while the broker moves | - |
| `Watchdog` | `watchdog.py`, `cancel_pending_entries` | - |
| `RiskGate` | `RiskGate.decide`: the checks and their order, rounding | - |
| `TradingPath` | engine, allocator, gate, execution and demotions over the bus | `RiskGate` |
| `SignalLife` | abstract: what becomes of a signal | - |
| `BrokerSession` | calls of the cTrader, OANDA and MT5 adapters | - |
| `Ledger` | `core/ledger.py`, `monitor/pg_ledger.py` | - |
| `Lifecycle` | registry, evaluator and service of `lifecycle/` | - |
| `SimBroker`, `ShadowBroker` | the fills of backtests and of versions in shadow | - |
| `LiveBars` | quotes to bars to the strategies' series | - |
| `Candlestick`, `Structure`, `Sniper` | candlestick patterns, market structure and levels, one strategy | - |
| `Validation`, `CostModel`, `Reopt`, `SignalJournal` | trials and holdout, calibration of costs, challengers, outcomes of signals | - |
| `Alerts`, `Journeys`, `Monitor` | alert router, journeys and slippage, daily account, summaries and the learning pause | - |
| `AiTrader`, `Assistant` | Claude's two tracks, the strategy assistant | - |
| `Calendar` | the news calendar | - |
| `HaltControl_proofs`, `OrderManager_proofs`, `OrderSerial_proofs`, `TradingPath_proofs`, `BrokerSession_proofs`, `DealSync_proofs`, `Lifecycle_proofs` | proofs | the module of their name (`OrderSerial_proofs`: `OrderManager`, one task at a time) |
| `Parts_proofs` | proofs | `Watchdog`, `Ledger`, `Calendar`, `SignalJournal`, `CostModel`, `Validation`, `Assistant`, `Monitor`, `AiTrader`, each as an instance |
| `MCOrderManager`, `MCDealSync`, `MCHaltControl`, `MCTradingPath`, `MCLifecycle`, `MCLiveBars` | the instances TLC checks | their module |
| `MCParts` | the parts that share no state, in one run | `MCLifecycle`; the other parts by `INSTANCE` |

### Broker and OrderManager

A ticket `<<o, k>>` is what the k-th attempt to send order `o` makes at the broker; `_send` tries at most
twice, and a decision whose order exists is dropped, so two attempts suffice. `task` holds the local state
of the three kinds of task: the `DECISIONS` reader, the periodic cycle, and one control task for `HALTS`,
`CONTROL` and `REQUESTS`. `pc` names the await a task is at. A call is two steps: `Serve` lets it reach the
broker (or lose its request, or its answer), and the action named for the answer (`FoundPosition`, `Placed`,
`StopChecked`, ...) runs the code from that await to the next. Labels in `Internal` are points inside such a
run, where no other task may step.

`mem` is `ExecState` in memory and `journal` as saved; `Keep` changes the first, `Save` both, and each
follows the code's calls of `OrderManager.save`. `Crash` loses `mem`, the tasks and the outbox, and the
unacknowledged decision is delivered again because `acked` moved only at the end of its handler.
`CrashInExecute` is the one crash between two saves of one uninterrupted run (`OM:220-275`).

Prices, sizes and money are left out: an entry is refused or not (`RefuseEntry` stands for unknown symbol,
invalid lots and stale quote), a stop is one of `1..MaxSl`, larger is tighter. Deals are known in order and
`seen` is their number; what happens when they are late, repeated or forgotten is `DealSync`'s subject.
Order events (`_report_orders`) are not modelled.

`OrderLife` is implemented by `OrderManager` under the mapping `stage <- journal's state`,
`published <- trades`, when tasks run one after the other (`OrdersFollowLife`).

### DealSync

One position is filled, reduced, financed and closed while payments are booked, possibly with a time in the
past. Each deal has a time; `sync_deals` asks from `cursor - Lookback`, `Journal.save` forgets what is older
than `Retention`. `ever` in `mem` is a history variable: what `seen` held at any time. `start` records the
race in `initialize` (balance, then clock), and `CleanStart`, which only `BooksMatch` assumes, names the starts without it. `lull` records that
a save dropped a deal a query would still return. The clock's unit is longer than any broker call, so it
stands still while a sync is under way.

### HaltControl

The gate and the reconciler run in one process, as `cli/demo.py` composes them. `risk` is `RiskState`, saved
on every change; `episode` is execution's `recon_episode`. `recon.pc` is where `run_once` or `owner_resync`
is: `enter` and `settle` are the points between the two files' writes, where the process may die and nothing
else runs. `acted` and `unsent` say whether execution was told of the halt in force. Equity is a number from a
small set; the loss tests are the code's, in integers. An unreadable state file loads as `FULL_HALT`.

`masked` is a history variable with the exact exception the code has: while a loss halt or `FULL_HALT` is in
force the gate does not enter `RECON_HALT`, and one entered later replaces it.

`owner_resync` and `enter_full_halt` are library operations with no caller in `packages/`; the first is
modelled because the reconciler's documentation relies on it, the second is not (the same escalation with no
guard).

### Reconcile and Watchdog

`HaltControl` has when the reconciler halts and what a crash does to the two files; `Reconcile` has what it
compares and writes. A check applies new deals, then reads account, positions and orders, one call each; the
broker fills, closes and expires between any two of them. `raced` names the orders of which a deal was booked
between a resync's reads: the property excuses exactly those. `Watchdog` lists the resting entries and cancels them
one by one, each an await in which entries come and go; an unreachable broker breaks the pass off, and the next
check starts it again. `refused` and `late` are history variables that say which entries may be left.

### TradingPath, RiskGate and SignalLife

Each stream is a log with a cursor per reader (`core/bus.py`). In mode `run` every service is a process with one task
per stream, and a restarted one may get its last message again; in mode `pump` one process reads the streams in a
fixed order until nothing moves, once a minute (`Scheduler.minute`), and a restart loses the streams. The gate
decides by `RiskGate!Decide` on its last account update; lots are counted in lot steps, money in thousandths, so
that what rounds in the code rounds here. Account levels, a halt at the lower level, a demotion and the owner's second pump
are choices. `slipped` records, with the reason, each entry a demotion could not close: still being sent, refused
a cancel because it had just filled, or lost with the pump's streams at a restart.

`SignalLife` is implemented by `TradingPath` (`EntersOnce`): one proposal, an approval of no more than was proposed,
one order, of an approval.

### BrokerSession

A caller's operation is a list of requests; `opened`, `auth` and `lock` are the session and its lock, `sent`, `inbox`
and `outbox` the wire in both directions. A connection may break and a request time out at any await; an answer to
a request that nobody waits for any more is dropped. `answers` is what the caller was told, `done` what the broker
did. Kind `http` has no session: an operation is one exchange.

### Ledger

Writers take the lock, read the tail (or trust the remembered one if the file has not grown), write, release. A
death in the JSON Lines file may leave half a line, on which every later append fails; Postgres rolls back.

### Lifecycle

The ledger is the state, since the registry is its replay. A handler of the service is a `job`, a list of steps that each
write one record, queue one order or publish one message: a crash or an exception falls between any two.
What trades and fills make of a version - promote, demote, swap, roll back, retire - is a choice within the
evaluator's conditions on stages and time. Three history variables serve `DemotedIsClosed`: `due` holds the versions taken out of the
money since the start, by whatever record, `closed` those whose close order was published, `kept` those that a swap or a
rollback took out, for which the code orders nothing. A crash empties all three.
`Climbed` says of a whole ledger that it keeps to the ladder: `LadderKept` is that of the registry's.

### Engine, indicators and strategies

`SimBroker` jumps to the first bar where something happens, as the code does, and is compared with a walk over every
bar. `LiveBars` orders quotes, clock closes and the pump. `ShadowBroker` fills a version's requests from quotes that
can be behind the clock; a position counts the nights it is charged, and those that an older quote made due `again`. `Candlestick` and `Structure` hold both forms of the code, incremental and over arrays, and
the property is that they agree. `Sniper` is one strategy from sweep to signal; mirrored bars stand for shorts.

### Learning, validation, monitor, ai, data

Each module is one component's state machine with its file and its memory apart, so that a restart or crash keeps
the first and loses the second: `Validation` (attempt on record before the holdout is looked at), `SignalJournal`
(outcome saved, then told), `CostModel`, `Reopt`, `Monitor` (peak in memory, pause in a file), `Journeys` (a reader
per stream), `Alerts` (each await of a tick is a step), `AiTrader` (an answer comes later), `Assistant` (reply on the
event loop, save in a thread), `Calendar` (export in memory, then in the cache).

### MCParts

Twenty-one parts share no state, so a behaviour is of one part only: `part` says of which, the lifecycle keeps its
variables' names, every other part gets `x1`, `x2`, ... by its `INSTANCE`, and the rest stays 0. It is a union
of state spaces, not a product.

## 3. Runs

| Run | Instance | Checks | Shows |
|---|---|---|---|
| `orders_serial` | 1 market and 1 resting order, 2 stop levels, 1 lost call, 2 refusals, 1 closing halt or tightened stop, 1 crash, serial tasks | `TypeOK WriteAhead ConsumedOnDisk FilledOnce PositionsAgree ConfirmedIsProtected OrdersFollowLife` | the order manager's safety under failures, and that it implements `OrderLife` |
| `orders_interleaved` | the same orders, the resting one with an expiry, 1 strategy cancel, 1 lost call, tasks interleaved at every await | `NoDoubleExposure TradedOnce` | what holds for one reader task per stream |
| `orders_live` | both orders, halts, strategy cancel or close, demotion, 1 lost call, 1 refusal, fairness | `StopRestored TradePublished` | a missing stop is restored or its position closed; a close is published |
| `deals_synced` | 2 lots, 3 deals, clock 0..3, 2 callers, 1 crash | `TypeOK BooksMatch NothingMissed TradeWhole` | the books are the broker's |
| `halts` | 3 equity levels around the limits, 2 evenings, a week of two days, 1 token, 2 faults, 1 crash | `TypeOK HaltHasEpisode HaltIsTold StuckStaysHalted HaltsLeftInOrder ReconHaltEnds` | the halts' rules across restarts |
| `trading_path` | five scenarios: 2 signals without a restart or 1 with one, as processes and as the pump; clock 0..2, 2 account updates, 2 equity levels | `TypeOK HaltStopsEntries BlindSpotBounded FlatAtRest EntersOnce IntentAnswered` | what a signal may become whatever the streams' delays, and that it is a `SignalLife` |
| `parts` | one small instance per part (`MCParts.tla`) | `PartsTypeOK DemotedIsClosed StagesTold AnswersAreTrue ChainUnbroken FillsHonest BarsHoldTheirQuotes LearningHonest RecordsStand AnswersHold SetupsStand FailuresMended AlertsArrive` | the properties of the components around the trading path |
| `orders_twice` | one resting order, decision and replay, 1 lost call | `OneIntentOneTicket` violated | finding 1 |
| `orders_halt` | one market order, a closing halt, 1 lost call | `HaltClosesPositions` violated | finding 2 |
| `deals_reapplied` | 1 caller, 2 deals, clock 0..3 | `AppliedOnce` violated | finding 3 |
| `halts_masked` | 2 faults, no crash | `MismatchStaysHalted` violated | finding 4 |
| `bars_starved` | two runners, quotes on time | `EveryRunnerSeesBars` violated | finding 5 |

The properties of `parts` are conjunctions over parts: `FillsHonest` is `BacktestHonest` of `SimBroker` and `ShadowHonest`
of `ShadowBroker`; `LearningHonest` is `HoldoutKept`, `CheaperWaits`, `StepsCapped` and `CalendarHonest`; `RecordsStand` is
`LadderKept` of `Lifecycle`, `JournalStands`, `JourneysTell` and `MonitorHolds`; `AnswersHold` is `AnswersInTime` and `AssistantKeepsItsWord`;
`SetupsStand` is `PatternsAgree`, `StructureStands` and `OneShot`; `FailuresMended` is `BooksRepaired` of `Reconcile` and
`OutageCancels` of `Watchdog`.

**Bounds.** Lost calls, refusals, control operations, faults, crashes and restarts are bounded by `MaxLost`,
`MaxRefused`, `MaxControls`, `MaxFaults`, `MaxCrashes` and `MaxRestarts` because the state space is otherwise infinite.
Two refusals and a lost call let `confirm_stop` give up and close. One lost call is enough for every retry path: `_send`
searches again after it, and every other caller ends on it. One crash meets every label. Two orders are enough for the
loops over orders to meet a second element, and no handler relates three. `MaxDays` lets a rollover happen on a week's
last day and after a restart. `MaxDeals` 3 covers fill, partial close and close, or fill, payment and close. `MaxTime` 3
with `Lookback` 1 and `Retention` 2 lets a deal age past both. `MaxRepeats` bounds what finding 3 makes infinite.

In `trading_path` an entry risks 10 of 1000 and the limit on all is 15, so that the second signal's answer depends on whether
the account shows the first one's position; `HaltBelow` lies between the two levels, `DecisionTtl` 1 within `MaxTime` 2
lets an approval expire, and `MaxAccountAge` 0 and `MaxLag` 0 make the blind spot one unit of time. In `parts`, three
versions are a champion, its challenger and one on paper, from five ledgers: before a swap, after one at `micro` and one at `live`, after
a demotion and a swap, and of a version switched to paper three times; `MaxRecords` 10 leaves, after the swap at `live`, room for
both records of its rollback behind a demotion; two writers of a ledger can each hold what the other has
outdated; two callers share a session that breaks once; histories of bars are long enough for the longest pattern,
structure and setup; two alerts can overtake each other; the watchdog's two services are lost and restored one after
the other within two units of a timeout below one. Each bound is in the instance that sets it.

The systems stop when the bounds are used up, hence `CHECK_DEADLOCK FALSE`. `MCDealSync` uses symmetry on the callers,
which no property distinguishes; it checks no liveness.

**Fairness.** `OrderManager!FairSpec`: weak fairness for every task's continuation and for the answers of the
broker (the adapters time a call out), for the periodic cycle (`ExecutionService.run` loops until stopped),
strong fairness for `flush`, which runs after every handler while other tasks keep it waiting. Nothing is
assumed of the market, of new decisions or of control messages. `HaltControl!FairSpec`: the process is started
again and reconciliation runs every minute (`service.py:84-102`); nothing is assumed of the broker's return,
rollover or owner. `ReconHaltEnds` therefore excuses an unreachable or different broker. `TradingPath!FairSpec`: the
gate's reader of intents goes on (`core/bus.py:run` loops), and nothing else. `Alerts!Fairness`: the router ticks
(`Scheduler.minute`), its awaits return, and of the deliveries of an alert that is tried again and again one succeeds;
without the last an alert waits for ever on a channel that is down.

**Serial and interleaved.** `PositionsAgree`, `FilledOnce`, `ConfirmedIsProtected` and `OrdersFollowLife` are
claimed for tasks one after the other only, the demo's composition. With one reader per stream they fail in
ways the code leaves to reconciliation: `_send` overwrites an order whose fill and close `sync_deals` has
applied while the answer was awaited (`OM:300-311`).

## 4. Findings

1. **A retried resting order may be placed twice** (`orders_twice`; `OM:284` against `OM:6-7`). The answer to the
   placement is lost; the order rests, fills and is stopped out before the retry looks for it among open
   positions and pending orders; the retry places it again.
2. **A closing halt may leave positions open** (`orders_halt`; `OM:592` against `TRADING_SYSTEM_SPEC.md:580`). A call
   lost in `cancel_pending_entries` or `open_positions` leaves `apply_halt` before any close, the message is
   acknowledged, and the halt is not published again while the process runs.
3. **Deals are counted again after a quiet week** (`deals_reapplied`; `journal.py:111` against `OM:507`). Seen deals
   are dropped after seven days, but the cursor stands at the last deal and each query returns it.
4. **A loss halt hides an unresolved mismatch** (`halts_masked`; `reconcile.py:177` against `reconcile.py:10-11`).
   After the loss halt cleared, the episode is `stuck` and no halt is in force.
5. **Runners but the first miss bars** (`bars_starved`; `engine/service.py:139` against `engine/service.py:5` and
   `engine/live.py:4-6`). `_on_quote` asks the shared bar builder once per runner; the first call takes the closed bars,
   the others get none and count the quote again.

Where a property of a passing run needs an exception, the model records it by name; those are the places where the code
does less than its text suggests:

* **Reconcile** (`raced`): a deal booked between the check's `sync_deals` and the resync's reads is applied by both, so that a
  partial close ends the order, with a trade published, while the broker still holds lots; a full close is written
  without `_closed_trade` and its trade never published; a filled order that was missing opens without an entry price.
* **Demotion** (`slipped`): an entry that is being placed while the owner's request pumps the bus is not seen; a cancel that is
  refused because the entry has just filled raises, and none of the version's positions is closed.
* **Lifecycle** (`kept`): `evaluator.py:4-6` and `TRADING_SYSTEM_SPEC.md:515` say that a demoted version's positions are closed if it
  drops to shadow or retired. A new champion demoted from `live` to `micro` keeps its positions, as it should; the rollback of the same
  handler (`evaluator.py:225`, `registry.py:356`) then puts it into `shadow`, and nothing orders them closed. A champion that is
  swapped out leaves the money with its positions open, too (`registry.py:328-330`; the code says nothing of them). A crash
  between a demotion's record and the flush loses the queued orders and the rollback for good: nothing repeats either, and
  `DemotedIsClosed` starts anew with the process. A crash between the two records of a swap leaves challenger and champion both
  in the money, one between those of a rollback neither. A rollback passes by `transition`: it brings a challenger that
  its demotion has just retired back to shadow, although the ladder of `registry.py:7-16` has no way out of `retired`; `Climbed`
  names this exception. What the owner retires while the service is down has its positions left alone.
* **ShadowBroker** (`again`): `shadow.py:10` says swap is paid at each rollover. A quote from before a rollover, read after the ticker
  has passed it, sets `_last_ns` back (`shadow.py:366`), and the next call charges that rollover again. `ShadowHonest`
  states the swap exactly: no night is missing, and those paid beyond the nights held are the ones counted in `again`.
* **Assistant** (`resaved`, `crossed`): two saves before a restart get the same version number, and the code of the registered
  one is lost, although `builder.py:391` says the previous version is kept; a save that ends during a reply is overwritten.
* **Monitor**: `learning/guard.py:7-10` says that a restart must remember why the learning loops pause; the peak it is
  measured from is in memory only, and the first cycle after a restart lifts the pause. A trade closed in the last
  cycle before the New York close is in no summary.
* **Journeys** (`crossed`): the monitor reads trades before orders, so that a closed journey may be opened again.
* **CostModel**: a market without a number in the model in force may become cheaper at once, without the 200 fills and four
  weeks.
* **Reopt**: rounding to whole numbers exceeds the 25 % of a step (3 to 4), and 1 and 2 never move.
* **Calendar**: an export counts as fresh for twelve hours, also into the week it does not cover; an error while the cache is
  written ends the refreshing task.
* **SignalJournal**: a crash between saving an outcome and publishing it loses the shadow trade.
* **Watchdog** (`late`, `refused`): one pass per outage, so that an entry placed afterwards and one whose cancel was refused stay.

## 5. Proofs

`HaltControl_proofs` proves for all values of the constants that satisfy `HaltControlAssumption` (equities
are positive, limits and the week's length too, bounds are naturals):

| Theorem | States |
|---|---|
| `TypeCorrect` | `Spec => []TypeOK` |
| `ReconHaltIsOnRecord` | `Spec => []HaltHasEpisode` |
| `ExecutionIsTold` | `Spec => []HaltIsTold` |
| `StuckIsHalted` | `Spec => []StuckStaysHalted` |
| `HaltOrder` | `Spec => HaltsLeftInOrder` |

None of the invariants is inductive alone, since each speaks of rest and the steps happen in between. `IInv`
adds what the reconciler knows at its own points: the episode is open from `enter` to `recheck`
(`EpisodeOpen`), no `RECON_HALT` is left at `settle` (`SettledClear`), past `enter` the gate is halted
(`EnteredHalted`), a severe halt during an episode is in `masked` (`SevereIsMasked`), and someone is still to
tell execution whenever it has not been told (`ToldOrTelling`). `TypeNext` and `SafeNext` prove that every
action keeps it, `OrderStep` the action property.

`OrderManager_proofs` proves, from `BrokerAssumption` and `OrderManagerAssumption`, for any number of orders and
decisions, with serial and with interleaved tasks:

| Theorem | States |
|---|---|
| `OrderTypes` | `Spec => []TypeOK` |
| `JournalledFirst` | `Spec => []WriteAhead` |
| `NeverReplayed` | `Spec => []ConsumedOnDisk` |
| `NeverOpenTwice` | `Spec => []NoDoubleExposure` |
| `TradedAtMostOnce` | `Spec => []TradedOnce` |

The inductive invariant `IInv` has three layers, each proved with those before it. `TypeInv` adds to the types the
`TaskShape` of every task: which order, ticket or work list it holds at which await, that a call to place comes from
`_send` alone and names its own attempt, that no answer knows a deal that is not booked. `Recorded` says that
memory and journal know the same orders and sequence number, and that a task which will change an order whatever
its state (after a search, a placement, an expiry or a cancel) knows it; so nothing becomes known except in
`Execute`, with its decision's number, saved before the first call. `Searched` and `OneLive` carry what the search
before the second placement saw across the awaits up to that placement: a market order never rests, so
it becomes a position by a placement only, and a first placement that took effect unseen is found by the second
search. It is the argument of `_send`'s docstring, "search the broker for the id before every attempt" (`OM:279`), and it
does not carry over to resting orders, which can fill and close between the two (finding 1). The theorem is proved;
no run of the project checks `IInv` itself.

For `TradedAtMostOnce`, `TInv` is `IInv` and: a ticket
about to be placed does not exist (`Fresh`); closing deals are of closed tickets, one each (`DealsOnce`); the journal has counted
no more deals than memory, and they differ only while a sync that will save is under way (`CountedAlike`); a
published trade comes from a deal the journal has counted, a waiting one from a deal memory has (`FromDeals`). An
order of one ticket has one closing deal, hence one trade. The proof has one lemma per way in which a deal is counted
(`DealApplied`), an outbox emptied (`FlushedOnce`) and memory lost (`CrashCounted`); every other action leaves all of it alone.

`OrderSerial_proofs` continues from `TInv` and the same assumptions to what holds when one task runs at a time, as in the
one-process demo, across any crashes, lost calls and moves of the broker between two awaits:

| Theorem | States |
|---|---|
| `JournalImplementsOrderLife` | `Spec /\ serial => OrdersFollowLife`: journal and published trades implement `OrderLife`, step by step |
| `FillRecordedOnce` | `Spec => []FilledOnce` |
| `ConfirmedStopsAreSet` | `Spec => []ConfirmedIsProtected` |
| `TrackedAgreesWithBroker` | `Spec => []PositionsAgree` |

None of the four is inductive: each compares journal or memory with the broker, and a task that waits for a call is about to
change one by what the other said. `SInv` adds what the task knows. At each await it waits for the call the code makes there, of an
order in the state it looked up (`AtPoint`), since nothing else runs; what it was answered still holds of the tickets
(`Answered`), since what the broker does by itself is only `order -> position`, `order -> gone` and `position -> closed`
(`Turns`): a position that was seen is still one or has closed, a cancel that was acknowledged leaves nothing to fill. With that, every state
tracked of an order fits its tickets (`Fits`), and what the deals applied so far say of it (`Counted`), in memory and in the
journal alike; the journal is behind memory only where an order has ended (`Behind`, `Ends`), which every crash may undo and the next
sync or search does again; and a trade is of an order whose end is saved (`TradesOfClosed`). `SerialInductive` puts
together one lemma per point of a task. For `JournalImplementsOrderLife` each step that saves is then shown to move one order along `OrderLife`'s edges.
With tasks interleaved `serial` is false and these four claim nothing: the drift then possible is `Reconcile`'s subject. `TradedOnce`,
`NoDoubleExposure`, `WriteAhead` and `ConsumedOnDisk` hold without it.

`TradingPath_proofs`, from `TradingPathAssumption` and `RiskGateAssumption`, for both ways of delivery, any signals, levels, ages
and restarts:

| Theorem | States |
|---|---|
| `NothingEntersHalted` | `Spec => []HaltStopsEntries` |
| `OnlyTheYoungestUnseen` | `Spec => []BlindSpotBounded` |
| `OneOrderOfASignal` | `Spec => []OneOrder`: at most one order of a signal at the broker |
| `PathTypes` | `Spec => []TypeOK` |
| `SignalLivesOnce` | `Spec => EntersOnce`: the path implements `SignalLife`, step by step |
| `FlatWhenResting` | `Spec => []FlatAtRest` |

The first three follow an approval from the account update it counted to the order at the broker. What it says is one formula
of the present, `Approval`, which every step keeps (`Evolves`): time passes, a halt is entered now or before, what is new at
the broker is of now. `IInv` says it of every update, held, read and published decision, and of every entry.

For the next two, `PInv` gives each stream its kind of message and says that an intent's size was proposed, a decision's and an entry's
approved (`Backed`). That a size is a number of lots at all is the hard part: the gate takes the least of what its limits leave
room for, and those are sums over the open positions. `SumFunction` is a fold; that it is an integer for integers, and that the least room
is in each limit, is shown by a least counterexample (`Least`, from the library's well-founded order on the naturals), on the number
of positions summed. `ApprovedLots` then bounds every approval by the intent and `MaxLot`, for any snapshot.

`FlatAtRest` speaks of the pump at rest only. `QInv` says where the pump may be while what is unread. `PumpRest`: no account update,
closed trade or decision is unread, and no entry under way, when the scheduler moves on; a second pump, the owner's, runs only while the
first waits for the broker. `HaltKept`: after a halt no decision in the stream approves anything, and either the halt is still
to be read or the broker is empty. `DemotionKept`: after a demotion the gate learns of it before its next answer, since `stages` comes before
`intents` in a round, and the order to close is still unread or what is left at the broker is one of the named exceptions; the one
demotion amid a round is the owner's, and what is decided until the gate reads of it is an entry execution could not see. At rest
nothing is unread. `Known` carries what `OnControl` needs: it acts on the journal, so what is at the broker must be in it.

`BrokerSession_proofs`, for kinds `ctrader` and `http` and operations among `Ops`: `AdaptersTellTheTruth`
(`Spec => []AnswersAreTrue`, the formula of `BrokerSession`). A request's number is its own, so an answer can only be taken by the
call that waits for it; the broker takes a request from the wire once and answers afterwards; and nothing that was applied
is reported as refused.

`DealSync_proofs`, from `DealSyncAssumption` (a payment is booked no later than the lookback), for any callers of `sync_deals`,
lots, deals, retention and crashes:

| Theorem | States |
|---|---|
| `NothingIsMissed` | `Spec => []NothingMissed` |
| `BooksTyped` | `Spec => []TypeOK` |
| `BooksAgree` | `Spec => []BooksMatch` |
| `TradesAreWhole` | `Spec => []TradeWhole` |

`NothingMissed` speaks of the journal, which is not enough: `IInv`
says the same of memory (`Covers`), of a query under way with the cursor it was sent with (`Asking`), and of an answer being
applied: what is neither counted nor still to do is no older than a payment may be late (`Applying`). The clock stands still
while a sync runs, the cursor it leaves is not in the future, so the next window reaches back far enough. Each step of a caller goes
through one lemma (`TaskStep`), each deal the broker books through another (`Booking`).

`BooksTyped` needs `TInv`, the types with the callers' cursors and the counted deals. Its hard parts are that a sum of integers over a
fold is one (`Least`, `Upto`: existence and agreement of the fold on a least counterexample, as in `TradingPath_proofs`) and that the
tracked lots stay in `0..Lots`. For the other two the sum must also grow by the deal that is added (`SumMore`, `Totals`).

`BooksMatch` and `TradeWhole` are not inductive: they speak of books nobody is writing. `AInv` says what holds between. `Booked` is about the
broker alone: the position is opened once, with all its lots, and closed by no more than them. The rest holds while no save has dropped a
deal a query still returns (`~lull`), of memory and of the journal alike. `Money`: the expected balance is what `initialize` read and every
deal counted since. `Tracks`: of the position's deals the books have counted all up to one of them, and all once the lots are out; the net,
the lots and the state are of just these. `Published`: a trade is of a position that is closed. Then, of each caller: it takes the
position's deals in order (`InTurn`), nothing the books have forgotten is among its deals or in its window (`Apart`), if another's sync
went further than its cursor all but the newest are counted (`Behind`), what is neither counted nor still to do came late (`Left`), and while
it waits for its stop a save drops nothing it has still to skip (`Keeps`); two are never applying at once (`Alone`), since the only
await in that loop is `confirm_stop`, and other callers may count deals meanwhile. So a deal that is not in `seen` was never counted,
and the next deal of the position comes after all those before it.
TLC checked `AInv` on an instance of two callers and three deals before it was proved; no run of the project checks it.

`Lifecycle_proofs`, from `LifecycleAssumption` (the ledger found at the start is one the registry wrote), for any versions, parents,
windows, limits and start ledgers: `LifecycleTypesHold`, `DemotedVersionsAreClosed` (`Spec => []DemotedIsClosed`) and `StagesAreTold`
(`Spec => []StagesTold`). The state of a version is what the registry replays, which the model says without a fold: `Stage(v)` is that of
`Latest(v)`, the last of the version's records, so that an appended record changes one version's stage and no other's, and no induction
over the ledger is needed. `DemotedIsClosed` speaks of a service whose handlers have ended; `IInv` says the same in the middle of a job.
Behind the record of a demotion out of the money stands the order to close (`CloseFollows`), that record is the next step of its job and of a
version that holds money (`DemotesFirst`), only records and orders stand before an
order (`OrdersAhead`), and neither of the two raises, so that the exception a rollback raises comes too late to drop it: a version
demoted out of the money is closed, or its order is in the job or in the queue (`CloseUnderway`). The versions of `kept` are excepted in the
theorem as in the property, since the code orders nothing for them (section 4). No close order is in a job or
queued without such a record (`CloseIsDue`, `OrdersDue`), and none is published while the change is queued (`ClosedAfterChange`).
For `StagesTold`, `Agrees`: a version of which no change is queued is told as it is, and otherwise the last change queued of it tells its stage; so it is
in a running process, except for the first step after a start, which publishes the snapshot (`Current`).
TLC checked `IInv` on the instance of `parts` before it was proved.

`Parts_proofs` proves the promises of nine parts that share no state, each an instance of its module under the names of its own
constants and variables:

| Theorem | States | From |
|---|---|---|
| `NoEntryLeftBehind` | `Dog!Spec => []Dog!OutageCancels` of `Watchdog` | nothing |
| `ChainNeverBreaks` | `Chain!Spec => []Chain!ChainUnbroken` of `Ledger` | no writer is called `NoOne` |
| `CalendarIsHonest` | `Events!Spec => []Events!CalendarHonest` of `Calendar` | `CalendarAssumption`: a week is not empty, the age and the interval are naturals, `None` is no time |
| `OutcomesStand` | `Journalled!Spec => []Journalled!JournalStands` of `SignalJournal` | the signals are finitely many |
| `CheaperIsSlow` | `Costed!Spec => []Costed!CheaperWaits` of `CostModel` | `CostAssumption`: costs, `MinFills` and `Weeks` are integers |
| `HoldoutSeenOnce` | `Validated!Spec => []Validated!HoldoutKept` of `Validation` | `MaxPerFamily` is a natural |
| `WordIsKept` | `Talk!Spec => []Talk!AssistantKeepsItsWord` of `Assistant` | `AssistantAssumption`: rounds and saves are naturals |
| `MonitorRemembers` | `Watched!Spec => []Watched!MonitorHolds` of `Monitor` | `MonitorAssumption`: a date has cycles, the close and the delay are naturals, equity is no less than 0, `None` is no number, `Resume <= Pause` |
| `AnswersComeInTime` | `Claude!Spec => []Claude!AnswersInTime` of `AiTrader` | `AiAssumption`: the budget and the window are integers |

*Watchdog.* While a pass over the entries runs, what rests of the system's orders is still to be cancelled, was refused or came after
the list was asked for; so it is when the list is empty. A service that is newly lost makes a pass owed again, and an order that is gone does
not come back. *Ledger.* Who has found the last hash still holds the lock, so it is still the last one and no half line is in
the file; a remembered tail is the hash of a line that stays where it was. *Calendar.* Memory and file each hold the export of their own
time, and the last question to the site is the latest of all. *SignalJournal.* Memory is the file between any two steps, an open entry
has no outcome, so none gets a second one, and what waits to be published is of signals that have no trade yet (`ToPublish`, `Published`); a crash
forgets what waits, which loses a trade and repeats none. *CostModel.* `CheaperWaits` is about all of the registry, but of each version only
about those before it, and the registry is only appended to, so it is to be shown of a new version only (`WaitsStays`). The new one
drops below an old one either against the version in force, which the rule allowed, or against one that the version in force had dropped below already,
or else had no number for. *Validation.* The attempt is on the ledger before the evaluation, so no later run of the version gets past
the lock (`SeenOnce`); an attempt is added where the count is below the quota (`WithinQuota`); and the records of a run carry its number and its version
(`OfRuns`), so that what the checks count includes them and a report rests on its own run's holdout (`RunHonest`). *Assistant.* The turns are in
order in the file and in the reply's copy of it while no writes crossed (`TurnsInv`). A number is given out by a save and taken by the
next start, so that what goes to the history under a number that no start knows is the running save's own, and what a start
registered is never overwritten (`InHistory`, `Numbered`). *Monitor.* The first cycle of a date after the close has the summary, so what it
lists had closed before that close, and the next summary, on a later date, looks back to it at most: no trade is told twice, at any length
of the day (`ToldOnce`); a trade that no summary passed closed since the last (`Untold`), and before the first restart the peak is the highest
equity read (`PeakKnown`). `parts` has dates with one cycle after the close; TLC checked the invariant with several, too.
*AiTrader.* The calls that are remembered are the last that were made, and those before them are out of the window already (`AtTheEnd`), so a
question that is asked with fewer remembered than the budget has all of its window among them; each question in flight was asked and is
not answered yet (`AnswersCount`).
Each invariant was checked by TLC first, on the instance of `parts` or a larger one. `parts` checks the formulas inside
`LearningHonest`, `RecordsStand`, `AnswersHold` and `FailuresMended`; `ChainUnbroken` is the one of `Ledger` in the invariant of that name.

Only model-checked: `LadderKept`, whose invariant would have to say which records a job may still hold once its first is made; everything temporal beyond `[]` (`StopRestored`, `TradePublished`, `ReconHaltEnds`, `IntentAnswered`,
`AlertsArrive`), since fairness and `ENABLED` are out of the prover's reach; `SimBroker` and `LiveBars`, which use
recursive operators; and of the other parts `ShadowBroker`, `Reopt`, `Journeys`, `Reconcile`, `Sniper`, `Structure` and
`Candlestick`: most of them fold or filter sequences, whose results would need an induction over data.
The invariants of `parts` are conjunctions over all its parts, and its module reaches the recursive operators, so no theorem states them as a whole.

## 6. Not modelled

| Left out | Why |
|---|---|
| prices, money and rounding outside `RiskGate`, `SimBroker` and `ShadowBroker` | floating-point data that no control depends on; the gate's and the fills' arithmetic is in integers |
| statistics: promotion, validation and regime tests, lessons, the meta filter, weights of several strategies | numerical procedures without state; a choice of the verdict stands for them |
| averages, bands, oscillators, the other library strategies | series of floats; `Structure`, `Candlestick` and `Sniper` are the ones with state that can disagree |
| signatures, hashes | assumed sound; a hash is a name |
| start-up checks, building the stack, the journal's refusal to start when corrupt | run once, before anything concurrent |
| order events and views, quotes and history downloads, execution quality | read-only |
| Redis and the dead letters of `core/bus.py` | the in-memory bus is the one composed in `cli/demo.py` |
| HTTP API, command line, web, dashboards, reports, migrations, deployment, MT5 bridge | views and shells; the owner's commands appear as actions of the components they reach |

Details that a definition leaves out, where no property depends on them:

| Definition | What the code does beyond it |
|---|---|
| `BrokerSession!Send` | a `ConnectionClosed` of the library is no `OSError` and leaves the adapter as it is (`ctrader.py:316-328`), where the model ends the call as unreachable; the second request of a close opens the session again if it has to (332-334), where the model's fails; a 4xx of the MT5 bridge raises (`mt5.py:74`). None of these reports success or a refusal |
| `Ledger!Crash` | a record cut just before its newline can still be parsed, and the next one is written behind it on the same line (`core/ledger.py:45-57`); the model's half line never parses |
| `DealSync!Before` | deals of one time are sorted by their id as text (`OM:512`), in the model by their booking |
| `OrderManager!StopChecked` | looks for the position it was called with (`OM:430`, `448`), in the model for that of the tracked order, the same one while the call is under way |
| `Assistant!Archives` | copies the old version and then removes it (`ai/builder.py:391-408`); a crash between the two is not modelled |
| `Sniper!Armed` | allows a quarter of the hourly ATR below a zone (`smc_sniper/strategy.py:336`); the model's zones have it in their bounds |
| `TradingPath!OnIntent` | rejects an intent for which an input is missing (`risk/service.py:155-166`), which the model leaves out; the gate's save and its publication are one step |

Two hazards have no property. `initialize` reads the balance, then the clock: `BooksMatch` assumes
`CleanStart`, which names exactly that race. A rollover without an account update, or a broker that cannot be reached in the
bus service's cycle, skips the minute's later jobs: `TradingPath` lets account updates fail to come, but not the other jobs.

## 7. What is left

1. `Reconcile` composed with `OrderManager`, so that the drift of interleaved tasks and its repair are one run.
2. The scheduler's minute with jobs that fail one by one.
3. A proof of `LadderKept`: what a job may still hold once its first record is made.
