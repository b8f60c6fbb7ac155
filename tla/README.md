# Verification of finance_trade_api

This directory holds TLA+ models of the trading system in `src/`, the TLC
configurations that check them on small instances, and TLAPS proofs of the
results that hold for every value of the constants. Paths below are relative to
the repository.

## The system

One asyncio process (`main.py`) trades on Upbit and Binance. A WebSocket feed
publishes prices on an event bus; strategies, an ensemble and a stop-loss
monitor publish signals; an order manager checks them against a risk manager,
sends orders to a broker, writes them to a database and publishes what became of
them; a position manager follows the fills. A scheduler, a dashboard, a report,
an optional Redis bridge and a backtester stand around it.

### Inventory

| Component | State | Operations | What makes it hard | What makes it correct |
|---|---|---|---|---|
| `core/event.py` EventBus | subscribers of each event type | subscribe, publish | publish runs all subscribers as concurrent tasks and waits for them; an exception of one is logged | everyone is called once; the publisher goes on when all are done |
| `core/event_bus_redis.py` RedisEventBus | the same, a Redis stream and a Pub/Sub channel | publish, watch_param_updates | local handlers first, then the stream: an event caused by another one precedes it | events in the stream in a causal order; loss of Redis is harmless |
| `execution/order_manager.py` OrderManager | `_last_order_time`; the rows of orders and trades | on_signal, _submit_dca, _submit | four kinds of await, background tasks, ambiguous failures of the exchange, a UNIQUE constraint inside the except branch | cooldown between orders; the ledger, the events and the exchange agree; every handler ends |
| `execution/risk.py` RiskManager | `_daily_loss`, `_loss_reset_date` | check, record_loss, reset_daily_loss | two time zones, a stale balance, rounding after a limit is applied | what is approved is within every limit |
| `execution/stop_loss.py` StopLossMonitor | `_triggered` | on_price_updated | the mark and the position change at different times | an entry is sold once, and is sold |
| `portfolio/position.py` PositionManager | positions | on_order_filled | fills of nothing, overselling, rounding | follows the trades; the average price makes sense |
| `portfolio/account.py` AccountManager | cached balances | sync | stale between synchronisations | no more than a cache |
| `broker/upbit`, `broker/binance` | HTTP clients, WebSocket feeds | place_order, feeds | units of a market buy, defaults of missing fields, reconnects | the order the caller meant |
| `core/engine.py`, `main.py`, `scheduler.py` | strategies, tasks, jobs | start, stop, routing | one tick at a time, subscriptions spread over three places, shutdown | a tick finds everybody subscribed; the feed reconnects; shutdown ends |
| `strategy/impl/*` | edge detectors per symbol, parameters | on_tick, update_params | parameters change between ticks; candles run short | one signal per cross |
| `strategy/aggregator.py` | shares the strategies' state | on_tick_event | evaluates the same instance as the engine | a majority is published; voting has no side effects |
| `strategy/store.py` | strategies by name, a Redis hash | register, update_params, sync | unordered background writes; a change reaches its own process twice | Redis and every process end up with the last parameters |
| `data/collector`, `market/snapshot.py` | ticks, candle lists, candle table | collect_candles, update_* | overlapping batches, a swallowed unique violation, growing lists | candles in order and once for the strategies; every minute in the table |
| `data/processor` | none | indicators, features | windows and boundaries | a signal is true of the candles |
| `report/daily_report.py` | none | generate | a KST day in UTC rows | every trade in one report |
| `api/dashboard.py` | WebSocket clients, a stream position | connect, broadcast, Redis reader, routes | the client set changes while it is iterated over | the reader loses its place never; no client stops a publication |
| `backtest/` | simulated balance and holdings | buy, sell, run, optimise | fees and rounding at the edge of the balance | profits add up to the return; the best parameters win |
| `alert/`, `db/repositories`, `config/` | none | messages, queries, settings | I/O | not modelled |

How they interact, on the path that trades:

    feed --PRICE_UPDATED--> StopLossMonitor --+
                       \--> engine: strategies +--SIGNAL_GENERATED--> OrderManager
                       \--> StrategyAggregator-+                        |  check
                                                                        v
    PositionManager <--ORDER_FILLED-- OrderManager._submit <------- RiskManager
         |  read by                        | commit                  reads positions
         v                                 v                         and the balance
    StopLossMonitor, RiskManager      orders, trades tables

Everything runs on one event loop, so the code between two awaits that really
suspend is atomic. `EventBus.publish` waits for its subscribers and the feed
waits for `publish`: one tick is handled at a time, and a signal is handled
before its publisher goes on. Concurrency is left in three places: the
subscribers of one event, which interleave with each other; DCA tasks, which
nothing waits for; and the exchange.

The docs describe some of this differently: `docs/functionality.md:165` calls the
bus sequential, and `docs/project_evaluation_report_20260320.md:164` fears a race
in the cooldown check. The models follow the code; the cooldown result below
shows that there is no such race, since nothing suspends between the check and
the assignment.

## Modules

| Module | Models | State | Actions |
|---|---|---|---|
| `Decimals` | `Decimal.quantize` | - | `RoundHalfEven` |
| `OrderManager` | `execution/order_manager.py` | `lastOrderTime` = `_last_order_time`; `pc`, `local` = where each task is suspended and its locals; `orders`, `trades` = the tables; `published` = events; `submitted` = what was sent to the exchange and what it made of it | one per stretch of code between two awaits, with every outcome of the await an action of its own; `Tick`, `ExchangeFills`, `Crash` are the environment |
| `PositionManager` | `portfolio/position.py` | `positions`, and `entries`, a history of what each entry's own buys paid | `OnOrderFilled` |
| `RiskRules` | the three rules of `RiskManager.check` | - | `AdjustedQty`, `ExceedsDailyLoss`, `ExceedsRatio`, `Approves` |
| `RiskManager` | `execution/risk.py` and the midnight job | `dailyLoss`, `lossResetDate`, the last `decision`, a clock and a history counter | `Check`, `RecordLoss`, `ResetDailyLoss` |
| `DailyJobs` | the two daily jobs of `scheduler.py` and `report/daily_report.py`, over `RiskManager` | the hour of a trade, how many reports counted it | `HourPasses`, `TradeCommitted`, `Trading` |
| `StopLossMonitor` | `execution/stop_loss.py`, over `PositionManager` | `triggered` = `_triggered`, `fired` (history: sells of an entry) | `Rearm`, `Hold`, `Trigger`, `Fill` |
| `TradingCore` | the wiring of `main.py` and `core/engine.py`: feed, monitor, strategies, OrderManager, RiskRules, PositionManager, AccountManager, exchange | all of the above, the tick that is handled, the cached and the real balances | `PriceTick`, `MonitorRuns`, `StrategyRuns`, `OrderStep`, `PositionUpdated`, `AccountSync`, `OrderFills`, `Crash` |
| `Indicators` | `data/processor/indicators` | - | what a strategy reads from a list of closes |
| `MarketData` | `data/collector`, `market/snapshot.py` | the exchange's candles, the snapshot's list, the table | `CollectSymbol`, `SnapshotLost` |
| `SignalPipeline` | `strategy/impl/*`, `strategy/aggregator.py` and the engine's loop, over the two above | the edge detectors (`prev`), windows, model, whose turn it is, who signalled in this tick | `TickArrives` (the aggregator votes), `StrategyRuns`, `Resume`, `Collect`, `UpdateParams`, `Train`, `Restart` |
| `Dashboard` | `core/event.py`, `core/event_bus_redis.py`, the streaming half of `api/dashboard.py` | publications under way and their causes, the stream, the client set, broadcasts, the reader | `Publish`, `PublishReturns`, `Cast`, `ReaderStep`, `Connect`, `Disconnect`, Redis outages |
| `ParamSync` | `strategy/store.py`, the parameter route of `api/dashboard.py`, `watch_param_updates` | `params`, messages, copies under way, the hash | `PostHere`, `PostElsewhere`, `PublicationArrives`, `WatcherReceives`, `SyncBegins`, `SyncEnds`, and their failures |
| `Lifecycle` | `main.py`, `TradingEngine.start` and `stop`, the Upbit feed, the scheduler's end, over `ParamSync` | how far `build_app` is, who is subscribed, the feed, the server, the clean-up | one per await of `build_app`, the feed's loop, signals, the steps of the `finally`, `Restart` |
| `Backtest` | `backtest/runner.py`, `backtest/optimizer.py` | balance, holding, the sums of the trades, scores | `Candle`, `ForceClose`, `RunEnds` |
| `Protection_proofs` | - | - | theorems about `PositionManager`, `StopLossMonitor`, `RiskManager` and `DailyJobs` |
| `*_proofs` | - | - | theorems about the module of the same name |
| `MC*` | - | - | values of the constants for TLC |

`TradingCore` composes by instances: its `OM` and `SL` share its
variables, each of its actions conjoins the actions of the components that move
together, and where `OrderManager` leaves a choice (which signals come, what the
risk check answers, what the exchange does) `TradingCore` says which it is. That
it is still an `OrderManager` is the property `ImplementsOrderManager`, so
`OrderManager` is also the abstract specification of the order path.
`StopLossMonitor`, `DailyJobs`, `SignalPipeline` and `Lifecycle` compose by
extension: each extends the modules it names above and lets their actions happen
where the code calls them. `MCProtection` puts `StopLossMonitor` and `DailyJobs`,
which share nothing, into one run.

Operators named in a comment as `Mutant` are not part of a model. Each is a
plausible mistake in the definition that follows it, and replaces it to confirm
that a property would notice.

### Abstractions

- Amounts are integers: a count of the smallest unit. What the code rounds with
  `quantize` is rounded half to even; the average price, which the code keeps to
  the 28 digits of a Decimal, is rounded the same way to a unit in
  `PositionManager`, and kept exact, as a cost, in `Backtest` (so the rounding of
  that quotient is not in `PnlExplainsReturn`).
- A symbol, a task and a strategy have no content. Signal strength, metadata,
  messages and error texts are left out; so are the `signals`, `positions` and
  `balance_history` tables, which no trading code reads.
- The identifier the exchange gives an order is its position in `submitted`;
  "pending" is 0. A failure that leaves the request without an answer and one
  that leaves the process unable to parse the answer are one action
  (`PlaceOrderRaises`), since `_submit` treats them alike.
- A commit is one step that succeeds, or fails and leaves nothing. `Crash`
  between two steps therefore covers a crash at any await.
- `_save_signal` ignores its failures, so both outcomes are one.
- `stop_loss_pct`, `take_profit_pct` and `max_position_ratio` are fractions, and
  comparisons with floats are exact. So are those of the indicators: a quotient
  is compared by multiplying crosswise.
- In `TradingCore` a new DCA task starts only once the previous one is over, and
  the exchange fills an order whole; `OrderManager` has neither restriction. A
  strategy publishes any signal there; `SignalPipeline` says which.
- The aggregator is left out of `TradingCore`, since as `main.py` configures it
  it publishes nothing: of its three members only the MA crossover can vote, and
  one vote in three is below the threshold (see the run `ensemble`).
- `entries` of `PositionManager` is a history, which nothing reads: `TradingCore`
  keeps the positions without it.
- `SignalPipeline` follows one symbol. The side of MACD's signal line is any
  once there are candles enough, and so is what a trained model predicts. In the
  models an RSI period, a window or a margin is a small number, in the same order
  as the code's.
- `Dashboard` keeps the hash table behind the set of clients: after a change that
  restores the size, Python's iterator goes on over any part of the set, at most
  as many as it has slots left. A send is one step.
- In `ParamSync` an update is a number, and only the newest matters. `lost`
  remembers that a message was lost and none has come since; `stale` that the
  newest copy failed, or that an older one was being written beside it, and that no
  copy has been made alone since. The properties speak of the moments without:
  nothing in the code mends a loss or a bad copy but the next message or change,
  and the properties say that these do.
- In `Backtest` a strategy that has its features buys or sells at any candle.

## Runs

### Runs that pass

| Run | Instance | Shows |
|---|---|---|
| `order_manager` | one symbol, two tasks, orders of up to two units filled in part, buys split in two, cooldown 2, all faults, one restart | `CooldownSpacing`, `SplitsBounded`, `LedgerAtomic`, `EventsFollowLedger`, `TradesBacked`, `TypeOK` |
| `safeguards` | one symbol, up to four units, buys of nothing and at no price, thresholds of a quarter; four days of four hours, KST an hour ahead, jobs that fire in the middle of the UTC day or are missed | `AveragePriceAmongPrices`, `AverageExplainsCost`, `OneSellPerEntry`, `MonitorTypeOK`; `ApprovedWithinLimits`, `NoStaleLoss`, `CountedOnce`, `NoneForgotten` |
| `trading_core` | buys split in two, orders at most as large as the limit, prices 1 and 2, one strategy, three signals, all faults, a restart, fair tasks | `PositionFollowsTrades`, `ImplementsOrderManager`, `FeedGoesOn`, `TasksFinish` |
| `signals` | closes 1 and 2, two batches of four candles, all five strategies, an aggregator of the MA crossover alone, of the ML strategy alone or that of `main.py` | `WindowConsecutive`, `CrossHeardOnce`, `SignalsJustified`, `TypeOK` |
| `dashboard` | both modes, two clients, three events of which two are under way at once, a stream of two, one outage | `EffectsFirst`, `ReaderSkipsNothing`, `ReaderKeepsUp`, `PublicationsEnd`, `TypeOK` |
| `lifecycle` | any start-up, loss, signal and restart, two updates | `TickFindsHandlers`, `LastMessageWins`, `HashFollowsParams`, `FeedReconnects`, `CleansUp`, `TypeOK` |
| `backtest` | two runs of five candles, prices 7, 10 and 13, a fee of 1/20, orders of a part and of all of the balance | `PnlExplainsReturn`, `BestIsFirstHighest`, `TypeOK` |

What the properties say:

- `CooldownSpacing`: two orders of a symbol from two signals were let through at
  least a cooldown apart, in one run of the process.
- `SplitsBounded`: a signal never sends more orders than its splits.
- `LedgerAtomic`, `EventsFollowLedger`: trades and accepted orders come in pairs;
  an event is published after its row and never contradicts another.
- `TradesBacked`: no trade records more than the exchange executed.
- `TasksFinish`, `FeedGoesOn`: handlers, DCA tasks and ticks end.
- `AveragePriceAmongPrices`: the average of an open position is within the prices
  that this entry's own buys paid.
- `AverageExplainsCost`: the average times the quantity is what the entry's buys
  cost, less the parts sold, but for half a unit for each unit held at each buy.
- `OneSellPerEntry`: the monitor publishes one SELL for an entry at most.
- `ApprovedWithinLimits`: what is approved is within the limits with the quantity
  that is sent. The order limit holds up to half a unit of quantity, because the
  reduced quantity is rounded to the nearest unit and not down.
- `NoStaleLoss`: no check counts a loss of an earlier UTC date.
- `CountedOnce`, `NoneForgotten`: no trade is in two daily reports, and with no
  report missed it is in one, within three days.
- `PositionFollowsTrades`: once delivered, what the trades bought bounds the
  position from above and what they bought less what they sold from below (a
  position that is oversold is zero, so it is not an equality).
- `WindowConsecutive`: although the list repeats candles, what a strategy reads
  is the newest of the exchange's, in order and once.
- `CrossHeardOnce`: with an aggregator of the MA crossover alone, a cross is
  published once, although the aggregator and the engine evaluate one instance.
- `SignalsJustified`: a signal is true of the exchange's candles when it is given.
- `EffectsFirst`: an event that a handler published is in the stream before the
  one that was handled.
- `ReaderSkipsNothing`, `ReaderKeepsUp`: the reader takes what the stream has one
  by one, and gets to its end.
- `PublicationsEnd`: clients cannot hold up a publication for ever.
- `TickFindsHandlers`: the first tick finds everybody subscribed.
- `LastMessageWins`, `HashFollowsParams`: parameters in the engine, in the last
  message and in Redis agree when nothing is under way, a lost message or a bad copy
  being made good by the next.
- `FeedReconnects`, `CleansUp`: the feed and the end.
- `PnlExplainsReturn`: profits add up to the return but for rounded fees.
- `BestIsFirstHighest`: what the optimizer returns.

### Runs that find a disagreement

Each checks one sentence of the repository that the code does not keep.

| Run | Sentence | What happens |
|---|---|---|
| `units` | `order_manager.py:97`, `rest.py:75`: a market buy is for KRW | the quantity is in coins, and the broker spends it as KRW |
| `protection` | `stop_loss.py:2`: executed automatically | the sell is dropped, refused or partial and the mark stays |
| `candles` | `market_collector.py:41`, `:23`, `:75`, `docs/functionality.md:107`: the newest candles are saved to the table too, an upsert, duplicates are ignored | a batch overlaps the one before, its first duplicate rolls back all of it, and the new minutes are in the snapshot only |
| `ensemble` | `docs/requirements.md:47`, `:53`, `:79`, `ma_crossover.py:23`, `aggregator.py:37`, `main.py:194`: a golden cross is signalled, the ensemble votes and works apart from the engine | the aggregator's evaluation uses up the cross of the MA crossover, its single vote of three publishes nothing, and the engine sees no cross any more |
| `shutdown` | `docs/userflow.md:429`, `docs/requirements.md:296`: SIGTERM sets `stop_event`, and the engine is stopped | `gather` also waits for `engine.start()`, which ends only when the `finally` behind it calls `engine.stop()` |

Other sentences that the code plainly does not keep need no run; the models
contain all of them, and the properties that pass hold in spite of them:

- The second failed order keeps `order_id` "pending", its row violates the UNIQUE
  constraint inside the except branch and it is announced to nobody, although
  `order_manager.py:33` ends every order in ORDER_FILLED or ORDER_FAILED.
- Fills after the response never reach the position (`position.py:2` tracks what
  is held), and ORDER_FILLED does not wait for a fill (`core/event.py:28`).
- A position that closes and opens again between two ticks is not watched, although
  `stop_loss.py:68` arms the monitor at the next entry.
- A sell is sized by `default_order_krw` and not by the position
  (`order_manager.py:97`), and the row of an order is written after the exchange
  has answered (`order_manager.py:156`).
- The daily loss is also reset at midnight UTC (`scheduler.py:62`), and the
  position ratio leaves out what is held (`risk.py:22`).
- A buy of the backtest is "adjusted within the available balance"
  (`backtest/runner.py:154`), and `tests/unit/test_backtest_runner.py:94` has cost
  and fee within the initial balance; but the test asserts the cost alone, and since
  the adjusted quantity and the fee are rounded to the nearest, the balance may
  fall below zero (in that test by some 0.38 KRW). `OverdraftIsBounded` says by how
  much at most.
- The window of a report is not yesterday in KST (`daily_report.py:36`) but the UTC
  day its beginning falls on, so a trade may have to wait for two reports.

### Bounds

`Tasks`, `MaxClock`, `MaxSignals` and `MaxEpoch` bound the tasks active at once,
the seconds, the signals and the restarts; `MaxQty` the quantity held and
`MaxDrift` the history of its roundings; `MaxHour`
and `MaxLoss` the clock and the losses of `RiskManager`; `MaxCandles` and
`MaxBatches` the candles and the collections; `MaxEvents`, `MaxCalling` and
`MaxOutages` the events, those under way at once and the outages; `MaxUpdates` the
parameter changes; `NumCandles` and `NumRuns` the backtest. `Exhausted` stutters
only when the bounds leave nothing to do and no task is active, so the runs check
for deadlock; only `backtest` may stop, when its runs are over.

Two tasks and two signals are enough for each pair of handlers to meet at each
await, and for a split to meet the next signal; the cooldown of one or two
seconds is crossed within `MaxClock`. `MaxEpoch = 1` gives one restart at any
point. Three signals allow an entry, its exit or the monitor's sell, and a new
entry. With prices 1 and 2 a price doubles or halves, past both thresholds, and an
order is for different quantities before and after; `DefaultKrw` and the balances
are small multiples of them, so that orders are covered, refused and cut.
`trading_core` has two constraints besides: the clock and the cached balance move
between two ticks only (`BetweenTicks`; in `order_manager` the clock moves between
any two steps), and a history crosses the cooldown or a restart but not both
(`ClockOrRestart`). Neither holds up a step with a fairness condition, and the
theorems about `TradingCore` do without them.

The monitor handles each symbol by itself, so one is enough; the monitor and the
daily jobs share no state, so each moves only while the other has not begun. Prices
4 and 7 at quantities up to two make means that are rounded up and down; `MaxDrift`
lets the quantities held at the buys of an entry add up to twelve, which takes four
buys at least. `signals` and
`candles` have a database that works (`DbFails`), since no strategy reads the table;
`ensemble` has one that may fail.

Four days follow a trade of any hour of the first one for the three days that
`NoneForgotten` allows. Two batches overlap in three, two or all candles but the
newest, which changes between them; windows of two and three let every indicator
reach each of its zones and run short of candles after a restart. Two clients let
the set change with and without a change of its size during a send; a stream of
two events forgets one of three before it is read. Two updates let a message and
a copy overtake another. Five candles allow two buys before a sell, a further
buy and a forced sale, at prices that divide neither each other nor the balance.
The proofs remove the bounds for the properties they cover.

### Fairness

`OrderManager` and `TradingCore` ask weak fairness of each task's steps, of the
monitor and of the strategies: the asyncio loop runs every task that is ready,
the HTTP clients have a timeout, and commits end one way or the other.
`Dashboard` asks it of broadcasts, the reader and publications: a send ends,
since the server drops a peer that answers no ping. `Lifecycle` asks it of the
feed's loop and of each step of the clean-up, and strong fairness of
`FeedConnects` alone: a connection that is tried every five seconds is granted in
the end. Nothing is assumed of the rest of the environment: ticks, signals,
fills, clients, outages and the scheduler's jobs may come or not. `ShutsDown`
fails under this fairness, not for lack of it.

## Proofs

Every safety invariant that a run shows is a theorem, for every value of the
constants that the named assumptions allow; so are the
refinement and the action properties.

| Theorem | States | Invariant behind it |
|---|---|---|
| `OrderManagerTypes` | `Spec => [](TypeOK /\ LocalsFitPc)` | inductive together: a step needs to know that the place of a task's order is in `submitted` |
| `OrdersSpaced` | `Spec => [](CooldownInv /\ CooldownSpacing)` | `CooldownInv` |
| `SplitsAreBounded` | `Spec => [](SplitsInv /\ SplitsBounded)` | `SplitsInv` |
| `TablesAgree`, `EventsAgree`, `TradesAreBacked` | `Spec => []` of `LedgerAtomic`, `EventsFollowLedger`, `TradesBacked` | `LedgerInv` |
| `CoreImplementsOrderManager` | `TradingCore`'s `Spec => ImplementsOrderManager` | `CoreInv` |
| `CoreOrdersSound`, `CoreEntrySoldOnce` | the properties of `OrderManager` and of the monitor in `TradingCore` | the refinement; `FiredOnce` |
| `PositionsFollow` | `Spec => []PositionFollowsTrades` | `FollowInv`, over `OrderManager`'s |
| `AveragePriceSound`, `CostIsExplained` | `PositionSpec => []` of `AveragePriceAmongPrices`, `AverageExplainsCost` | a rounded weighted mean lies between what it averages, and within half a unit of it |
| `MonitorTypes`, `EntrySoldOnce` | `MonitorSpec => []` of `MonitorTypeOK`, `OneSellPerEntry` | a count above zero on an open position means that the symbol is marked |
| `ApprovalsSound` | `Spec => [](TypeOK /\ ApprovedWithinLimits /\ NoStaleLoss)` | `RiskInv` |
| `NoLossIsStale`, `DailyJobsSound`, `NoTradeForgotten` | `JobsSpec => []` of `NoStaleLoss`, `CountedOnce`, `NoneForgotten` | `JobsInv`, `NoneSkipped` |
| `PipelineTypes`, `WindowIsConsecutive`, `CrossIsHeardOnce`, `SignalsAreJustified` | `SignalPipeline`'s `Spec => []` of `TypeOK`, `WindowConsecutive`, `CrossHeardOnce`; `SignalsJustified` | `PipeInv` |
| `DashboardTypes`, `StreamRunsBackwards`, `ReaderSkipsNothingHolds` | `Dashboard`'s `Spec => []TypeOK`, `[]EffectsFirst`, `ReaderSkipsNothing` | `DashInv` |
| `LifecycleTypes`, `FirstTickHeard`, `ParamsAgree`, `LastMessageStays` | `Lifecycle`'s `Spec => []` of `TypeOK`, `TickFindsHandlers`, `HashFollowsParams`, `LastMessageWins` | `LifecycleInv` |
| `BacktestTypes`, `OverdraftIsBounded`, `ReturnIsExplained`, `BestIsFound` | `Backtest`'s `Spec => []` of `TypeOK`, `OverdraftBounded`, `PnlExplainsReturn`, `BestIsFirstHighest` | `BacktestInv` |

Why the properties need more than themselves:

- `CooldownSpacing` speaks of orders that were sent, while a DCA task will still
  send orders that were let through long ago. `CooldownInv` adds what bridges the
  gap: `_last_order_time` is never behind an order of this run or a split still to
  be sent (`LastOrderTimeRecords`), and the splits still to be sent are spaced from
  the orders sent and from each other (`SplitsSpaced`). A signal that passes the
  check is a cooldown away from `_last_order_time`, hence from all of them.
- `SplitsBounded` counts what was sent. `SplitsInv` says that a signal has one task
  at a time (`NumbersApart`) and that what it sent and has left to send add up to no
  more than the number of splits (`SplitsLeft`).
- The three ledger properties fail in the next step if two tasks record one order.
  `LedgerInv` says why they cannot: no two tasks wait for the same order
  (`OrdersApart`), a task goes by the identifier of its own order (`IdsFitPc`), and
  nothing is recorded about an order whose task is still at it
  (`UnsettledUnrecorded`).
- `CoreImplementsOrderManager` goes through the steps of `TradingCore`: each is a
  step of `OrderManager` or leaves its state alone. `CoreInv` gives the bounds that
  `OrderManager` puts on its environment: a risk check never approves more than it
  was asked for, and no order is for more than `DefaultKrw` units.
- `PositionFollowsTrades` compares the position with sums over the trades table.
  `FollowInv` says that a fill that waits to be delivered has one row of its own
  (`FillsAreTrades`), that an order has one trade (`TradesApart`), and that tasks are
  at work on orders of this run (`OrdersOfThisRun`), so that a delivery moves
  position and sum by the same quantity and a restart empties both. That a sum grows
  by what is added (`TotalGrows`) is proved for every finite set, although the fold
  chooses an order: by the least counterexample among its subsets.
- `ApprovedWithinLimits` and `NoStaleLoss`: the reset date never exceeds today's,
  and while it equals today's the counter is at most the losses of the day.
- `CountedOnce` is proved for any length of the day, offset of the time zone and
  hours of the jobs: the windows of two reports are two different UTC days, since
  two hours at which the report runs are a day apart. The invariant keeps a witness:
  the hour of the report that counted the trade is not after the present one.
  `NoneForgotten` has the counterpart: as long as nothing counted the trade and no
  report was missed, no report since could have (`NoneSkipped`), and the windows of
  three days' reports leave no gap.
- `WindowConsecutive` holds because the end of the list in memory is the batch
  fetched last (`Recent`). `CrossHeardOnce` is about one moment of a tick; `Voted`
  says what holds one step before, when the vote has used up the cross and the
  engine's first strategy is yet to run.
- `EffectsFirst` follows from the tree of publications (`StoryInv`): an event stays
  under way as long as one that its handlers published. `ReaderSkipsNothing` needs to
  know that what the reader has not forwarded are consecutive places of the stream,
  of which the first follows `stream_id` unless the stream has dropped it
  (`PlaceInv`); that in turn needs the single broadcast the reader waits for.
- `LifecycleInv`: `StartUpInv` says what `main` has done before each of its tasks may
  run, and so who is subscribed when the feed connects. `HashFollowsParams` speaks of
  a moment when nothing is under way; `CopyInv` says what holds on the way there: the
  hash has the parameters, or a copy is due, or one that carries the present value is
  being written, and if no copy is due no other value is being written. It says so
  unless `stale`, that is from each copy that is made alone to the next one that
  fails or is overlapped. `MessageInv` does the same for the channel, and `lost`.
- `PnlExplainsReturn` speaks of a moment when nothing is held. `GainInv` holds at any
  other: `FeeDen` times the gain that the trades do not explain, with the holding at
  its cost and an exact fee on that cost, is off by half a step for each fee that was
  rounded. `OverdraftBounded`, which is no run's property since the balance ought not
  to be negative at all, holds because a balance that is not negative pays the next
  buy but for two roundings, and a sell never brings less than nothing.
- `SignalsJustified` compares what the indicators fold out of the list in memory with
  sums over the exchange's minutes. `ClosesAre` gives the terms (the closes in memory
  are the newest minutes), `SumShifted` and `SumLinear` the sums, for any order of
  summation; the spread of the Bollinger bands is the sum of the squared differences of
  each two closes (`SpreadIs`). Of an ensemble's signal it shows that the MA crossover
  is among those who voted for it, unless the ML strategy is the only member.

The proofs assume the named assumptions on the constants (`OrderManagerAssumption`
and its like), which TLC evaluates in each run. Some say what the code or its
configuration fixes:

- `Dashboard`: the hash table behind the set of clients has a slot for each.
- `Backtest`: a fee is at most half of the value (`runner.py` has 0.0005).
- `MarketData`: the exchange has a batch of candles when the process starts.
- `SignalPipeline`: the windows with their margin fit into a batch (200 candles, the
  `main.py`'s take 55 at most); the engine runs the MA crossover first and
  once (`main.py:186`); the threshold is above a half (`main.py:198` has 0.6): at a
  half or less both sides could reach it with the same votes; the upper level of the
  RSI is below 100 (`main.py:158` has 70), which is the RSI of a flat market.

`Decimals_proofs` holds the lemmas on rounding and division. No proof uses a mutant.

Only model-checked:

- liveness (`TasksFinish`, `FeedGoesOn`, `ReaderKeepsUp`, `PublicationsEnd`,
  `FeedReconnects`, `CleansUp`) and the five runs that find a disagreement: fairness
  and ENABLED are out of the prover's reach.

## Plan

Done: every component whose state decides something, alone or composed, and the
theorems above. Left:

1. Abstract specifications of components other than the order manager, where they say
   more than the properties do.
2. Two symbols in `SignalPipeline`, should the aggregator come to vote by symbol.

Runs keep to two or three actors and about two million states at most.

## Not modelled

- Charts, alerts, repositories, configuration and migrations: I/O without state
  that anything else reads. An alert appears as time that a publication takes.
- The Binance WebSocket feed: `main.py` creates the Upbit feed only, and the Binance
  one has `start` and `stop` where the engine calls `connect` and `disconnect`.
- `cancel_order`, `get_order`, `load_from_redis`: they have no caller.
- The dashboard's queries, its page, and the SSE endpoint `stream_events`, which
  has a read loop and no state of its own; the backtest endpoint calls what
  `Backtest` models.
- Drawdown and Sharpe ratio of a backtest, and the sums of the daily report:
  nothing is decided by them.
- The averages of MACD and the model of `MLStrategy`: floating-point values of
  which the strategies use one comparison, any outcome of which is allowed.
