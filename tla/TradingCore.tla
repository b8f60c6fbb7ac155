------------------------------ MODULE TradingCore ------------------------------
(***************************************************************************)
(* The trading path that main.py wires together: a price tick of the feed  *)
(* runs the stop-loss monitor and the engine's strategies, their signals   *)
(* run OrderManager.on_signal, which asks RiskManager, sends the order and *)
(* moves PositionManager's positions through ORDER_FILLED.                 *)
(*                                                                         *)
(* The feed awaits the handlers of a tick before it reads the next one,    *)
(* and each handler awaits the signals it publishes, so on_signal is       *)
(* active at most once for the monitor and once for the engine; a split    *)
(* buy goes on in a background task.  The strategies may publish any       *)
(* signal.  The aggregator publishes none (it never has more than one vote *)
(* of three: strategy/aggregator.py:102-125) and is left out, and so is    *)
(* the history of the prices that StopLossMonitor's module keeps.          *)
(*                                                                         *)
(* The exchange is what the brokers make of a market order                 *)
(* (broker/upbit/rest.py:61-85, broker/binance/rest.py:94-99): a sell is   *)
(* for a quantity, but the quantity of a buy is handed over as the amount  *)
(* of KRW to spend.  It fills an order whole at the current price, if the  *)
(* balance is sufficient, and refuses it otherwise.                        *)
(***************************************************************************)
EXTENDS RiskRules, Sequences, FiniteSets, FiniteSetsExt

CONSTANTS
  Symbols, Prices, DefaultKrw, Cooldown, DcaSplits, Faults,
  MaxClock, MaxSignals, MaxEpoch,  \* as in OrderManager
  StopNum, TakeNum, PctDen,        \* as in StopLossMonitor
  Strategies,                      \* number of the engine's strategies
  InitialKrw                       \* balance at the exchange at the start

ASSUME TradingCoreAssumption ==
  /\ Symbols # {}
  /\ Prices # {} /\ Prices \subseteq Nat \ {0}
  /\ DefaultKrw \in Nat /\ Cooldown \in Nat /\ DcaSplits \in Nat \ {0}
  /\ Faults \subseteq {"broker", "db", "crash"}
  /\ MaxClock \in Nat /\ MaxSignals \in Nat /\ MaxEpoch \in Nat
  /\ Strategies \in Nat /\ InitialKrw \in Nat

VARIABLES
  clock, epoch, received, lastOrderTime, pc, local, submitted, orders, trades,
  published,                      \* OrderManager's
  positions, triggered, fired,    \* PositionManager's and StopLossMonitor's
  price,           \* the last price of each symbol
  ticking,         \* the symbol of the tick that is handled
  monitorDue,      \* the stop-loss monitor has not run for it yet
  strategiesDue,   \* how many strategies have not run for it yet
  availableKrw,    \* AccountManager's cached KRW balance
  krw, holdings    \* the balances at the exchange

Tasks == {"stop_loss", "engine", "dca"}

omVars == <<clock, epoch, received, lastOrderTime, pc, local, submitted, orders,
            trades, published>>
monitorVars == <<positions, triggered, fired>>
tickVars == <<price, ticking, monitorDue, strategiesDue>>
exchangeVars == <<krw, holdings>>
vars == <<omVars, monitorVars, tickVars, availableKrw, exchangeVars>>

\* What a response may give as the executed price and quantity.
Amounts == Prices \cup 0 .. DefaultKrw

OM == INSTANCE OrderManager WITH ExecPrices <- Amounts
SL == INSTANCE StopLossMonitor
        WITH FillPrices <- Amounts, FillQtys <- 0 .. DefaultKrw, MaxQty <- 0,
             TickPrices <- Prices, MaxDrift <- 0,
             entries <- [s \in Symbols |-> [prices |-> {}, cost |-> 0, drift |-> 0]]

Init ==
  /\ OM!Init /\ SL!MonitorInit
  /\ price \in [Symbols -> Prices]
  /\ ticking \in Symbols
  /\ monitorDue = FALSE /\ strategiesDue = 0
  /\ krw = InitialKrw /\ availableKrw = InitialKrw
  /\ holdings = [s \in Symbols |-> 0]

-------------------------------------------------------------------------------
\* A tick and its handlers.

\* Every handler of the last tick has returned.
TickHandled ==
  /\ ~monitorDue /\ strategiesDue = 0
  /\ pc["stop_loss"] = "idle" /\ pc["engine"] = "idle"

\* The feed publishes PRICE_UPDATED (within the bound on signals).
PriceTick(s, p) ==
  /\ TickHandled
  /\ received + Strategies < MaxSignals
  /\ price' = [price EXCEPT ![s] = p]
  /\ ticking' = s
  /\ monitorDue' = TRUE /\ strategiesDue' = Strategies
  /\ UNCHANGED <<omVars, monitorVars, availableKrw, exchangeVars>>

\* StopLossMonitor.on_price_updated, up to the publication of its signal.
MonitorRuns ==
  /\ monitorDue
  /\ monitorDue' = FALSE
  /\ \/ /\ SL!Rearm(ticking) \/ SL!Hold(ticking, price[ticking])
        /\ UNCHANGED omVars
     \/ /\ SL!Trigger(ticking, price[ticking])
        /\ OM!OnSignal("stop_loss", ticking, "sell", price[ticking])
  /\ UNCHANGED <<positions, price, ticking, strategiesDue, availableKrw,
                 exchangeVars>>

\* TradingEngine._on_price_updated: the next strategy runs once the signal of
\* the one before is handled.  The engine subscribed after the monitor.
StrategyRuns ==
  /\ ~monitorDue /\ strategiesDue > 0
  /\ pc["engine"] = "idle"
  /\ strategiesDue' = strategiesDue - 1
  /\ \/ UNCHANGED omVars
     \/ \E signal \in {"buy", "sell"} :
          OM!OnSignal("engine", ticking, signal, price[ticking])
  /\ UNCHANGED <<monitorVars, price, ticking, monitorDue, availableKrw,
                 exchangeVars>>

-------------------------------------------------------------------------------
\* on_signal and _submit, with the answers of the risk check and the exchange.

\* The answer of risk.check for the signal of task t; no one records a loss.
Approved(t) ==
  LET l == local[t] IN
  Approves(OM!SideOf(l.signal), OM!Quantity(l.price), l.price,
           positions[l.symbol], availableKrw, 0)

\* Mutant: the value of the order is taken for its quantity.
ApprovedQtyInKrw(t) ==
  AdjustedQty(OM!Quantity(local[t].price), local[t].price) * local[t].price

ApprovedQty(t) == AdjustedQty(OM!Quantity(local[t].price), local[t].price)

\* What order n moves at the exchange at the current price: a buy spends its
\* quantity in KRW and gets what that buys, a sell gives its quantity.
Bought(n) == submitted[n].qty \div price[submitted[n].symbol]

Covered(n) ==
  LET o == submitted[n] IN
  IF o.side = "buy" THEN o.qty <= krw /\ Bought(n) > 0
                    ELSE o.qty <= holdings[o.symbol]

\* The executed price of the response to order n: the average price, or
\* without one the price field of the request (rest.py:153), which is the
\* amount of a buy and which a sell does not have.
ResponsePrices(n) ==
  LET o == submitted[n] IN
  {price[o.symbol], IF o.side = "buy" THEN o.qty ELSE 0}

\* The steps of a task that touch nothing but OrderManager's state.
OrderStep(t) ==
  /\ \/ OM!SkipSignal(t)
     \/ pc[t] = "saving" /\ ~Approved(t) /\ OM!RejectByRisk(t)
     \/ /\ pc[t] = "saving" /\ Approved(t)
        /\ OM!SubmitOrder(t, ApprovedQty(t)) \/ OM!SpawnDca(t, "dca", ApprovedQty(t))
     \/ OM!SubmitSplit(t)
     \/ /\ pc[t] = "placing"
        /\ Covered(local[t].sub) \/ submitted[local[t].sub].filled > 0
        /\ \E paid \in ResponsePrices(local[t].sub) : OM!PlaceOrderReturns(t, paid)
     \/ pc[t] = "placing" /\ ~Covered(local[t].sub) /\ OM!PlaceOrderRefused(t)
     \/ OM!PlaceOrderRaises(t)
     \/ OM!CommitOrder(t)
     \/ OM!CommitRaises(t)
     \/ OM!SaveFailedOrder(t)
     \/ OM!SaveFailedOrderRaises(t)
     \/ OM!PublishReturns(t)
  /\ UNCHANGED <<monitorVars, tickVars, availableKrw, exchangeVars>>

\* Mutant: the position moves by the quantity ordered.
PositionUpdatedByOrder(t) ==
  LET l == local[t] IN
  /\ OM!DeliverFilled(t)
  /\ SL!OnOrderFilled(l.symbol, OM!SideOf(l.signal), l.qty, l.paid)
  /\ SL!CountEntries
  /\ UNCHANGED <<triggered, tickVars, availableKrw, exchangeVars>>

\* ORDER_FILLED reaches PositionManager.on_order_filled.
PositionUpdated(t) ==
  LET l == local[t] IN
  /\ OM!DeliverFilled(t)
  /\ SL!OnOrderFilled(l.symbol, OM!SideOf(l.signal), l.executed, l.paid)
  /\ SL!CountEntries
  /\ UNCHANGED <<triggered, tickVars, availableKrw, exchangeVars>>

TaskStep(t) == OrderStep(t) \/ PositionUpdated(t)

-------------------------------------------------------------------------------
\* The rest of the process and the exchange.

\* The scheduler's account.sync.
AccountSync ==
  /\ availableKrw # krw
  /\ availableKrw' = krw
  /\ UNCHANGED <<omVars, monitorVars, tickVars, exchangeVars>>

\* The exchange fills order n.
OrderFills(n) ==
  LET o == submitted[n]
      s == o.symbol
  IN  /\ o.filled = 0 /\ Covered(n)
      /\ \/ /\ o.side = "buy"
            /\ OM!ExchangeFills(n, Bought(n))
            /\ holdings' = [holdings EXCEPT ![s] = @ + Bought(n)]
            /\ krw' = krw - o.qty
         \/ /\ o.side = "sell"
            /\ OM!ExchangeFills(n, o.qty)
            /\ holdings' = [holdings EXCEPT ![s] = @ - o.qty]
            /\ krw' = krw + o.qty * price[s]
      /\ UNCHANGED <<monitorVars, tickVars, availableKrw>>

Tick ==
  /\ OM!Tick
  /\ UNCHANGED <<monitorVars, tickVars, availableKrw, exchangeVars>>

\* The process restarts; build_app synchronises the balance.
Crash ==
  /\ OM!Crash
  /\ positions' = [s \in Symbols |-> SL!Closed]
  /\ triggered' = {}
  /\ fired' = [s \in Symbols |-> 0]
  /\ monitorDue' = FALSE /\ strategiesDue' = 0
  /\ availableKrw' = krw
  /\ UNCHANGED <<price, ticking, exchangeVars>>

\* Nothing is left to do within the bounds.
Exhausted ==
  /\ TickHandled /\ pc["dca"] = "idle"
  /\ received + Strategies >= MaxSignals
  /\ UNCHANGED vars

Next ==
  \/ \E s \in Symbols, p \in Prices : PriceTick(s, p)
  \/ MonitorRuns
  \/ StrategyRuns
  \/ \E t \in Tasks : TaskStep(t)
  \/ AccountSync
  \/ \E n \in DOMAIN submitted : OrderFills(n)
  \/ Tick
  \/ Crash
  \/ Exhausted

Spec == Init /\ [][Next]_vars

\* The event loop runs every task that is ready; requests time out and commits
\* end, in success or failure.
FairSpec ==
  /\ Spec
  /\ WF_vars(MonitorRuns) /\ WF_vars(StrategyRuns)
  /\ \A t \in Tasks : WF_vars(TaskStep(t))

-------------------------------------------------------------------------------
\* Properties.

\* The trades of this run of the process whose ORDER_FILLED was delivered.
DeliveredTrades(s, side) ==
  {tr \in trades :
     /\ tr.symbol = s /\ tr.side = side
     /\ submitted[tr.id].epoch = epoch
     /\ ~\E t \in Tasks : pc[t] = "publishing" /\ local[t].id = tr.id}

TotalQty(S) == MapThenSumSet(LAMBDA tr : tr.qty, S)

\* The position in memory and the trades table tell the same story once the
\* event is delivered, with handlers interleaving, orders failing and commits
\* failing: the position is at least what the trades bought less what they
\* sold (selling more than is held closes it), and at most what they bought.
PositionFollowsTrades ==
  \A s \in Symbols :
    LET bought == TotalQty(DeliveredTrades(s, "buy"))
        sold == TotalQty(DeliveredTrades(s, "sell"))
    IN  /\ positions[s].quantity >= bought - sold
        /\ positions[s].quantity <= bought

\* Why PositionFollowsTrades holds, as an inductive invariant on top of
\* OrderManager's.

\* The trade that task t has committed.
TradeOf(t) ==
  [id |-> local[t].id, symbol |-> local[t].symbol,
   side |-> OM!SideOf(local[t].signal), qty |-> local[t].executed,
   price |-> local[t].paid]

\* Every task is at work on an order of this run of the process.
OrdersOfThisRun ==
  \A t \in Tasks :
    pc[t] \in {"placing", "committing", "failing", "publishing"} =>
      local[t].sub \in DOMAIN submitted /\ submitted[local[t].sub].epoch = epoch

\* A fill that is about to be delivered is in the trades table, in one row that
\* no other task is about to deliver.
FillsAreTrades ==
  \A t \in Tasks : pc[t] = "publishing" =>
    /\ local[t].id = local[t].sub /\ TradeOf(t) \in trades
    /\ \A u \in Tasks \ {t} : pc[u] = "publishing" => local[u].id # local[t].id

\* An order has at most one trade.
TradesApart == \A tr1, tr2 \in trades : tr1.id = tr2.id => tr1 = tr2

\* PositionFollowsTrades holds because a trade is committed once, and from then
\* on either waits to be delivered or has moved the position, by the quantity
\* in its row (order_manager.py:176-199, position.py:38-70).
FollowInv ==
  /\ OrdersOfThisRun /\ FillsAreTrades /\ TradesApart
  /\ SL!PositionTypeOK /\ IsFiniteSet(trades) /\ PositionFollowsTrades

\* Seen from OrderManager alone, the composed system is an OrderManager: what
\* is proved of that module for any signals, risk answers and exchange holds of
\* the signals, answers and fills the other parts produce.
ImplementsOrderManager == OM!Spec

\* Every tick is handled to the end, whatever fails on the way, so the feed,
\* which awaits its handlers, reads the next price.
FeedGoesOn == ~TickHandled ~> TickHandled

\* Every activation ends, whatever fails: no signal handler and no DCA task,
\* which nothing waits for, is stuck (order_manager.py:134-227).
TasksFinish == OM!TasksFinish

-------------------------------------------------------------------------------
\* What the documentation says and the code does not do.

\* "a market buy is for an amount of KRW" (order_manager.py:97, and rest.py:75
\* and binance/rest.py:96 take it for one): an unsplit buy is for
\* default_order_krw, or for max_order_krw if that is less.
BuysForAmount ==
  [][Len(submitted') = Len(submitted) + 1 =>
       LET o == submitted'[Len(submitted')] IN
       o.side = "buy" /\ DcaSplits = 1 => o.qty \in {DefaultKrw, MaxOrderKrw}]_submitted

\* No order of symbol s is under way: none is being handled, and the exchange
\* has no order it has yet to fill.
NothingUnderWay(s) ==
  /\ TickHandled /\ pc["dca"] = "idle"
  /\ \A n \in DOMAIN submitted :
       submitted[n].symbol = s =>
         submitted[n].status = "refused" \/ submitted[n].filled > 0

\* "stop-loss and take-profit are executed automatically" (stop_loss.py:2): a
\* position the monitor fired for is sold, or its sell is under way.
ProtectionEffective ==
  \A s \in Symbols :
    s \in triggered /\ SL!IsOpen(positions[s]) => ~NothingUnderWay(s)

===============================================================================
