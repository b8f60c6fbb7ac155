----------------------------- MODULE OrderManager -----------------------------
(***************************************************************************)
(* execution/order_manager.py: from a SIGNAL_GENERATED event to an order   *)
(* at the exchange, its rows in the database and the ORDER_FILLED or       *)
(* ORDER_FAILED event.                                                     *)
(*                                                                         *)
(* The bus runs every activation of on_signal as an asyncio task, and the  *)
(* tasks interleave wherever one of them really suspends: the database     *)
(* commits, the HTTP request to the exchange, the wait for the subscribers *)
(* of a published event, and the sleep between two DCA splits.  An action  *)
(* is the code between two such points.  pc[t] names the point at which    *)
(* task t is suspended and local[t] holds the locals it keeps across it.   *)
(*                                                                         *)
(* The exchange is the environment: it may refuse an order, fill it a      *)
(* little at a time, before or after the response, and the response may be *)
(* lost.  So are the risk check (module RiskManager gives its answers) and *)
(* the signals.  A crash loses everything but the database and the         *)
(* exchange.                                                               *)
(***************************************************************************)
EXTENDS Integers, Sequences, FiniteSets, Decimals

CONSTANTS
  Symbols,     \* traded symbols
  Tasks,       \* asyncio tasks that may be active at once (bound)
  Prices,      \* prices a signal may carry
  ExecPrices,  \* executed prices a response may carry
  DefaultKrw,  \* _default_order_krw
  Cooldown,    \* _cooldown_sec
  DcaSplits,   \* _dca_split_count
  Faults,      \* which of "broker", "db", "crash" may happen
  MaxClock,    \* bound on the clock
  MaxSignals,  \* bound on the number of signals
  MaxEpoch     \* bound on the number of restarts

ASSUME OrderManagerAssumption ==
  /\ Symbols # {}
  /\ Prices # {} /\ Prices \subseteq Nat \ {0}
  /\ ExecPrices # {} /\ ExecPrices \subseteq Nat
  /\ DefaultKrw \in Nat /\ Cooldown \in Nat
  /\ DcaSplits \in Nat \ {0}
  /\ Faults \subseteq {"broker", "db", "crash"}
  /\ MaxClock \in Nat /\ MaxSignals \in Nat /\ MaxEpoch \in Nat

VARIABLES
  clock,          \* wall clock, in seconds
  epoch,          \* number of restarts so far
  received,       \* number of signals received so far
  lastOrderTime,  \* _last_order_time
  pc,             \* where each task is suspended
  local,          \* the locals of each task
  submitted,      \* every order sent to the exchange, in order of sending
  orders,         \* rows of the orders table
  trades,         \* rows of the trades table
  published       \* the ORDER_FILLED and ORDER_FAILED events published so far

memory == <<lastOrderTime, pc, local>>
vars == <<clock, epoch, received, memory, submitted, orders, trades, published>>

Signals == {"buy", "sell", "hold"}
Sides == {"buy", "sell"}

\* _last_order_time has no entry for the symbol.
Never == -1

\* order_model.order_id before the exchange has assigned one ("pending").
\* The identifiers the exchange assigns are the indices of submitted.
Pending == 0

\* Where a task may be suspended:
\*   saving     on_signal awaits _save_signal
\*   placing    _submit awaits broker.place_order
\*   committing _submit awaits the commit of the order and its trade
\*   failing    the except branch awaits the commit of the failed order
\*   publishing ORDER_FILLED is published, its subscribers have not run yet
\*   notifying  the subscribers of an event run, the task waits for them
\*   sleeping   _submit_dca is about to submit its next split
PcValues == {"idle", "saving", "placing", "committing", "failing",
             "publishing", "notifying", "sleeping"}

NoLocals ==
  [number |-> 0, symbol |-> CHOOSE s \in Symbols : TRUE, signal |-> "hold",
   price |-> 0, qty |-> 0, left |-> 0, accepted |-> 0, sub |-> 0,
   id |-> Pending, executed |-> 0, paid |-> 0]

Locals ==
  [number : Nat,       \* which signal is being handled
   symbol : Symbols, signal : Signals, price : Nat,
   qty : Nat,          \* quantity of the order, or of each split
   left : Nat,         \* splits not submitted yet
   accepted : Nat,     \* when the cooldown check let the signal through
   sub : Nat,          \* the current order's place in submitted
   id : Nat, executed : Nat, paid : Nat]   \* what the response said

Submissions ==
  [number : Nat, symbol : Symbols, side : Sides, qty : Nat, accepted : Nat,
   at : Nat, epoch : Nat, filled : Nat, status : {"live", "refused"}]

OrderRows == [id : Nat, sub : Nat, status : {"accepted", "failed"}]
TradeRows == [id : Nat, symbol : Symbols, side : Sides, qty : Nat, price : Nat]
Events == [type : {"ORDER_FILLED", "ORDER_FAILED"}, sub : Nat]

Init ==
  /\ clock = 0 /\ epoch = 0 /\ received = 0
  /\ lastOrderTime = [s \in Symbols |-> Never]
  /\ pc = [t \in Tasks |-> "idle"]
  /\ local = [t \in Tasks |-> NoLocals]
  /\ submitted = <<>>
  /\ orders = {} /\ trades = {} /\ published = {}

-------------------------------------------------------------------------------
\* What the actions are built from.

SideOf(signal) == IF signal = "buy" THEN "buy" ELSE "sell"

\* The quantity of an order, for a sell as for a buy.
Quantity(price) == RoundHalfEven(DefaultKrw, price)

CooldownActive(s) ==
  /\ lastOrderTime[s] # Never
  /\ clock - lastOrderTime[s] < Cooldown

Goto(t, label) == pc' = [pc EXCEPT ![t] = label]

\* The coroutine ends, normally or with an exception that its caller logs.
Finish(t) ==
  /\ Goto(t, "idle")
  /\ local' = [local EXCEPT ![t] = NoLocals]

\* The beginning of _submit: the request leaves for the exchange.
CallBroker(t, l) ==
  /\ submitted' =
       Append(submitted,
              [number |-> l.number, symbol |-> l.symbol,
               side |-> SideOf(l.signal), qty |-> l.qty,
               accepted |-> l.accepted, at |-> clock, epoch |-> epoch,
               filled |-> 0, status |-> "live"])
  /\ local' = [local EXCEPT ![t] =
                 [l EXCEPT !.sub = Len(submitted) + 1, !.id = Pending,
                           !.executed = 0, !.paid = 0]]
  /\ Goto(t, "placing")

\* The UNIQUE constraint on orders.order_id.
IdTaken(id) == \E o \in orders : o.id = id

-------------------------------------------------------------------------------
\* on_signal.

\* A SIGNAL_GENERATED event: the handler starts and saves the signal.
OnSignal(t, s, signal, price) ==
  /\ pc[t] = "idle"
  /\ received < MaxSignals
  /\ received' = received + 1
  /\ local' = [local EXCEPT ![t] =
                 [NoLocals EXCEPT !.number = received + 1, !.symbol = s,
                                  !.signal = signal, !.price = price]]
  /\ Goto(t, "saving")
  /\ UNCHANGED <<clock, epoch, lastOrderTime, submitted, orders, trades,
                 published>>

\* The signal is saved (or saving it failed, which is logged and ignored),
\* and on_signal ends: a HOLD, or the symbol is in its cooldown.
SkipSignal(t) ==
  /\ pc[t] = "saving"
  /\ local[t].signal = "hold" \/ CooldownActive(local[t].symbol)
  /\ Finish(t)
  /\ UNCHANGED <<clock, epoch, received, lastOrderTime, submitted, orders,
                 trades, published>>

\* Mutant: the cooldown is set to a time from which it seems to be over.
AcceptSetsPast(t) ==
  /\ pc[t] = "saving"
  /\ local[t].signal # "hold"
  /\ ~CooldownActive(local[t].symbol)
  /\ lastOrderTime' = [lastOrderTime EXCEPT ![local[t].symbol] = clock - Cooldown]

\* Mutant: a buy that is split is not counted in the cooldown.
AcceptForgetsSplits(t) ==
  /\ pc[t] = "saving"
  /\ local[t].signal # "hold"
  /\ ~CooldownActive(local[t].symbol)
  /\ lastOrderTime' = IF DcaSplits > 1 /\ local[t].signal = "buy"
                      THEN lastOrderTime
                      ELSE [lastOrderTime EXCEPT ![local[t].symbol] = clock]

\* The cooldown check lets the signal through and restarts the cooldown.
\* Nothing suspends between the check and the assignment.
Accept(t) ==
  /\ pc[t] = "saving"
  /\ local[t].signal # "hold"
  /\ ~CooldownActive(local[t].symbol)
  /\ lastOrderTime' = [lastOrderTime EXCEPT ![local[t].symbol] = clock]

\* risk.check refuses: it publishes RISK_TRIGGERED and waits for the
\* subscribers.  The cooldown stays restarted.
RejectByRisk(t) ==
  /\ Accept(t)
  /\ Goto(t, "notifying")
  /\ UNCHANGED <<clock, epoch, received, local, submitted, orders, trades,
                 published>>

\* risk.check approves the quantity qty: a single order is sent at once.
SubmitOrder(t, qty) ==
  /\ Accept(t)
  /\ DcaSplits = 1 \/ local[t].signal # "buy"
  /\ CallBroker(t, [local[t] EXCEPT !.qty = qty, !.accepted = clock])
  /\ UNCHANGED <<clock, epoch, received, orders, trades, published>>

\* Mutant: the loop over the splits runs once too often.
SpawnDcaOneMore(t, d, qty) ==
  /\ Accept(t)
  /\ DcaSplits > 1 /\ local[t].signal = "buy"
  /\ pc[d] = "idle"
  /\ pc' = [pc EXCEPT ![t] = "idle", ![d] = "sleeping"]
  /\ local' = [local EXCEPT
                 ![t] = NoLocals,
                 ![d] = [local[t] EXCEPT !.qty = RoundHalfEven(qty, DcaSplits),
                                         !.left = DcaSplits + 1,
                                         !.accepted = clock]]
  /\ UNCHANGED <<clock, epoch, received, submitted, orders, trades, published>>

\* risk.check approves a buy that is split: the splits are left to the
\* background task d and on_signal ends.
SpawnDca(t, d, qty) ==
  /\ Accept(t)
  /\ DcaSplits > 1 /\ local[t].signal = "buy"
  /\ pc[d] = "idle"
  /\ pc' = [pc EXCEPT ![t] = "idle", ![d] = "sleeping"]
  /\ local' = [local EXCEPT
                 ![t] = NoLocals,
                 ![d] = [local[t] EXCEPT !.qty = RoundHalfEven(qty, DcaSplits),
                                         !.left = DcaSplits,
                                         !.accepted = clock]]
  /\ UNCHANGED <<clock, epoch, received, submitted, orders, trades, published>>

\* _submit_dca: the interval is over (there is none before the first split).
SubmitSplit(t) ==
  /\ pc[t] = "sleeping"
  /\ CallBroker(t, [local[t] EXCEPT !.left = @ - 1])
  /\ UNCHANGED <<clock, epoch, received, lastOrderTime, orders, trades,
                 published>>

-------------------------------------------------------------------------------
\* _submit.

\* Mutant: the requested quantity is recorded as executed.
PlaceOrderReturnsRequested(t, price) ==
  LET n == local[t].sub IN
  /\ pc[t] = "placing"
  /\ submitted[n].status = "live"
  /\ local' = [local EXCEPT ![t].id = n,
                            ![t].executed = submitted[n].qty,
                            ![t].paid = price]
  /\ Goto(t, "committing")
  /\ UNCHANGED <<clock, epoch, received, lastOrderTime, submitted, orders,
                 trades, published>>

\* The response arrives: it says how much was executed so far, at what price.
PlaceOrderReturns(t, price) ==
  LET n == local[t].sub IN
  /\ pc[t] = "placing"
  /\ submitted[n].status = "live"
  /\ local' = [local EXCEPT ![t].id = n,
                            ![t].executed = submitted[n].filled,
                            ![t].paid = price]
  /\ Goto(t, "committing")
  /\ UNCHANGED <<clock, epoch, received, lastOrderTime, submitted, orders,
                 trades, published>>

\* The exchange refuses the order (raise_for_status).
PlaceOrderRefused(t) ==
  LET n == local[t].sub IN
  /\ pc[t] = "placing"
  /\ submitted[n].status = "live" /\ submitted[n].filled = 0
  /\ submitted' = [submitted EXCEPT ![n].status = "refused"]
  /\ Goto(t, "failing")
  /\ UNCHANGED <<clock, epoch, received, lastOrderTime, local, orders, trades,
                 published>>

\* The connection fails or times out: the order may have been placed or not.
PlaceOrderRaises(t) ==
  /\ pc[t] = "placing"
  /\ "broker" \in Faults
  /\ Goto(t, "failing")
  /\ UNCHANGED <<clock, epoch, received, lastOrderTime, local, submitted,
                 orders, trades, published>>

\* The order and its trade are committed in one transaction, then
\* ORDER_FILLED is published whatever the status and the executed quantity.
CommitOrder(t) ==
  LET l == local[t] IN
  /\ pc[t] = "committing"
  /\ ~IdTaken(l.id)
  /\ orders' = orders \cup {[id |-> l.id, sub |-> l.sub, status |-> "accepted"]}
  /\ trades' = trades \cup {[id |-> l.id, symbol |-> l.symbol,
                             side |-> SideOf(l.signal), qty |-> l.executed,
                             price |-> l.paid]}
  /\ published' = published \cup {[type |-> "ORDER_FILLED", sub |-> l.sub]}
  /\ Goto(t, "publishing")
  /\ UNCHANGED <<clock, epoch, received, lastOrderTime, local, submitted>>

\* Mutant: the trade is committed before the order, in its own transaction.
CommitRaisesAfterTrade(t) ==
  LET l == local[t] IN
  /\ pc[t] = "committing"
  /\ "db" \in Faults \/ IdTaken(l.id)
  /\ trades' = trades \cup {[id |-> l.id, symbol |-> l.symbol,
                             side |-> SideOf(l.signal), qty |-> l.executed,
                             price |-> l.paid]}
  /\ Goto(t, "failing")
  /\ UNCHANGED <<clock, epoch, received, lastOrderTime, local, submitted,
                 orders, published>>

\* The commit fails and is rolled back: the except branch takes over, with
\* the identifier the exchange assigned.
CommitRaises(t) ==
  /\ pc[t] = "committing"
  /\ "db" \in Faults \/ IdTaken(local[t].id)
  /\ Goto(t, "failing")
  /\ UNCHANGED <<clock, epoch, received, lastOrderTime, local, submitted,
                 orders, trades, published>>

\* The except branch: the failed order is committed and ORDER_FAILED published.
SaveFailedOrder(t) ==
  LET l == local[t] IN
  /\ pc[t] = "failing"
  /\ ~IdTaken(l.id)
  /\ orders' = orders \cup {[id |-> l.id, sub |-> l.sub, status |-> "failed"]}
  /\ published' = published \cup {[type |-> "ORDER_FAILED", sub |-> l.sub]}
  /\ Goto(t, "notifying")
  /\ UNCHANGED <<clock, epoch, received, lastOrderTime, local, submitted, trades>>

\* Mutant: ORDER_FAILED is published although the row could not be committed.
SaveFailedOrderRaisesLoudly(t) ==
  /\ pc[t] = "failing"
  /\ "db" \in Faults \/ IdTaken(local[t].id)
  /\ published' = published \cup {[type |-> "ORDER_FAILED", sub |-> local[t].sub]}
  /\ Finish(t)
  /\ UNCHANGED <<clock, epoch, received, lastOrderTime, submitted, orders, trades>>

\* Mutant: the commit of the failed order is tried again and again.
SaveFailedOrderRetries(t) ==
  /\ pc[t] = "failing"
  /\ "db" \in Faults \/ IdTaken(local[t].id)
  /\ UNCHANGED vars

\* The commit of the failed order raises: a database error, or a row with this
\* order_id is there already.  The exception leaves _submit, and with it
\* on_signal, or _submit_dca and the splits that were left.
SaveFailedOrderRaises(t) ==
  /\ pc[t] = "failing"
  /\ "db" \in Faults \/ IdTaken(local[t].id)
  /\ Finish(t)
  /\ UNCHANGED <<clock, epoch, received, lastOrderTime, submitted, orders,
                 trades, published>>

\* The subscribers of ORDER_FILLED run (PositionManager.on_order_filled among
\* them: module PositionManager).
DeliverFilled(t) ==
  /\ pc[t] = "publishing"
  /\ Goto(t, "notifying")
  /\ UNCHANGED <<clock, epoch, received, lastOrderTime, local, submitted,
                 orders, trades, published>>

\* publish returns: the task goes on to its next split, or ends.
PublishReturns(t) ==
  /\ pc[t] = "notifying"
  /\ \/ /\ local[t].left > 0
        /\ Goto(t, "sleeping")
        /\ UNCHANGED local
     \/ /\ local[t].left = 0
        /\ Finish(t)
  /\ UNCHANGED <<clock, epoch, received, lastOrderTime, submitted, orders,
                 trades, published>>

-------------------------------------------------------------------------------
\* The environment.

Tick ==
  /\ clock < MaxClock
  /\ clock' = clock + 1
  /\ UNCHANGED <<epoch, received, memory, submitted, orders, trades, published>>

\* The exchange fills some more of order n, whether or not anyone waits for it.
ExchangeFills(n, filled) ==
  /\ submitted[n].status = "live"
  /\ filled > submitted[n].filled /\ filled <= submitted[n].qty
  /\ submitted' = [submitted EXCEPT ![n].filled = filled]
  /\ UNCHANGED <<clock, epoch, received, memory, orders, trades, published>>

\* The process dies and starts again: only the database and the exchange stay.
Crash ==
  /\ "crash" \in Faults /\ epoch < MaxEpoch
  /\ epoch' = epoch + 1
  /\ lastOrderTime' = [s \in Symbols |-> Never]
  /\ pc' = [t \in Tasks |-> "idle"]
  /\ local' = [t \in Tasks |-> NoLocals]
  /\ UNCHANGED <<clock, received, submitted, orders, trades, published>>

\* Nothing is left to do within the bounds.
Exhausted ==
  /\ received = MaxSignals
  /\ \A t \in Tasks : pc[t] = "idle"
  /\ UNCHANGED vars

-------------------------------------------------------------------------------

\* A step of the code of task t.  risk.check approves at most the quantity
\* it is given.
TaskStep(t) ==
  \/ SkipSignal(t)
  \/ RejectByRisk(t)
  \/ /\ pc[t] = "saving"
     /\ \E qty \in 0 .. Quantity(local[t].price) :
          SubmitOrder(t, qty) \/ \E d \in Tasks : SpawnDca(t, d, qty)
  \/ SubmitSplit(t)
  \/ \E price \in ExecPrices : PlaceOrderReturns(t, price)
  \/ PlaceOrderRefused(t)
  \/ PlaceOrderRaises(t)
  \/ CommitOrder(t)
  \/ CommitRaises(t)
  \/ SaveFailedOrder(t)
  \/ SaveFailedOrderRaises(t)
  \/ DeliverFilled(t)
  \/ PublishReturns(t)

Environment ==
  \/ \E t \in Tasks, s \in Symbols, signal \in Signals, price \in Prices :
       OnSignal(t, s, signal, price)
  \/ \E n \in DOMAIN submitted, filled \in 1 .. DefaultKrw : ExchangeFills(n, filled)
  \/ Tick
  \/ Crash
  \/ Exhausted

Next == (\E t \in Tasks : TaskStep(t)) \/ Environment

Spec == Init /\ [][Next]_vars

\* The event loop keeps running every task that is ready, requests time out
\* and commits end: no task stays at a suspension point for ever.
FairSpec == Spec /\ \A t \in Tasks : WF_vars(TaskStep(t))

-------------------------------------------------------------------------------
\* Properties.

\* Every variable keeps its type (the locals of on_signal and _submit, the
\* rows they write, the orders they send).
TypeOK ==
  /\ clock \in Nat /\ epoch \in Nat /\ received \in Nat
  /\ lastOrderTime \in [Symbols -> Nat \cup {Never}]
  /\ pc \in [Tasks -> PcValues]
  /\ local \in [Tasks -> Locals]
  /\ submitted \in Seq(Submissions)
  /\ orders \subseteq OrderRows
  /\ trades \subseteq TradeRows
  /\ published \subseteq Events

\* Two orders for one symbol that come from two different signals were let
\* through at least a cooldown apart, however the handlers interleave and
\* whatever became of the orders: the check and the update of
\* _last_order_time are one step (order_manager.py:87-93).  A restart forgets
\* the times, so the promise is per run of the process.
CooldownSpacing ==
  \A i, j \in DOMAIN submitted :
    /\ submitted[i].symbol = submitted[j].symbol
    /\ submitted[i].epoch = submitted[j].epoch
    /\ submitted[i].number # submitted[j].number
    => Abs(submitted[i].accepted - submitted[j].accepted) >= Cooldown

\* One signal never sends more orders than it was split into: one, or
\* dca_split_count for a buy, also when a split fails
\* (order_manager.py:117-146).
SplitsBounded ==
  \A n \in 1 .. received :
    LET sent == {i \in DOMAIN submitted : submitted[i].number = n}
    IN  /\ Cardinality(sent) <= DcaSplits
        /\ Cardinality(sent) > 1 => \A i \in sent : submitted[i].side = "buy"

\* The two tables agree: a trade exists exactly when its order's row says the
\* exchange took the order, because both rows are committed together
\* (order_manager.py:176-187); an order that is recorded as failed has no
\* trade.
LedgerAtomic ==
  \A n \in DOMAIN submitted :
    (\E tr \in trades : tr.id = n)
      <=> (\E o \in orders : o.id = n /\ o.sub = n /\ o.status = "accepted")

\* An event never runs ahead of the database: ORDER_FILLED and ORDER_FAILED
\* are published once the row that says the same is committed, and no order
\* is announced both ways (order_manager.py:176-227).
EventsFollowLedger ==
  \A e \in published :
    /\ \E o \in orders :
         o.sub = e.sub /\ o.status = (IF e.type = "ORDER_FILLED" THEN "accepted"
                                                                 ELSE "failed")
    /\ \A f \in published : f.sub = e.sub => f.type = e.type

\* A trade never records more than the exchange executed: the row and the
\* event take the executed quantity of the response, not the requested one,
\* and fills only grow (order_manager.py:173-185).
TradesBacked ==
  \A tr \in trades : tr.qty <= submitted[tr.id].filled

\* Every activation ends, whatever fails: no signal handler or DCA task is
\* stuck, so the tick that waits for the handlers goes on.
TasksFinish == \A t \in Tasks : pc[t] # "idle" ~> pc[t] = "idle"

\* Why CooldownSpacing holds, as an inductive invariant.

\* Task t will submit more splits of a signal that the cooldown let through.
Spreading(t) == local[t].left > 0

SpacedFrom(time1, time2) == Abs(time1 - time2) >= Cooldown

\* What a task is suspended on determines which of its locals are set.
LocalsFitPc ==
  \A t \in Tasks :
    /\ pc[t] \in {"idle", "saving"} => ~Spreading(t)
    /\ pc[t] = "sleeping" => Spreading(t)
    /\ pc[t] = "saving" => local[t].price \in Prices
    /\ pc[t] \in {"placing", "committing", "failing", "publishing"} =>
         local[t].sub \in DOMAIN submitted

\* _last_order_time is never ahead of the clock, nor behind a signal of this
\* run of the process that was let through.
LastOrderTimeRecords ==
  /\ \A s \in Symbols : lastOrderTime[s] <= clock
  /\ \A i \in DOMAIN submitted :
       /\ submitted[i].epoch <= epoch
       /\ submitted[i].epoch = epoch =>
            submitted[i].accepted <= lastOrderTime[submitted[i].symbol]
  /\ \A t \in Tasks :
       Spreading(t) => local[t].accepted <= lastOrderTime[local[t].symbol]

\* The splits still to be sent are already a cooldown away from the orders of
\* other signals and from the other splits still to be sent.
SplitsSpaced ==
  \A t \in Tasks : Spreading(t) =>
    /\ \A i \in DOMAIN submitted :
         /\ submitted[i].symbol = local[t].symbol
         /\ submitted[i].epoch = epoch
         /\ submitted[i].number # local[t].number
         => SpacedFrom(submitted[i].accepted, local[t].accepted)
    /\ \A u \in Tasks \ {t} :
         Spreading(u) /\ local[u].symbol = local[t].symbol
         => SpacedFrom(local[u].accepted, local[t].accepted)

\* CooldownSpacing holds because the splits a background task has still to
\* send (order_manager.py:134-146) were let through by the same check and are
\* accounted for in _last_order_time until they are sent.
CooldownInv ==
  /\ TypeOK /\ LocalsFitPc
  /\ LastOrderTimeRecords /\ SplitsSpaced /\ CooldownSpacing

\* Why the ledger properties hold, as an inductive invariant.

\* Task t has sent an order and has recorded nothing about it yet.
Unsettled(t) == pc[t] \in {"placing", "committing", "failing"}

\* Two tasks never wait for the same order.
OrdersApart ==
  \A t, u \in Tasks :
    Unsettled(t) /\ Unsettled(u) /\ local[t].sub = local[u].sub => t = u

\* The identifier a task goes by is the exchange's once there was a response,
\* and the response never said more than the exchange has executed.
IdsFitPc ==
  \A t \in Tasks :
    /\ pc[t] = "placing" => local[t].id = Pending
    /\ pc[t] = "failing" => local[t].id \in {Pending, local[t].sub}
    /\ pc[t] = "committing" => /\ local[t].id = local[t].sub
                               /\ local[t].executed <= submitted[local[t].sub].filled

\* A row belongs to an order that was sent.  It has the exchange's identifier,
\* or none if the order failed before the response.
RowsFit ==
  /\ \A o \in orders :
       /\ o.sub \in DOMAIN submitted
       /\ o.id = o.sub \/ (o.id = Pending /\ o.status = "failed")
  /\ \A tr \in trades : tr.id \in DOMAIN submitted

\* Nothing is recorded about an order whose task has yet to record it.
UnsettledUnrecorded ==
  \A t \in Tasks : Unsettled(t) =>
    /\ \A o \in orders : o.sub # local[t].sub
    /\ \A tr \in trades : tr.id # local[t].sub

\* The two tables and the events agree because each order is recorded once, by
\* the one task that sent it, and everything about it in one commit
\* (order_manager.py:176-227).
LedgerInv ==
  /\ TypeOK /\ LocalsFitPc
  /\ OrdersApart /\ IdsFitPc /\ RowsFit /\ UnsettledUnrecorded
  /\ LedgerAtomic /\ EventsFollowLedger /\ TradesBacked

\* Why SplitsBounded holds, as an inductive invariant.

\* The orders sent for signal n.
Sent(n) == {i \in DOMAIN submitted : submitted[i].number = n}

\* Every signal is handled by one task.
NumbersApart ==
  /\ \A t \in Tasks : pc[t] # "idle" => local[t].number \in 1 .. received
  /\ \A t, u \in Tasks :
       /\ pc[t] # "idle" /\ pc[u] # "idle"
       /\ local[t].number = local[u].number
       => t = u
  /\ \A i \in DOMAIN submitted : submitted[i].number \in 1 .. received

\* What a task has sent and what it has left to send add up to no more than
\* the number of splits.
SplitsLeft ==
  \A t \in Tasks : pc[t] # "idle" =>
    /\ pc[t] = "saving" => Sent(local[t].number) = {}
    /\ Spreading(t) => local[t].signal = "buy"
    /\ Cardinality(Sent(local[t].number)) + local[t].left <= DcaSplits
    /\ \A i \in Sent(local[t].number) :
         submitted[i].side = SideOf(local[t].signal)

\* SplitsBounded holds because a signal has one task at a time, on_signal's or
\* the background task it leaves the splits to (order_manager.py:117-146).
SplitsInv == TypeOK /\ LocalsFitPc /\ NumbersApart /\ SplitsLeft /\ SplitsBounded

===============================================================================
