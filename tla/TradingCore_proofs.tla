-------------------------- MODULE TradingCore_proofs --------------------------
(***************************************************************************)
(* Proof that the composed trading path is an OrderManager, step by step,  *)
(* so that what OrderManager_proofs shows for any signals, risk answers    *)
(* and exchange holds of the signals the monitor and the strategies        *)
(* publish, the answers of RiskRules and the fills of the exchange; that   *)
(* the monitor sells an entry at most once in the composed system; and     *)
(* that the monitor's position follows the table of trades.                *)
(***************************************************************************)
EXTENDS TradingCore, Decimals_proofs, SequenceTheorems, FiniteSetTheorems

\* OrderManager with its theorems.  Its definitions are OM's.
Proved == INSTANCE OrderManager_proofs WITH ExecPrices <- Amounts

\* The parameters OrderManager is composed with are ones it is proved for.
LEMMA OrderManagerParameters == Proved!OrderManagerAssumption
  BY TradingCoreAssumption DEF Proved!OrderManagerAssumption, Amounts

-------------------------------------------------------------------------------
\* The quantities of orders.

\* A quantity is at most the amount it is computed from.
LEMMA QuotientBounded ==
  ASSUME NEW n \in Nat, NEW d \in Nat \ {0}
  PROVE  RoundHalfEven(n, d) \in 0 .. n
<1>1. d * 0 <= n /\ n <= d * n
  OBVIOUS
<1>2. RoundHalfEven(n, d) \in Nat
  BY RoundHalfEvenNat
<1> QED
  BY <1>1, <1>2, RoundHalfEvenBetween

LEMMA QuantityBounded ==
  ASSUME NEW p \in Prices
  PROVE  OM!Quantity(p) \in 0 .. DefaultKrw
  BY QuotientBounded, TradingCoreAssumption
     DEF OM!Quantity, OM!RoundHalfEven, RoundHalfEven

\* The risk check never approves more than it was asked for (risk.py:68-79).
LEMMA AdjustedBounded ==
  ASSUME NEW q \in Nat, NEW p \in Nat \ {0}
  PROVE  AdjustedQty(q, p) \in 0 .. q
<1>1. MaxOrderKrw \in Nat /\ q * p \in Nat /\ p * q = q * p
  BY RiskRulesAssumption
<1>2. CASE q * p > MaxOrderKrw
  <2> DEFINE h == RoundHalfEven(MaxOrderKrw, p)
  <2>1. p * 0 <= MaxOrderKrw /\ MaxOrderKrw <= p * q
    BY <1>1, <1>2
  <2>2. h \in Nat
    BY <1>1, RoundHalfEvenNat
  <2>3. h <= q
    BY <1>1, <2>1, RoundHalfEvenBetween
  <2>4. AdjustedQty(q, p) = h
    BY <1>2 DEF AdjustedQty
  <2> HIDE DEF h
  <2> QED
    BY <2>2, <2>3, <2>4
<1>3. CASE ~(q * p > MaxOrderKrw)
  BY <1>3 DEF AdjustedQty
<1> QED
  BY <1>2, <1>3

LEMMA DivBounded ==
  ASSUME NEW n \in Nat, NEW d \in Nat \ {0}
  PROVE  n \div d \in 0 .. n
<1> DEFINE q == n \div d
           r == n % d
<1>1. q \in Nat /\ r \in Nat /\ n = d * q + r
  BY DivMod
<1> HIDE DEF q, r
<1>2. q <= d * q
  BY <1>1
<1>3. d * q \in Nat
  BY <1>1
<1>4. q \in 0 .. n
  BY <1>1, <1>2, <1>3
<1> QED
  BY <1>4 DEF q

\* A list to which an order is appended.
LEMMA AppendIsLonger ==
  ASSUME NEW S, NEW list \in Seq(S), NEW x \in S
  PROVE  /\ DOMAIN list = 1 .. Len(list) /\ Len(list) \in Nat
         /\ DOMAIN Append(list, x) = 1 .. Len(list) + 1
         /\ Append(list, x)[Len(list) + 1] = x
         /\ \A i \in 1 .. Len(list) : Append(list, x)[i] = list[i]
  BY AppendProperties, LenProperties

-------------------------------------------------------------------------------
\* Every step is a step of OrderManager, or leaves its state alone.

\* What the step proof needs to know of the composed state: a tick carries a
\* price, and no order is for more units than the amount it is computed from,
\* whether it was sent or is still to be sent.
TicksFit == price \in [Symbols -> Prices] /\ ticking \in Symbols

QtysBounded ==
  /\ \A n \in DOMAIN submitted : submitted[n].qty <= DefaultKrw
  /\ \A t \in Tasks : local[t].qty <= DefaultKrw

CoreInv == Proved!TypeInv /\ TicksFit /\ QtysBounded

LEMMA CoreInvTypes ==
  ASSUME CoreInv
  PROVE  /\ submitted \in Seq(Proved!Submissions)
         /\ local \in [Tasks -> Proved!Locals] /\ pc \in [Tasks -> Proved!PcValues]
         /\ \A n \in DOMAIN submitted :
              /\ submitted[n] \in Proved!Submissions
              /\ submitted[n].symbol \in Symbols /\ submitted[n].side \in {"buy", "sell"}
              /\ submitted[n].qty \in 0 .. DefaultKrw /\ submitted[n].filled \in Nat
         /\ \A t \in Tasks :
              /\ local[t] \in Proved!Locals /\ local[t].symbol \in Symbols
              /\ local[t].qty \in 0 .. DefaultKrw
              /\ pc[t] = "saving" => local[t].price \in Prices
              /\ pc[t] = "placing" => local[t].sub \in DOMAIN submitted
         /\ \A s \in Symbols : price[s] \in Nat \ {0} /\ price[s] \in Prices
<1>1. /\ submitted \in Seq(Proved!Submissions)
      /\ local \in [Tasks -> Proved!Locals] /\ pc \in [Tasks -> Proved!PcValues]
  BY DEF CoreInv, Proved!TypeInv, Proved!TypeOK
<1>2. \A n \in DOMAIN submitted :
        submitted[n] \in Proved!Submissions /\ submitted[n].filled \in Nat
  BY OrderManagerParameters, Proved!LedgerInvTypes DEF CoreInv
<1>3. \A n \in DOMAIN submitted :
        /\ submitted[n].symbol \in Symbols /\ submitted[n].side \in {"buy", "sell"}
        /\ submitted[n].qty \in 0 .. DefaultKrw
  BY <1>2, TradingCoreAssumption
     DEF Proved!Submissions, Proved!Sides, CoreInv, QtysBounded
<1>4. \A t \in Tasks :
        /\ local[t] \in Proved!Locals /\ local[t].symbol \in Symbols
        /\ local[t].qty \in 0 .. DefaultKrw
  BY <1>1, TradingCoreAssumption DEF Proved!Locals, CoreInv, QtysBounded
<1>5. \A t \in Tasks :
        /\ pc[t] = "saving" => local[t].price \in Prices
        /\ pc[t] = "placing" => local[t].sub \in DOMAIN submitted
  BY DEF CoreInv, Proved!TypeInv, Proved!LocalsFitPc
<1>6. \A s \in Symbols : price[s] \in Nat \ {0} /\ price[s] \in Prices
  BY TradingCoreAssumption DEF CoreInv, TicksFit
<1> QED
  BY <1>1, <1>2, <1>3, <1>4, <1>5, <1>6

\* The signals the monitor and the strategies publish.
LEMMA TickSteps ==
  ASSUME CoreInv, MonitorRuns \/ StrategyRuns
  PROVE  OM!Environment \/ UNCHANGED omVars
<1>1. ticking \in Symbols /\ price[ticking] \in Prices
  BY CoreInvTypes DEF CoreInv, TicksFit
<1>2. ASSUME NEW t \in Tasks, NEW signal \in {"buy", "sell"},
             OM!OnSignal(t, ticking, signal, price[ticking])
      PROVE  OM!Environment
  BY <1>1, <1>2 DEF OM!Environment, OM!Signals
<1> QED
  BY <1>2 DEF MonitorRuns, StrategyRuns, Tasks

\* A step of a handler, with the answers of the risk check and the exchange.
LEMMA HandlerSteps ==
  ASSUME CoreInv, NEW t \in Tasks, TaskStep(t)
  PROVE  OM!TaskStep(t)
<1>1. ASSUME pc[t] = "saving",
             \/ OM!SubmitOrder(t, ApprovedQty(t))
             \/ OM!SpawnDca(t, "dca", ApprovedQty(t))
      PROVE  OM!TaskStep(t)
  <2> DEFINE q == OM!Quantity(local[t].price)
  <2>1. local[t].price \in Prices /\ local[t].price \in Nat \ {0}
    BY <1>1, CoreInvTypes, TradingCoreAssumption
  <2>2. q \in Nat
    BY <2>1, QuantityBounded, TradingCoreAssumption
  <2> HIDE DEF q
  <2>3. AdjustedQty(q, local[t].price) \in 0 .. q
    BY <2>1, <2>2, AdjustedBounded
  <2>4. ApprovedQty(t) \in 0 .. OM!Quantity(local[t].price) /\ "dca" \in Tasks
    BY <2>3 DEF q, ApprovedQty, Tasks
  <2> QED
    BY <1>1, <2>4 DEF OM!TaskStep
<1>2. ASSUME pc[t] = "placing", NEW paid \in ResponsePrices(local[t].sub),
             OM!PlaceOrderReturns(t, paid)
      PROVE  OM!TaskStep(t)
  <2> DEFINE n == local[t].sub
  <2>1. n \in DOMAIN submitted
    BY <1>2, CoreInvTypes
  <2>2. /\ price[submitted[n].symbol] \in Prices
        /\ submitted[n].qty \in 0 .. DefaultKrw /\ 0 \in 0 .. DefaultKrw
    BY <2>1, CoreInvTypes, TradingCoreAssumption
  <2>3. paid \in Amounts
    BY <2>2 DEF ResponsePrices, Amounts
  <2> QED
    BY <1>2, <2>3 DEF OM!TaskStep
<1> QED
  BY <1>1, <1>2 DEF TaskStep, OrderStep, PositionUpdated, OM!TaskStep

\* A fill of the exchange, within the bound OrderManager's environment keeps.
LEMMA FillSteps ==
  ASSUME CoreInv, NEW n \in DOMAIN submitted, OrderFills(n)
  PROVE  /\ \E filled \in 1 .. DefaultKrw : OM!ExchangeFills(n, filled)
         /\ OM!Environment
<1>1. /\ submitted[n].qty \in 0 .. DefaultKrw /\ submitted[n].symbol \in Symbols
      /\ price[submitted[n].symbol] \in Nat \ {0} /\ DefaultKrw \in Nat
      /\ submitted[n].filled \in Nat
  BY CoreInvTypes, TradingCoreAssumption
<1>2. Bought(n) \in 0 .. DefaultKrw
  <2> DEFINE q == submitted[n].qty \div price[submitted[n].symbol]
  <2>1. q \in 0 .. submitted[n].qty
    BY <1>1, DivBounded
  <2> HIDE DEF q
  <2>2. q \in 0 .. DefaultKrw
    BY <1>1, <2>1
  <2> QED
    BY <2>2 DEF q, Bought
<1>3. ASSUME NEW filled \in 0 .. DefaultKrw, OM!ExchangeFills(n, filled)
      PROVE  filled \in 1 .. DefaultKrw
  BY <1>1, <1>3 DEF OM!ExchangeFills
<1>4. \E filled \in 0 .. DefaultKrw : OM!ExchangeFills(n, filled)
  BY <1>1, <1>2 DEF OrderFills
<1> QED
  BY <1>3, <1>4 DEF OM!Environment

\* Every step of the composed system.
LEMMA StepRefines ==
  ASSUME CoreInv, [Next]_vars
  PROVE  [OM!Next]_(OM!vars)
<1>1. CASE UNCHANGED omVars
  BY <1>1 DEF omVars, OM!vars, OM!memory
<1>2. CASE OM!Environment \/ \E t \in Tasks : OM!TaskStep(t)
  BY <1>2 DEF OM!Next
<1>3. ASSUME NEW s \in Symbols, NEW p \in Prices, PriceTick(s, p)
      PROVE  UNCHANGED omVars
  BY <1>3 DEF PriceTick
<1>4. CASE AccountSync \/ Exhausted \/ UNCHANGED vars
  BY <1>1, <1>4 DEF AccountSync, Exhausted, vars
<1>5. CASE Tick \/ Crash
  BY <1>2, <1>5 DEF Tick, Crash, OM!Environment
<1> QED
  BY <1>1, <1>2, <1>3, <1>4, <1>5, TickSteps, HandlerSteps, FillSteps DEF Next

-------------------------------------------------------------------------------
\* The quantities stay bounded.

\* A request that leaves for the exchange.
LEMMA RequestQtys ==
  ASSUME CoreInv, NEW t \in Tasks, NEW l \in Proved!Locals, OM!CallBroker(t, l),
         l.qty <= DefaultKrw
  PROVE  QtysBounded'
<1> DEFINE o == [number |-> l.number, symbol |-> l.symbol,
                 side |-> OM!SideOf(l.signal), qty |-> l.qty,
                 accepted |-> l.accepted, at |-> clock, epoch |-> epoch,
                 filled |-> 0, status |-> "live"]
           m == [l EXCEPT !.sub = Len(submitted) + 1, !.id = 0,
                          !.executed = 0, !.paid = 0]
<1>1. /\ submitted' = Append(submitted, o) /\ local' = [local EXCEPT ![t] = m]
      /\ submitted \in Seq(Proved!Submissions) /\ local \in [Tasks -> Proved!Locals]
  BY CoreInvTypes DEF OM!CallBroker, OM!Pending
<1>2. o \in Proved!Submissions
  BY DEF Proved!Submissions, Proved!Locals, Proved!Sides, OM!SideOf, CoreInv,
         Proved!TypeInv, Proved!TypeOK
<1>3. o.qty = l.qty
  OBVIOUS
<1> HIDE DEF o
<1>4. /\ DOMAIN submitted = 1 .. Len(submitted) /\ Len(submitted) \in Nat
      /\ DOMAIN submitted' = 1 .. Len(submitted) + 1
      /\ submitted'[Len(submitted) + 1] = o
      /\ \A i \in 1 .. Len(submitted) : submitted'[i] = submitted[i]
  BY <1>1, <1>2, AppendIsLonger
<1>5. \A n \in DOMAIN submitted' : submitted'[n].qty <= DefaultKrw
  BY <1>3, <1>4 DEF CoreInv, QtysBounded
<1>6. m.qty = l.qty
  BY DEF Proved!Locals
<1> HIDE DEF m
<1>7. \A u \in Tasks : local'[u].qty <= DefaultKrw
  BY <1>1, <1>6 DEF CoreInv, QtysBounded
<1> QED
  BY <1>5, <1>7 DEF QtysBounded

\* A step after which every order and every task has a quantity it had before.
LEMMA QtysKept ==
  ASSUME CoreInv, DOMAIN submitted' = DOMAIN submitted,
         \A n \in DOMAIN submitted : submitted'[n].qty = submitted[n].qty,
         \A t \in Tasks : local'[t].qty <= DefaultKrw
  PROVE  QtysBounded'
  BY DEF CoreInv, QtysBounded

LEMMA StepQtys ==
  ASSUME CoreInv, [OM!Next]_(OM!vars)
  PROVE  QtysBounded'
<1>0. /\ local \in [Tasks -> Proved!Locals] /\ DefaultKrw \in Nat
      /\ submitted \in Seq(Proved!Submissions)
      /\ \A t \in Tasks : local[t].qty <= DefaultKrw
      /\ \A n \in DOMAIN submitted : submitted[n] \in Proved!Submissions
      /\ OM!NoLocals.qty = 0 /\ DcaSplits \in Nat \ {0} /\ clock \in Nat
  BY CoreInvTypes, TradingCoreAssumption
     DEF CoreInv, QtysBounded, OM!NoLocals, Proved!TypeInv, Proved!TypeOK
<1>1. ASSUME NEW t \in Tasks, pc[t] = "saving",
             NEW qty \in 0 .. OM!Quantity(local[t].price)
      PROVE  /\ OM!SubmitOrder(t, qty) => QtysBounded'
             /\ \A d \in Tasks : OM!SpawnDca(t, d, qty) => QtysBounded'
  <2>1. qty \in 0 .. DefaultKrw /\ qty \in Nat
    BY <1>0, <1>1, CoreInvTypes, QuantityBounded
  <2>2. ASSUME OM!SubmitOrder(t, qty) PROVE QtysBounded'
    <3> DEFINE l == [local[t] EXCEPT !.qty = qty, !.accepted = clock]
    <3>1. l \in Proved!Locals /\ l.qty = qty
      BY <1>0, <2>1 DEF Proved!Locals
    <3>2. OM!CallBroker(t, l)
      BY <2>2 DEF OM!SubmitOrder
    <3> HIDE DEF l
    <3> QED
      BY <2>1, <3>1, <3>2, RequestQtys
  <2>3. ASSUME NEW d \in Tasks, OM!SpawnDca(t, d, qty) PROVE QtysBounded'
    <3> DEFINE q == RoundHalfEven(qty, DcaSplits)
               l == [local[t] EXCEPT !.qty = q, !.left = DcaSplits, !.accepted = clock]
    <3>1. q \in 0 .. DefaultKrw
      <4> HIDE DEF q
      <4>1. q \in 0 .. qty
        BY <1>0, <2>1, QuotientBounded DEF q
      <4> QED
        BY <1>0, <2>1, <4>1
    <3>2. /\ local' = [local EXCEPT ![t] = OM!NoLocals, ![d] = l]
          /\ submitted' = submitted
      BY <2>3 DEF OM!SpawnDca, OM!RoundHalfEven, RoundHalfEven
    <3> HIDE DEF q
    <3>3. l.qty = q
      BY <1>0 DEF Proved!Locals
    <3> HIDE DEF l
    <3>4. \A u \in Tasks : local'[u].qty <= DefaultKrw
      BY <1>0, <3>1, <3>2, <3>3
    <3> QED
      BY <3>2, <3>4, QtysKept
  <2> QED
    BY <2>2, <2>3
<1>2. ASSUME NEW t \in Tasks, OM!SubmitSplit(t)
      PROVE  QtysBounded'
  <2> DEFINE l == [local[t] EXCEPT !.left = @ - 1]
  <2>1. local[t].left - 1 \in Nat
    BY <1>0, <1>2
       DEF OM!SubmitSplit, CoreInv, Proved!TypeInv, Proved!LocalsFitPc,
           Proved!Spreading, Proved!Locals
  <2>2. l \in Proved!Locals /\ l.qty = local[t].qty
    BY <1>0, <2>1 DEF Proved!Locals
  <2>3. OM!CallBroker(t, l)
    BY <1>2 DEF OM!SubmitSplit
  <2> HIDE DEF l
  <2> QED
    BY <1>0, <2>2, <2>3, RequestQtys
<1>3. ASSUME NEW t \in Tasks, NEW paid \in Amounts, OM!PlaceOrderReturns(t, paid)
      PROVE  QtysBounded'
  <2>1. submitted' = submitted
    BY <1>3 DEF OM!PlaceOrderReturns
  <2>2. \A u \in Tasks : local'[u].qty = local[u].qty
    BY <1>0, <1>3 DEF OM!PlaceOrderReturns, Proved!Locals
  <2> QED
    BY <1>0, <2>1, <2>2, QtysKept
<1>4. ASSUME NEW t \in Tasks, OM!PlaceOrderRefused(t)
      PROVE  QtysBounded'
  <2> DEFINE n == local[t].sub
  <2>1. /\ submitted' = [submitted EXCEPT ![n].status = "refused"]
        /\ local' = local /\ n \in DOMAIN submitted
    BY <1>4, CoreInvTypes DEF OM!PlaceOrderRefused
  <2>2. /\ DOMAIN submitted' = DOMAIN submitted
        /\ \A i \in DOMAIN submitted : submitted'[i].qty = submitted[i].qty
    BY <1>0, <2>1 DEF Proved!Submissions
  <2> QED
    BY <1>0, <2>1, <2>2, QtysKept
<1>5. ASSUME NEW n \in DOMAIN submitted, NEW filled \in 1 .. DefaultKrw,
             OM!ExchangeFills(n, filled)
      PROVE  QtysBounded'
  <2>1. submitted' = [submitted EXCEPT ![n].filled = filled] /\ local' = local
    BY <1>5 DEF OM!ExchangeFills, OM!memory
  <2>2. /\ DOMAIN submitted' = DOMAIN submitted
        /\ \A i \in DOMAIN submitted : submitted'[i].qty = submitted[i].qty
    BY <1>0, <2>1 DEF Proved!Submissions
  <2> QED
    BY <1>0, <2>1, <2>2, QtysKept
<1>6. ASSUME submitted' = submitted,
             \A u \in Tasks : local'[u].qty \in {local[u].qty, 0}
      PROVE  QtysBounded'
  BY <1>0, <1>6, QtysKept
<1>7. ASSUME NEW t \in Tasks,
             \/ OM!SkipSignal(t) \/ OM!RejectByRisk(t) \/ OM!PlaceOrderRaises(t)
             \/ OM!CommitOrder(t) \/ OM!CommitRaises(t)
             \/ OM!SaveFailedOrder(t) \/ OM!SaveFailedOrderRaises(t)
             \/ OM!DeliverFilled(t) \/ OM!PublishReturns(t)
      PROVE  QtysBounded'
  BY <1>0, <1>6, <1>7
     DEF OM!SkipSignal, OM!RejectByRisk, OM!PlaceOrderRaises, OM!CommitOrder,
         OM!CommitRaises, OM!SaveFailedOrder, OM!SaveFailedOrderRaises,
         OM!DeliverFilled, OM!PublishReturns, OM!Finish
<1>8. ASSUME NEW t \in Tasks, OM!TaskStep(t)
      PROVE  QtysBounded'
  BY <1>1, <1>2, <1>3, <1>4, <1>7, <1>8 DEF OM!TaskStep
<1>9. ASSUME NEW t \in Tasks, NEW s \in Symbols, NEW signal \in OM!Signals,
             NEW p \in Prices, OM!OnSignal(t, s, signal, p)
      PROVE  QtysBounded'
  BY <1>0, <1>6, <1>9 DEF OM!OnSignal, OM!NoLocals
<1>10. CASE OM!Tick \/ OM!Crash \/ OM!Exhausted \/ UNCHANGED OM!vars
  BY <1>0, <1>6, <1>10 DEF OM!Tick, OM!Crash, OM!Exhausted, OM!vars, OM!memory
<1> QED
  BY <1>5, <1>8, <1>9, <1>10 DEF OM!Next, OM!Environment

-------------------------------------------------------------------------------
\* OM and Proved are instances of the same definitions, so that their formulas
\* are the same once every definition is expanded.

LEMMA SameNext == [OM!Next]_(OM!vars) <=> [Proved!Next]_(Proved!vars)
  BY DEF OM!Next, Proved!Next, OM!memory, Proved!memory,
         OM!TaskStep, Proved!TaskStep, OM!Environment, Proved!Environment,
         OM!SkipSignal, Proved!SkipSignal,
         OM!RejectByRisk, Proved!RejectByRisk,
         OM!SubmitOrder, Proved!SubmitOrder, OM!SpawnDca, Proved!SpawnDca,
         OM!SubmitSplit, Proved!SubmitSplit,
         OM!PlaceOrderReturns, Proved!PlaceOrderReturns,
         OM!PlaceOrderRefused, Proved!PlaceOrderRefused,
         OM!PlaceOrderRaises, Proved!PlaceOrderRaises,
         OM!CommitOrder, Proved!CommitOrder,
         OM!CommitRaises, Proved!CommitRaises,
         OM!SaveFailedOrder, Proved!SaveFailedOrder,
         OM!SaveFailedOrderRaises, Proved!SaveFailedOrderRaises,
         OM!DeliverFilled, Proved!DeliverFilled,
         OM!PublishReturns, Proved!PublishReturns,
         OM!OnSignal, Proved!OnSignal, OM!ExchangeFills, Proved!ExchangeFills,
         OM!Tick, Proved!Tick, OM!Crash, Proved!Crash,
         OM!Exhausted, Proved!Exhausted, OM!Accept, Proved!Accept,
         OM!CallBroker, Proved!CallBroker, OM!Goto, Proved!Goto,
         OM!Finish, Proved!Finish, OM!IdTaken, Proved!IdTaken,
         OM!CooldownActive, Proved!CooldownActive, OM!SideOf, Proved!SideOf,
         OM!Quantity, Proved!Quantity, OM!RoundHalfEven, Proved!RoundHalfEven,
         OM!NoLocals, Proved!NoLocals, OM!Never, Proved!Never,
         OM!Pending, Proved!Pending, OM!Signals, Proved!Signals,
         OM!vars, Proved!vars

LEMMA SameInit == OM!Init <=> Proved!Init
  BY DEF OM!Init, Proved!Init, OM!NoLocals, Proved!NoLocals, OM!Never, Proved!Never,
         OM!Pending, Proved!Pending

LEMMA SameSpec == OM!Spec <=> Proved!Spec
  BY SameInit, SameNext, PTL DEF OM!Spec, Proved!Spec
-------------------------------------------------------------------------------
\* The composed system implements OrderManager, and inherits its theorems.

LEMMA InitCore == Init => CoreInv
<1> SUFFICES ASSUME Init PROVE CoreInv
  OBVIOUS
<1>1. OM!Init /\ TicksFit
  BY DEF Init, TicksFit
<1>2. Proved!TypeInv
  BY <1>1, SameInit, OrderManagerParameters, Proved!InitTypeInv
<1>3. submitted = <<>> /\ \A t \in Tasks : local[t].qty = 0
  BY <1>1 DEF OM!Init, OM!NoLocals
<1>4. DOMAIN submitted = {} /\ DefaultKrw \in Nat
  BY <1>3, TradingCoreAssumption
<1>5. QtysBounded
  BY <1>3, <1>4 DEF QtysBounded
<1> QED
  BY <1>1, <1>2, <1>5 DEF CoreInv

LEMMA NextCore == CoreInv /\ [Next]_vars => CoreInv' /\ [OM!Next]_(OM!vars)
<1> SUFFICES ASSUME CoreInv, [Next]_vars PROVE CoreInv' /\ [OM!Next]_(OM!vars)
  OBVIOUS
<1>1. [OM!Next]_(OM!vars)
  BY StepRefines
<1>2. Proved!TypeInv'
  BY <1>1, SameNext, OrderManagerParameters, Proved!StepTypes DEF CoreInv
<1>3. QtysBounded'
  BY <1>1, StepQtys
<1>4. TicksFit'
  <2>1. TicksFit
    BY DEF CoreInv
  <2> QED
    BY <2>1
       DEF TicksFit, Next, vars, tickVars, PriceTick, MonitorRuns, StrategyRuns,
           TaskStep, OrderStep, PositionUpdated, AccountSync, OrderFills, Tick,
           Crash, Exhausted
<1> QED
  BY <1>1, <1>2, <1>3, <1>4 DEF CoreInv

\* Seen from OrderManager alone, the trading path that main.py wires together is
\* an OrderManager: the signals of the monitor and the strategies, the answers
\* of the risk check and the responses and fills of the exchange are all ones
\* that OrderManager allows for (stop_loss.py:80-90, engine.py, risk.py:58-107).
THEOREM CoreImplementsOrderManager == Spec => ImplementsOrderManager
<1>1. Init => OM!Init
  BY DEF Init
<1> QED
  BY <1>1, InitCore, NextCore, PTL DEF Spec, ImplementsOrderManager, OM!Spec

\* What is proved of OrderManager for any signals, risk answers and exchange
\* therefore holds in the composed system: the spacing of orders, the number of
\* orders per signal, and the agreement of the tables and the events.
THEOREM CoreOrdersSound ==
  Spec => [](/\ Proved!CooldownSpacing /\ Proved!SplitsBounded
             /\ Proved!LedgerAtomic /\ Proved!EventsFollowLedger
             /\ Proved!TradesBacked)
<1>1. Spec => Proved!Spec
  BY CoreImplementsOrderManager, SameSpec DEF ImplementsOrderManager
<1>2. Proved!Spec => [](Proved!CooldownInv /\ Proved!CooldownSpacing)
  BY OrderManagerParameters, Proved!OrdersSpaced
<1>3. Proved!Spec => [](Proved!SplitsInv /\ Proved!SplitsBounded)
  BY OrderManagerParameters, Proved!SplitsAreBounded
<1>4. Proved!Spec => []Proved!LedgerAtomic
  BY OrderManagerParameters, Proved!TablesAgree
<1>5. Proved!Spec => []Proved!EventsFollowLedger
  BY OrderManagerParameters, Proved!EventsAgree
<1>6. Proved!Spec => []Proved!TradesBacked
  BY OrderManagerParameters, Proved!TradesAreBacked
<1> QED
  BY <1>1, <1>2, <1>3, <1>4, <1>5, <1>6, PTL

-------------------------------------------------------------------------------
\* The stop-loss monitor in the composed system.

\* What makes OneSellPerEntry inductive: the one signal an entry has had is
\* remembered in _triggered.  A restart closes every position.
FiredOnce ==
  /\ fired \in [Symbols -> Nat]
  /\ \A s \in Symbols :
       SL!IsOpen(positions[s]) =>
         fired[s] = 0 \/ (fired[s] = 1 /\ s \in triggered)

LEMMA NextFiredOnce == FiredOnce /\ [Next]_vars => FiredOnce'
<1> SUFFICES ASSUME FiredOnce, [Next]_vars PROVE FiredOnce'
  OBVIOUS
<1> USE DEF monitorVars
<1>1. CASE UNCHANGED monitorVars
  BY <1>1 DEF FiredOnce
<1>2. CASE MonitorRuns
  BY <1>2 DEF FiredOnce, MonitorRuns, SL!Rearm, SL!Hold, SL!Trigger
<1>3. ASSUME NEW t \in Tasks, PositionUpdated(t)
      PROVE  FiredOnce'
  BY <1>3 DEF FiredOnce, PositionUpdated, SL!CountEntries
<1>4. CASE Crash
  BY <1>4 DEF FiredOnce, Crash, SL!Closed, SL!IsOpen
<1> QED
  BY <1>1, <1>2, <1>3, <1>4
     DEF Next, vars, PriceTick, StrategyRuns, TaskStep, OrderStep, AccountSync,
         OrderFills, Tick, Exhausted

\* "no second trigger until the position is closed" (stop_loss.py:11) holds with
\* the sells under way, failing or executed, the strategies trading the same
\* symbol and restarts: the monitor publishes at most one signal for an entry.
THEOREM CoreEntrySoldOnce == Spec => []SL!OneSellPerEntry
<1>1. Init => FiredOnce
  BY DEF Init, SL!MonitorInit, FiredOnce
<1>2. FiredOnce => SL!OneSellPerEntry
  BY DEF FiredOnce, SL!OneSellPerEntry
<1> QED
  BY <1>1, <1>2, NextFiredOnce, PTL DEF Spec

-------------------------------------------------------------------------------
\* Sums over finite sets.  Induction over the subsets of a finite set, as a set of
\* counterexamples that would have a least element.

LEMMA LeastSubset ==
  ASSUME NEW S, IsFiniteSet(S), NEW B, B \subseteq SUBSET S, B # {}
  PROVE  \E T \in B : \A U \in B : ~(U \subseteq T /\ U # T)
<1>1. IsWellFoundedOn(StrictSubsetOrdering(S), FiniteSubsetsOf(S))
  BY FS_StrictSubsetOrderingWellFounded
<1>2. FiniteSubsetsOf(S) = SUBSET S
  BY FS_FiniteSubsetsOfFinite
<1>3. PICK T \in B : \A U \in B : ~(<<U, T>> \in StrictSubsetOrdering(S))
  BY <1>1, <1>2, WFMin
<1> QED
  BY <1>3 DEF StrictSubsetOrdering

\* A function that gives the total quantity of every set of trades among S: taking
\* out any trade takes out its quantity.
Additive(g, S) ==
  /\ g \in [SUBSET S -> Nat] /\ g[{}] = 0
  /\ \A T \in SUBSET S : \A x \in T : g[T] = x.qty + g[T \ {x}]

LEMMA AdditiveExists ==
  ASSUME NEW S, IsFiniteSet(S), \A x \in S : x.qty \in Nat
  PROVE  \E g : Additive(g, S)
<1> DEFINE Bad == {T \in SUBSET S : ~\E g : Additive(g, T)}
<1>1. SUFFICES ASSUME Bad # {} PROVE FALSE
  OBVIOUS
<1>2. PICK T \in Bad : \A U \in Bad : ~(U \subseteq T /\ U # T)
  <2>1. Bad \subseteq SUBSET S
    OBVIOUS
  <2> HIDE DEF Bad
  <2> QED
    BY <1>1, <2>1, LeastSubset
<1>3. T # {}
  <2> DEFINE g == [U \in SUBSET {} |-> 0]
  <2>1. Additive(g, {})
    BY DEF Additive
  <2> QED
    BY <1>2, <2>1
<1>4. PICK x \in T : TRUE
  BY <1>3
<1>5. PICK g : Additive(g, T \ {x})
  BY <1>2, <1>4
<1> DEFINE h == [U \in SUBSET T |-> (IF x \in U THEN x.qty ELSE 0) + g[U \ {x}]]
<1>6. x.qty \in Nat /\ \A y \in T : y.qty \in Nat
  BY <1>2, <1>4
<1>7. /\ g \in [SUBSET (T \ {x}) -> Nat] /\ g[{}] = 0
      /\ \A U \in SUBSET T : U \ {x} \in SUBSET (T \ {x})
  BY <1>5 DEF Additive
<1>8. h \in [SUBSET T -> Nat] /\ h[{}] = 0
  <2>1. \A U \in SUBSET T : g[U \ {x}] \in Nat
    BY <1>7
  <2>2. {} \ {x} = {}
    OBVIOUS
  <2> QED
    BY <1>6, <1>7, <2>1, <2>2
<1>9. ASSUME NEW U \in SUBSET T, NEW y \in U
      PROVE  h[U] = y.qty + h[U \ {y}]
  <2>1. /\ U \ {y} \in SUBSET T
        /\ h[U] = (IF x \in U THEN x.qty ELSE 0) + g[U \ {x}]
        /\ h[U \ {y}] = (IF x \in U \ {y} THEN x.qty ELSE 0) + g[(U \ {y}) \ {x}]
        /\ g[U \ {x}] \in Nat /\ g[(U \ {y}) \ {x}] \in Nat
        /\ x.qty \in Nat /\ y.qty \in Nat
    BY <1>6, <1>7
  <2> HIDE DEF h
  <2> DEFINE a == h[U]
             b == h[U \ {y}]
             c == g[U \ {x}]
             d == g[(U \ {y}) \ {x}]
             q == x.qty
             r == y.qty
  <2> USE <2>1
  <2>2. CASE y = x
    <3>1. (U \ {y}) \ {x} = U \ {x} /\ x \notin U \ {y} /\ x \in U
      BY <2>2
    <3>2. a = q + c /\ b = 0 + d /\ d = c /\ q = r
      BY <2>2, <3>1
    <3>3. q \in Nat /\ c \in Nat
      OBVIOUS
    <3> HIDE DEF a, b, c, d, q, r
    <3>4. a = r + b
      BY <3>2, <3>3
    <3> QED
      BY <3>4 DEF a, b, r
  <2>3. CASE y # x
    <3> DEFINE e == IF x \in U THEN q ELSE 0
    <3>1. (U \ {y}) \ {x} = (U \ {x}) \ {y} /\ (x \in U \ {y} <=> x \in U)
      BY <2>3
    <3>2. U \ {x} \in SUBSET (T \ {x}) /\ y \in U \ {x}
      BY <2>3
    <3>3. c = r + d
      BY <1>5, <3>1, <3>2 DEF Additive
    <3>4. a = e + c /\ b = e + d
      BY <3>1
    <3>5. e \in Nat /\ r \in Nat /\ d \in Nat
      OBVIOUS
    <3> HIDE DEF a, b, c, d, e, q, r
    <3>6. a = r + b
      BY <3>3, <3>4, <3>5
    <3> QED
      BY <3>6 DEF a, b, r
  <2> QED
    BY <2>2, <2>3
<1>10. Additive(h, T)
  BY <1>8, <1>9 DEF Additive
<1> QED
  BY <1>2, <1>10

\* The fold of TotalQty chooses an order, but the total does not depend on it.
LEMMA TotalAdditive ==
  ASSUME NEW S, IsFiniteSet(S), NEW g, Additive(g, S)
  PROVE  TotalQty(S) = g[S]
<1> DEFINE First(s) == CHOOSE x \in s : TRUE
           Sums(f) == f = [s \in SUBSET S |->
                             IF s = {} THEN 0 ELSE First(s).qty + f[s \ {First(s)}]]
           f0 == CHOOSE f : Sums(f)
           Bad == {s \in SUBSET S : f0[s] # g[s]}
<1>1. TotalQty(S) = f0[S]
  BY DEF TotalQty, MapThenSumSet, MapThenFoldSet
<1>2. \A s \in SUBSET S : s # {} => First(s) \in s
  OBVIOUS
<1> HIDE DEF First
<1>3. \A s \in SUBSET S :
        g[s] = IF s = {} THEN 0 ELSE First(s).qty + g[s \ {First(s)}]
  BY <1>2 DEF Additive
<1>4. Sums(g)
  BY <1>3 DEF Additive
<1>5. Sums(f0)
  <2> HIDE DEF Sums
  <2> QED
    BY <1>4
<1> HIDE DEF f0
<1>6. \A s \in SUBSET S :
        f0[s] = IF s = {} THEN 0 ELSE First(s).qty + f0[s \ {First(s)}]
  BY <1>5
<1> HIDE DEF Sums
<1>7. Bad = {}
  <2>1. SUFFICES ASSUME Bad # {} PROVE FALSE
    OBVIOUS
  <2>2. PICK s \in Bad : \A u \in Bad : ~(u \subseteq s /\ u # s)
    <3>1. Bad \subseteq SUBSET S
      OBVIOUS
    <3> HIDE DEF Bad
    <3> QED
      BY <2>1, <3>1, LeastSubset
  <2>3. s # {}
    BY <1>3, <1>6, <2>2
  <2>4. First(s) \in s /\ s \ {First(s)} \in SUBSET S
    BY <1>2, <2>2, <2>3
  <2>5. f0[s \ {First(s)}] = g[s \ {First(s)}]
    BY <2>2, <2>4
  <2> QED
    BY <1>3, <1>6, <2>2, <2>3, <2>5
<1> QED
  BY <1>1, <1>7

LEMMA TotalOfNone == TotalQty({}) = 0
<1>1. IsFiniteSet({})
  BY FS_EmptySet
<1>2. PICK g : Additive(g, {})
  BY <1>1, AdditiveExists
<1>3. TotalQty({}) = g[{}]
  BY <1>1, <1>2, TotalAdditive
<1> QED
  BY <1>2, <1>3 DEF Additive

LEMMA TotalIsNat ==
  ASSUME NEW S, IsFiniteSet(S), \A x \in S : x.qty \in Nat
  PROVE  TotalQty(S) \in Nat
<1>1. PICK g : Additive(g, S)
  BY AdditiveExists
<1>2. TotalQty(S) = g[S]
  BY <1>1, TotalAdditive
<1> QED
  BY <1>1, <1>2 DEF Additive

\* One more trade adds its quantity.
LEMMA TotalGrows ==
  ASSUME NEW S, IsFiniteSet(S), \A y \in S : y.qty \in Nat,
         NEW x, x \notin S, x.qty \in Nat
  PROVE  TotalQty(S) \in Nat /\ TotalQty(S \cup {x}) = TotalQty(S) + x.qty
<1> DEFINE T == S \cup {x}
<1>1. IsFiniteSet(T) /\ \A y \in T : y.qty \in Nat
  BY FS_AddElement
<1>2. PICK g : Additive(g, T)
  BY <1>1, AdditiveExists
<1> DEFINE h == [U \in SUBSET S |-> g[U]]
<1>3. S \in SUBSET T /\ T \ {x} = S /\ x \in T /\ SUBSET S \subseteq SUBSET T
  OBVIOUS
<1>4. Additive(h, S)
  <2>1. h \in [SUBSET S -> Nat] /\ h[{}] = 0
    BY <1>2, <1>3 DEF Additive
  <2>2. ASSUME NEW U \in SUBSET S, NEW y \in U
        PROVE  h[U] = y.qty + h[U \ {y}]
    BY <1>2, <1>3 DEF Additive
  <2> QED
    BY <2>1, <2>2 DEF Additive
<1>5. TotalQty(S) = g[S] /\ g[S] \in Nat
  <2>1. TotalQty(S) = h[S]
    BY <1>4, TotalAdditive
  <2> QED
    BY <1>2, <1>3, <2>1 DEF Additive
<1>6. TotalQty(T) = g[T]
  BY <1>1, <1>2, TotalAdditive
<1>7. g[T] = x.qty + g[S]
  BY <1>2, <1>3 DEF Additive
<1> QED
  BY <1>5, <1>6, <1>7

-------------------------------------------------------------------------------
\* The position follows the trades.

\* What is known of the composed state beside FollowInv.
LedgerFacts ==
  CoreInv /\ Proved!LedgerInv /\ Proved!LastOrderTimeRecords

Busy == {"placing", "committing", "failing", "publishing"}

LEMMA LedgerFactsTypes ==
  ASSUME LedgerFacts
  PROVE  /\ local \in [Tasks -> Proved!Locals] /\ pc \in [Tasks -> Proved!PcValues]
         /\ \A t \in Tasks : /\ local[t].symbol \in Symbols
                             /\ local[t].executed \in Nat /\ local[t].paid \in Nat
         /\ \A tr \in trades : tr.id \in DOMAIN submitted /\ tr.qty \in Nat
<1>1. local \in [Tasks -> Proved!Locals] /\ pc \in [Tasks -> Proved!PcValues]
  BY CoreInvTypes DEF LedgerFacts
<1>2. trades \subseteq Proved!TradeRows
  BY DEF LedgerFacts, CoreInv, Proved!TypeInv, Proved!TypeOK
<1>3. \A tr \in trades : tr.id \in DOMAIN submitted
  BY DEF LedgerFacts, Proved!LedgerInv, Proved!RowsFit
<1> QED
  BY <1>1, <1>2, <1>3 DEF Proved!TradeRows, Proved!Locals

\* The delivered trades are finitely many, and have quantities.
LEMMA DeliveredFinite ==
  ASSUME LedgerFacts, FollowInv, NEW s, NEW side
  PROVE  /\ IsFiniteSet(DeliveredTrades(s, side))
         /\ \A tr \in DeliveredTrades(s, side) : tr.qty \in Nat
         /\ TotalQty(DeliveredTrades(s, side)) \in Nat
<1> DEFINE D == DeliveredTrades(s, side)
<1>1. D \subseteq trades /\ IsFiniteSet(trades)
  BY DEF DeliveredTrades, FollowInv
<1>2. \A tr \in D : tr.qty \in Nat
  BY <1>1, LedgerFactsTypes
<1> HIDE DEF D
<1>3. IsFiniteSet(D)
  BY <1>1, FS_Subset
<1>4. TotalQty(D) \in Nat
  BY <1>2, <1>3, TotalIsNat
<1> QED
  BY <1>2, <1>3, <1>4 DEF D

\* A step that commits no trade and delivers none.
LEMMA FollowKept ==
  ASSUME LedgerFacts, FollowInv, trades' = trades, epoch' = epoch,
         positions' = positions,
         \A n \in DOMAIN submitted :
           n \in DOMAIN submitted' /\ submitted'[n].epoch = submitted[n].epoch,
         \A t \in Tasks :
           /\ pc[t] = "publishing" => pc'[t] = "publishing"
           /\ pc'[t] = "publishing" => pc[t] = "publishing" /\ local'[t] = local[t]
           /\ pc'[t] \in Busy =>
                \/ pc[t] \in Busy /\ local'[t].sub = local[t].sub
                \/ /\ local'[t].sub \in DOMAIN submitted'
                   /\ submitted'[local'[t].sub].epoch = epoch
  PROVE  FollowInv'
<1>1. OrdersOfThisRun'
  BY DEF FollowInv, OrdersOfThisRun, Busy
<1>2. FillsAreTrades'
  BY DEF FollowInv, FillsAreTrades, TradeOf, OM!SideOf
<1>3. ASSUME NEW s, NEW side
      PROVE  DeliveredTrades(s, side)' = DeliveredTrades(s, side)
  BY LedgerFactsTypes DEF DeliveredTrades
<1>4. PositionFollowsTrades'
  BY <1>3 DEF FollowInv, PositionFollowsTrades
<1> QED
  BY <1>1, <1>2, <1>4 DEF FollowInv, TradesApart, SL!PositionTypeOK

\* The commit of a trade: from now on it waits to be delivered.
LEMMA CommitFollows ==
  ASSUME LedgerFacts, FollowInv, NEW t \in Tasks, OM!CommitOrder(t),
         positions' = positions
  PROVE  FollowInv'
<1>0. /\ pc[t] = "committing" /\ trades' = trades \cup {TradeOf(t)}
      /\ local' = local /\ epoch' = epoch /\ submitted' = submitted
      /\ pc' = [pc EXCEPT ![t] = "publishing"] /\ TradeOf(t)' = TradeOf(t)
  BY DEF OM!CommitOrder, OM!Goto, TradeOf, OM!SideOf
<1>1. /\ pc' \in [Tasks -> Proved!PcValues] /\ pc'[t] = "publishing"
      /\ \A u \in Tasks \ {t} : pc'[u] = pc[u]
  BY <1>0, LedgerFactsTypes DEF Proved!PcValues
<1>2. /\ local[t].id = local[t].sub /\ TradeOf(t).id = local[t].id
      /\ \A tr \in trades : tr.id # local[t].id
  BY <1>0 DEF LedgerFacts, Proved!LedgerInv, Proved!IdsFitPc,
              Proved!UnsettledUnrecorded, Proved!Unsettled, TradeOf
<1>3. \A u \in Tasks : TradeOf(u)' = TradeOf(u) /\ TradeOf(u).id = local[u].id
  BY <1>0 DEF TradeOf, OM!SideOf
<1>4. \A u \in Tasks \ {t} : pc[u] = "publishing" => local[u].id # local[t].id
  BY <1>2, <1>3 DEF FollowInv, FillsAreTrades
<1>5. OrdersOfThisRun'
  BY <1>0, <1>1 DEF FollowInv, OrdersOfThisRun
<1>6. FillsAreTrades'
  BY <1>0, <1>1, <1>2, <1>3, <1>4 DEF FollowInv, FillsAreTrades
<1>7. TradesApart'
  BY <1>0, <1>2 DEF FollowInv, TradesApart
<1>8. ASSUME NEW s, NEW side
      PROVE  DeliveredTrades(s, side)' = DeliveredTrades(s, side)
  BY <1>0, <1>1, <1>2 DEF DeliveredTrades
<1>9. PositionFollowsTrades'
  BY <1>8 DEF FollowInv, PositionFollowsTrades
<1>10. IsFiniteSet(trades')
  BY <1>0, FS_AddElement DEF FollowInv
<1> QED
  BY <1>5, <1>6, <1>7, <1>9, <1>10 DEF FollowInv, SL!PositionTypeOK

\* The delivery of a fill moves the position by the quantity of its trade.
LEMMA DeliverFollows ==
  ASSUME LedgerFacts, FollowInv, NEW t \in Tasks, PositionUpdated(t)
  PROVE  FollowInv'
<1> DEFINE l == local[t]
           x == TradeOf(t)
           side == OM!SideOf(l.signal)
           q == positions[l.symbol]
           p == IF side = "buy" THEN SL!BuyInto(q, l.executed, l.paid)
                                ELSE SL!SellFrom(q, l.executed)
<1>0. /\ pc[t] = "publishing" /\ pc' = [pc EXCEPT ![t] = "notifying"]
      /\ local' = local /\ epoch' = epoch /\ submitted' = submitted
      /\ trades' = trades /\ positions' = [positions EXCEPT ![l.symbol] = p]
  BY DEF PositionUpdated, OM!DeliverFilled, OM!Goto, SL!OnOrderFilled
<1>1. /\ pc'[t] = "notifying" /\ \A u \in Tasks \ {t} : pc'[u] = pc[u]
      /\ l.symbol \in Symbols /\ l.executed \in Nat /\ l.paid \in Nat
  BY <1>0, LedgerFactsTypes DEF Proved!PcValues
<1>2. /\ x \in trades /\ x.id = l.id /\ x.symbol = l.symbol /\ x.side = side
      /\ x.qty = l.executed /\ l.id = l.sub /\ submitted[l.id].epoch = epoch
      /\ \A u \in Tasks \ {t} : pc[u] = "publishing" => local[u].id # l.id
  BY <1>0 DEF FollowInv, FillsAreTrades, OrdersOfThisRun, TradeOf
<1>3. \A tr \in trades : tr.id = l.id => tr = x
  BY <1>2 DEF FollowInv, TradesApart
<1>4. q \in SL!Position /\ positions \in [Symbols -> SL!Position]
  BY <1>1 DEF FollowInv, SL!PositionTypeOK
<1>5. /\ p \in SL!Position
      /\ side = "buy" => p.quantity = q.quantity + l.executed
      /\ side # "buy" => p.quantity = IF q.quantity > l.executed
                                      THEN q.quantity - l.executed ELSE 0
  <2>1. q.quantity \in Nat /\ q.avgPrice \in Nat /\ q = [q EXCEPT !.quantity = q.quantity]
    BY <1>4 DEF SL!Position
  <2>2. CASE side = "buy"
    <3> DEFINE held == q.quantity + l.executed
               paid == q.avgPrice * q.quantity + l.paid * l.executed
               avg == IF held > 0 THEN RoundHalfEven(paid, held) ELSE 0
    <3>1. held \in Nat /\ paid \in Nat
      BY <1>1, <2>1
    <3>2. p = [quantity |-> held, avgPrice |-> avg]
      BY <2>2 DEF SL!BuyInto, SL!RoundHalfEven, RoundHalfEven
    <3> HIDE DEF held, paid, p
    <3>3. avg \in Nat
      BY <3>1, RoundHalfEvenNat
    <3> HIDE DEF avg
    <3> QED
      BY <2>2, <3>1, <3>2, <3>3 DEF SL!Position, held
  <2>3. CASE side # "buy"
    BY <1>1, <1>4, <2>1, <2>3 DEF SL!SellFrom, SL!Closed, SL!Position
  <2> QED
    BY <2>2, <2>3
<1>6. side \in {"buy", "sell"}
  BY DEF OM!SideOf
<1> HIDE DEF p, q, side, x, l
<1>7. /\ positions'[l.symbol] = p
      /\ \A s \in Symbols \ {l.symbol} : positions'[s] = positions[s]
      /\ positions' \in [Symbols -> SL!Position]
  BY <1>0, <1>1, <1>4, <1>5
<1>8. ASSUME NEW s, NEW d, ~(s = l.symbol /\ d = side)
      PROVE  DeliveredTrades(s, d)' = DeliveredTrades(s, d)
  BY <1>0, <1>1, <1>2, <1>3, <1>8 DEF DeliveredTrades, l
<1>9. ASSUME NEW s, NEW d, s = l.symbol, d = side
      PROVE  /\ DeliveredTrades(s, d)' = DeliveredTrades(s, d) \cup {x}
             /\ x \notin DeliveredTrades(s, d)
  <2> DEFINE Waits(id) == \E u \in Tasks : pc[u] = "publishing" /\ local[u].id = id
             WaitsStill(id) == \E u \in Tasks : pc'[u] = "publishing" /\ local[u].id = id
             D == DeliveredTrades(s, d)
             Mine(tr) == /\ tr.symbol = s /\ tr.side = d
                         /\ submitted[tr.id].epoch = epoch
  <2>1. Waits(x.id) /\ ~WaitsStill(x.id)
    BY <1>0, <1>1, <1>2 DEF l
  <2>2. \A tr \in trades : tr # x => (Waits(tr.id) <=> WaitsStill(tr.id))
    BY <1>0, <1>1, <1>2, <1>3 DEF l
  <2>3. \A tr : tr \in D <=> tr \in trades /\ Mine(tr) /\ ~Waits(tr.id)
    BY DEF DeliveredTrades
  <2>4. \A tr : tr \in D' <=> tr \in trades /\ Mine(tr) /\ ~WaitsStill(tr.id)
    BY <1>0 DEF DeliveredTrades
  <2>5. x \in trades /\ Mine(x)
    BY <1>2, <1>9
  <2> HIDE DEF Waits, WaitsStill, Mine
  <2> QED
    BY <2>1, <2>2, <2>3, <2>4, <2>5
<1>10. /\ \A s, d : TotalQty(DeliveredTrades(s, d)) \in Nat
       /\ \A s, d : s = l.symbol /\ d = side =>
            TotalQty(DeliveredTrades(s, d)') = TotalQty(DeliveredTrades(s, d)) + l.executed
  <2>1. ASSUME NEW s, NEW d
        PROVE  /\ IsFiniteSet(DeliveredTrades(s, d))
               /\ \A tr \in DeliveredTrades(s, d) : tr.qty \in Nat
               /\ TotalQty(DeliveredTrades(s, d)) \in Nat
    BY DeliveredFinite
  <2>2. ASSUME NEW s, NEW d, s = l.symbol, d = side
        PROVE  TotalQty(DeliveredTrades(s, d)')
                 = TotalQty(DeliveredTrades(s, d)) + l.executed
    <3> DEFINE D == DeliveredTrades(s, d)
    <3>1. x.qty = l.executed /\ x.qty \in Nat
      BY <1>1, <1>2
    <3>2. x \notin D /\ D' = D \cup {x}
      BY <1>9, <2>2
    <3>3. IsFiniteSet(D) /\ \A tr \in D : tr.qty \in Nat
      BY <2>1
    <3> HIDE DEF D
    <3>4. TotalQty(D \cup {x}) = TotalQty(D) + x.qty
      BY <3>1, <3>2, <3>3, TotalGrows
    <3> QED
      BY <3>1, <3>2, <3>4 DEF D
  <2> QED
    BY <2>1, <2>2
<1>11. ASSUME NEW s \in Symbols
       PROVE  /\ positions'[s].quantity >= TotalQty(DeliveredTrades(s, "buy")')
                                            - TotalQty(DeliveredTrades(s, "sell")')
              /\ positions'[s].quantity <= TotalQty(DeliveredTrades(s, "buy")')
  <2> DEFINE bought == TotalQty(DeliveredTrades(s, "buy"))
             sold == TotalQty(DeliveredTrades(s, "sell"))
             newBought == TotalQty(DeliveredTrades(s, "buy")')
             newSold == TotalQty(DeliveredTrades(s, "sell")')
             old == positions[s].quantity
             new == positions'[s].quantity
             e == l.executed
  <2>1. /\ bought \in Nat /\ sold \in Nat /\ old \in Nat /\ e \in Nat
        /\ old >= bought - sold /\ old <= bought
    BY <1>1, <1>4, <1>10 DEF SL!Position, FollowInv, PositionFollowsTrades
  <2>2. CASE s # l.symbol
    <3>1. newBought = bought /\ newSold = sold /\ new = old
      BY <1>7, <1>8, <2>2
    <3> QED
      BY <2>1, <3>1
  <2>3. CASE s = l.symbol /\ side = "buy"
    <3>1. newBought = bought + e
      BY <1>10, <2>3
    <3>2. newSold = sold
      BY <1>8, <2>3
    <3>3. new = old + e
      BY <1>5, <1>7, <2>3 DEF q
    <3> HIDE DEF bought, sold, newBought, newSold, old, new, e
    <3>4. new >= newBought - newSold /\ new <= newBought
      BY <2>1, <3>1, <3>2, <3>3
    <3> QED
      BY <3>4 DEF newBought, newSold, new
  <2>4. CASE s = l.symbol /\ side = "sell"
    <3>1. newSold = sold + e
      BY <1>10, <2>4
    <3>2. newBought = bought
      BY <1>8, <2>4
    <3>3. new = IF old > e THEN old - e ELSE 0
      BY <1>5, <1>7, <2>4 DEF q
    <3> HIDE DEF bought, sold, newBought, newSold, old, new, e
    <3>4. new >= newBought - newSold /\ new <= newBought
      BY <2>1, <3>1, <3>2, <3>3
    <3> QED
      BY <3>4 DEF newBought, newSold, new
  <2> QED
    BY <1>6, <2>2, <2>3, <2>4
<1>12. PositionFollowsTrades'
  BY <1>11 DEF PositionFollowsTrades
<1>13. OrdersOfThisRun' /\ FillsAreTrades' /\ TradesApart'
  BY <1>0, <1>1 DEF FollowInv, OrdersOfThisRun, FillsAreTrades, TradesApart, TradeOf,
                    OM!SideOf
<1> QED
  BY <1>0, <1>7, <1>12, <1>13 DEF FollowInv, SL!PositionTypeOK

\* A restart forgets the positions, and no trade is of the new run of the process.
LEMMA CrashFollows ==
  ASSUME LedgerFacts, FollowInv, Crash
  PROVE  FollowInv'
<1>1. /\ pc' = [t \in Tasks |-> "idle"] /\ epoch' = epoch + 1 /\ trades' = trades
      /\ submitted' = submitted /\ positions' = [s \in Symbols |-> SL!Closed]
  BY DEF Crash, OM!Crash
<1>2. \A tr \in trades : submitted[tr.id].epoch # epoch + 1
  <2>1. \A n \in DOMAIN submitted : submitted[n].epoch <= epoch /\ submitted[n].epoch \in Nat
    BY CoreInvTypes DEF LedgerFacts, Proved!LastOrderTimeRecords, Proved!Submissions
  <2>2. epoch \in Nat
    BY DEF LedgerFacts, CoreInv, Proved!TypeInv, Proved!TypeOK
  <2> QED
    BY <2>1, <2>2, LedgerFactsTypes
<1>3. ASSUME NEW s, NEW side
      PROVE  DeliveredTrades(s, side)' = {}
  BY <1>1, <1>2 DEF DeliveredTrades
<1>4. SL!PositionTypeOK' /\ \A s \in Symbols : positions'[s].quantity = 0
  BY <1>1 DEF SL!PositionTypeOK, SL!Closed, SL!Position
<1>5. PositionFollowsTrades'
  <2>1. \A s, side : TotalQty(DeliveredTrades(s, side)') = 0
    BY <1>3, TotalOfNone
  <2> QED
    BY <1>4, <2>1 DEF PositionFollowsTrades
<1>6. OrdersOfThisRun' /\ FillsAreTrades' /\ TradesApart'
  BY <1>1 DEF FollowInv, OrdersOfThisRun, FillsAreTrades, TradesApart
<1> QED
  BY <1>1, <1>4, <1>5, <1>6 DEF FollowInv

\* A request leaves for the exchange: the order is of this run of the process.
LEMMA RequestFollows ==
  ASSUME LedgerFacts, FollowInv, NEW t \in Tasks, NEW l \in Proved!Locals,
         OM!CallBroker(t, l), pc[t] # "publishing",
         trades' = trades, epoch' = epoch, positions' = positions
  PROVE  FollowInv'
<1> DEFINE o == [number |-> l.number, symbol |-> l.symbol,
                 side |-> OM!SideOf(l.signal), qty |-> l.qty,
                 accepted |-> l.accepted, at |-> clock, epoch |-> epoch,
                 filled |-> 0, status |-> "live"]
           n == Len(submitted) + 1
           m == [l EXCEPT !.sub = n, !.id = 0, !.executed = 0, !.paid = 0]
<1>1. /\ submitted' = Append(submitted, o) /\ local' = [local EXCEPT ![t] = m]
      /\ pc' = [pc EXCEPT ![t] = "placing"] /\ submitted \in Seq(Proved!Submissions)
  BY CoreInvTypes DEF LedgerFacts, OM!CallBroker, OM!Pending, OM!Goto
<1>2. o \in Proved!Submissions /\ o.epoch = epoch
  BY DEF LedgerFacts, Proved!Submissions, Proved!Locals, Proved!Sides, OM!SideOf, CoreInv,
         Proved!TypeInv, Proved!TypeOK
<1>3. m.sub = n
  BY DEF Proved!Locals
<1> HIDE DEF o, m
<1>4. /\ \A i \in DOMAIN submitted : i \in DOMAIN submitted' /\ submitted'[i] = submitted[i]
      /\ n \in DOMAIN submitted' /\ submitted'[n] = o
  BY <1>1, <1>2, AppendIsLonger
<1> HIDE DEF n
<1>5. /\ pc'[t] = "placing" /\ local'[t].sub = n
      /\ \A u \in Tasks \ {t} : pc'[u] = pc[u] /\ local'[u] = local[u]
  BY <1>1, <1>3, LedgerFactsTypes
<1> QED
  BY <1>2, <1>4, <1>5, FollowKept DEF Busy

\* A step of task t that leaves the orders as they are, and does not put a fill
\* up for delivery or deliver one.
LEMMA StepFollows ==
  ASSUME LedgerFacts, FollowInv, NEW t \in Tasks, NEW label,
         pc[t] # "publishing", pc' = [pc EXCEPT ![t] = label],
         \/ label \notin Busy
         \/ /\ pc[t] \in Busy /\ label \in {"committing", "failing"}
            /\ local'[t].sub = local[t].sub,
         \A u \in Tasks \ {t} : local'[u] = local[u],
         trades' = trades, epoch' = epoch, positions' = positions,
         DOMAIN submitted' = DOMAIN submitted,
         \A n \in DOMAIN submitted : submitted'[n].epoch = submitted[n].epoch
  PROVE  FollowInv'
<1>1. pc'[t] = label /\ \A u \in Tasks \ {t} : pc'[u] = pc[u]
  BY LedgerFactsTypes
<1> QED
  BY <1>1, FollowKept DEF Busy

LEMMA OrderStepFollows ==
  ASSUME LedgerFacts, FollowInv, NEW t \in Tasks, OrderStep(t)
  PROVE  FollowInv'
<1>0. /\ local \in [Tasks -> Proved!Locals] /\ pc \in [Tasks -> Proved!PcValues]
      /\ clock \in Nat /\ positions' = positions
      /\ submitted \in Seq(Proved!Submissions)
      /\ \A n \in DOMAIN submitted : submitted[n] \in Proved!Submissions
  BY CoreInvTypes
     DEF LedgerFacts, CoreInv, Proved!TypeInv, Proved!TypeOK, OrderStep, monitorVars
<1>1. CASE \/ OM!SkipSignal(t) \/ OM!RejectByRisk(t) \/ OM!PlaceOrderRaises(t)
           \/ OM!CommitRaises(t) \/ OM!SaveFailedOrder(t)
           \/ OM!SaveFailedOrderRaises(t)
  <2> DEFINE Leads(label) ==
        /\ pc' = [pc EXCEPT ![t] = label] /\ submitted' = submitted
        /\ trades' = trades /\ epoch' = epoch
        /\ \A u \in Tasks \ {t} : local'[u] = local[u]
  <2>1. /\ pc[t] # "publishing"
        /\ \/ Leads("idle") \/ Leads("notifying")
           \/ Leads("failing") /\ pc[t] \in Busy /\ local' = local
    BY <1>0, <1>1
       DEF OM!SkipSignal, OM!RejectByRisk, OM!PlaceOrderRaises, OM!CommitRaises,
           OM!SaveFailedOrder, OM!SaveFailedOrderRaises, OM!Accept, OM!Finish, OM!Goto,
           Busy
  <2> QED
    BY <1>0, <2>1, StepFollows DEF Busy
<1>2. CASE OM!SubmitOrder(t, ApprovedQty(t)) /\ pc[t] = "saving"
  <2> DEFINE l == [local[t] EXCEPT !.qty = ApprovedQty(t), !.accepted = clock]
  <2>1. ApprovedQty(t) \in Nat
    <3> DEFINE q == OM!Quantity(local[t].price)
    <3>1. local[t].price \in Prices /\ local[t].price \in Nat \ {0}
      BY <1>2, CoreInvTypes, TradingCoreAssumption DEF LedgerFacts
    <3>2. q \in Nat
      BY <3>1, QuantityBounded, TradingCoreAssumption
    <3> HIDE DEF q
    <3>3. AdjustedQty(q, local[t].price) \in Nat
      BY <3>1, <3>2, AdjustedBounded
    <3> QED
      BY <3>3 DEF q, ApprovedQty
  <2>2. l \in Proved!Locals
    BY <1>0, <2>1 DEF Proved!Locals
  <2>3. OM!CallBroker(t, l) /\ trades' = trades /\ epoch' = epoch
    BY <1>2 DEF OM!SubmitOrder
  <2> HIDE DEF l
  <2> QED
    BY <1>0, <1>2, <2>2, <2>3, RequestFollows
<1>3. CASE OM!SpawnDca(t, "dca", ApprovedQty(t)) /\ pc[t] = "saving"
  <2>1. /\ pc' = [pc EXCEPT ![t] = "idle", !["dca"] = "sleeping"]
        /\ pc["dca"] = "idle" /\ "dca" \in Tasks
        /\ trades' = trades /\ epoch' = epoch /\ submitted' = submitted
        /\ \A u \in Tasks \ {t, "dca"} : local'[u] = local[u]
    BY <1>0, <1>3 DEF OM!SpawnDca, Tasks
  <2>2. /\ \A u \in {t, "dca"} : pc'[u] \in {"idle", "sleeping"}
        /\ \A u \in Tasks \ {t, "dca"} : pc'[u] = pc[u]
    BY <1>0, <2>1
  <2> QED
    BY <1>0, <1>3, <2>1, <2>2, FollowKept DEF Busy
<1>4. CASE OM!SubmitSplit(t)
  <2> DEFINE l == [local[t] EXCEPT !.left = @ - 1]
  <2>1. local[t].left - 1 \in Nat
    BY <1>0, <1>4
       DEF OM!SubmitSplit, LedgerFacts, CoreInv, Proved!TypeInv, Proved!LocalsFitPc,
           Proved!Spreading, Proved!Locals
  <2>2. l \in Proved!Locals
    BY <1>0, <2>1 DEF Proved!Locals
  <2>3. /\ OM!CallBroker(t, l) /\ trades' = trades /\ epoch' = epoch
        /\ pc[t] # "publishing"
    BY <1>4 DEF OM!SubmitSplit
  <2> HIDE DEF l
  <2> QED
    BY <1>0, <2>2, <2>3, RequestFollows
<1>5. ASSUME NEW paid, OM!PlaceOrderReturns(t, paid)
      PROVE  FollowInv'
  <2>1. /\ pc' = [pc EXCEPT ![t] = "committing"] /\ pc[t] = "placing"
        /\ submitted' = submitted /\ trades' = trades /\ epoch' = epoch
        /\ local'[t].sub = local[t].sub
        /\ \A u \in Tasks \ {t} : local'[u] = local[u]
    BY <1>0, <1>5 DEF OM!PlaceOrderReturns, OM!Goto, Proved!Locals
  <2> QED
    BY <1>0, <2>1, StepFollows DEF Busy
<1>6. CASE OM!PlaceOrderRefused(t)
  <2> DEFINE n == local[t].sub
  <2>1. /\ submitted' = [submitted EXCEPT ![n].status = "refused"]
        /\ pc' = [pc EXCEPT ![t] = "failing"] /\ pc[t] = "placing"
        /\ local' = local /\ trades' = trades /\ epoch' = epoch
    BY <1>6 DEF OM!PlaceOrderRefused, OM!Goto
  <2>2. /\ DOMAIN submitted' = DOMAIN submitted
        /\ \A i \in DOMAIN submitted : submitted'[i].epoch = submitted[i].epoch
    BY <1>0, <2>1 DEF Proved!Submissions
  <2> QED
    BY <1>0, <2>1, <2>2, StepFollows DEF Busy
<1>7. CASE OM!PublishReturns(t)
  <2>1. /\ \/ pc' = [pc EXCEPT ![t] = "sleeping"] \/ pc' = [pc EXCEPT ![t] = "idle"]
        /\ pc[t] = "notifying"
        /\ submitted' = submitted /\ trades' = trades /\ epoch' = epoch
        /\ \A u \in Tasks \ {t} : local'[u] = local[u]
    BY <1>0, <1>7 DEF OM!PublishReturns, OM!Goto, OM!Finish
  <2> QED
    BY <1>0, <2>1, StepFollows DEF Busy
<1>8. CASE OM!CommitOrder(t)
  BY <1>0, <1>8, CommitFollows
<1> QED
  BY <1>1, <1>2, <1>3, <1>4, <1>5, <1>6, <1>7, <1>8 DEF OrderStep

\* The steps that are not a handler's.
LEMMA OtherFollows ==
  ASSUME LedgerFacts, FollowInv, [Next]_vars,
         ~\E t \in Tasks : TaskStep(t), ~Crash
  PROVE  FollowInv'
<1>0. /\ local \in [Tasks -> Proved!Locals] /\ pc \in [Tasks -> Proved!PcValues]
      /\ submitted \in Seq(Proved!Submissions)
      /\ \A n \in DOMAIN submitted : submitted[n] \in Proved!Submissions
  BY CoreInvTypes DEF LedgerFacts
<1>1. ASSUME UNCHANGED <<positions, pc, local, submitted, trades, epoch>>
      PROVE  FollowInv'
  BY <1>1, FollowKept
<1>2. ASSUME NEW t \in Tasks, NEW s, NEW signal, NEW p, OM!OnSignal(t, s, signal, p),
             positions' = positions
      PROVE  FollowInv'
  <2>1. /\ pc' = [pc EXCEPT ![t] = "saving"] /\ pc[t] = "idle"
        /\ submitted' = submitted /\ trades' = trades /\ epoch' = epoch
        /\ \A u \in Tasks \ {t} : local'[u] = local[u]
    BY <1>0, <1>2 DEF OM!OnSignal, OM!Goto
  <2> QED
    BY <1>2, <2>1, StepFollows DEF Busy
<1>3. ASSUME NEW n \in DOMAIN submitted, NEW filled, OM!ExchangeFills(n, filled),
             positions' = positions
      PROVE  FollowInv'
  <2>1. /\ submitted' = [submitted EXCEPT ![n].filled = filled]
        /\ UNCHANGED <<pc, local, trades, epoch>>
    BY <1>3 DEF OM!ExchangeFills, OM!memory
  <2>2. /\ DOMAIN submitted' = DOMAIN submitted
        /\ \A i \in DOMAIN submitted : submitted'[i].epoch = submitted[i].epoch
    BY <1>0, <2>1 DEF Proved!Submissions
  <2> QED
    BY <1>3, <2>1, <2>2, FollowKept
<1>4. CASE MonitorRuns
  <2>1. "stop_loss" \in Tasks /\ positions' = positions
    BY <1>4 DEF MonitorRuns, Tasks
  <2>2. CASE UNCHANGED omVars
    BY <1>1, <2>1, <2>2 DEF omVars
  <2>3. CASE OM!OnSignal("stop_loss", ticking, "sell", price[ticking])
    BY <1>2, <2>1, <2>3
  <2> QED
    BY <1>4, <2>2, <2>3 DEF MonitorRuns
<1>5. CASE StrategyRuns
  <2>1. "engine" \in Tasks /\ positions' = positions
    BY <1>5 DEF StrategyRuns, Tasks, monitorVars
  <2>2. CASE UNCHANGED omVars
    BY <1>1, <2>1, <2>2 DEF omVars
  <2>3. ASSUME NEW signal, OM!OnSignal("engine", ticking, signal, price[ticking])
        PROVE  FollowInv'
    BY <1>2, <2>1, <2>3
  <2> QED
    BY <1>5, <2>2, <2>3 DEF StrategyRuns
<1>6. ASSUME NEW n \in DOMAIN submitted, OrderFills(n)
      PROVE  FollowInv'
  BY <1>3, <1>6 DEF OrderFills, monitorVars
<1>7. ASSUME \/ \E s \in Symbols, p \in Prices : PriceTick(s, p)
             \/ AccountSync \/ Tick \/ Exhausted \/ UNCHANGED vars
      PROVE  FollowInv'
  BY <1>1, <1>7
     DEF PriceTick, AccountSync, Tick, OM!Tick, OM!memory, Exhausted, vars, omVars,
         monitorVars
<1> QED
  BY <1>4, <1>5, <1>6, <1>7 DEF Next

LEMMA InitFollows == Init => FollowInv
<1> SUFFICES ASSUME Init PROVE FollowInv
  OBVIOUS
<1>1. /\ pc = [t \in Tasks |-> "idle"] /\ trades = {}
      /\ positions = [s \in Symbols |-> SL!Closed]
  BY DEF Init, OM!Init, SL!MonitorInit, SL!PositionInit
<1>2. OrdersOfThisRun /\ FillsAreTrades /\ TradesApart
  BY <1>1 DEF OrdersOfThisRun, FillsAreTrades, TradesApart
<1>3. SL!PositionTypeOK /\ \A s \in Symbols : positions[s].quantity = 0
  BY <1>1 DEF SL!PositionTypeOK, SL!Closed, SL!Position
<1>4. PositionFollowsTrades
  <2>1. \A s, side : DeliveredTrades(s, side) = {}
    BY <1>1 DEF DeliveredTrades
  <2>2. \A s, side : TotalQty(DeliveredTrades(s, side)) = 0
    BY <2>1, TotalOfNone
  <2> QED
    BY <1>3, <2>2 DEF PositionFollowsTrades
<1>5. IsFiniteSet(trades)
  BY <1>1, FS_EmptySet
<1> QED
  BY <1>2, <1>3, <1>4, <1>5 DEF FollowInv

\* The position in memory follows the trades table, for any number of signals,
\* splits, failures and restarts: once a fill is delivered, what is held lies
\* between what the trades of this run bought less what they sold and what they
\* bought (position.py:38-70, order_manager.py:176-204).
THEOREM PositionsFollow == Spec => []PositionFollowsTrades
<1>1. Spec => []CoreInv
  BY InitCore, NextCore, PTL DEF Spec
<1>2. Spec => [](Proved!LedgerInv /\ Proved!LastOrderTimeRecords)
  <2>1. Spec => Proved!Spec
    BY CoreImplementsOrderManager, SameSpec DEF ImplementsOrderManager
  <2>2. Proved!Spec => [](Proved!CooldownInv /\ Proved!CooldownSpacing)
    BY OrderManagerParameters, Proved!OrdersSpaced
  <2>3. Proved!Spec => []Proved!LedgerInv
    BY OrderManagerParameters, Proved!LedgerHolds
  <2>4. Proved!CooldownInv => Proved!LastOrderTimeRecords
    BY DEF Proved!CooldownInv
  <2> QED
    BY <2>1, <2>2, <2>3, <2>4, PTL
<1>3. LedgerFacts /\ FollowInv /\ [Next]_vars => FollowInv'
  <2> SUFFICES ASSUME LedgerFacts, FollowInv, [Next]_vars PROVE FollowInv'
    OBVIOUS
  <2>1. ASSUME NEW t \in Tasks, TaskStep(t)
        PROVE  FollowInv'
    BY <2>1, OrderStepFollows, DeliverFollows DEF TaskStep
  <2> QED
    BY <2>1, CrashFollows, OtherFollows
<1>4. CoreInv /\ Proved!LedgerInv /\ Proved!LastOrderTimeRecords <=> LedgerFacts
  BY DEF LedgerFacts
<1>5. FollowInv => PositionFollowsTrades
  BY DEF FollowInv
<1> QED
  BY <1>1, <1>2, <1>3, <1>4, <1>5, InitFollows, PTL DEF Spec
===============================================================================
