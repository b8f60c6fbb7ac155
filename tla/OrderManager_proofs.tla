-------------------------- MODULE OrderManager_proofs --------------------------
(***************************************************************************)
(* Proofs about OrderManager: its types, the spacing of its orders, the    *)
(* agreement of the tables and the events, and the number of orders that   *)
(* one signal sends.                                                       *)
(***************************************************************************)
EXTENDS OrderManager, Decimals_proofs, SequenceTheorems, FiniteSetTheorems

LEMMA NoLocalsType == NoLocals \in Locals
  BY OrderManagerAssumption DEF NoLocals, Locals, Signals, Pending

LEMMA NeverIsNotATime == Never \notin Nat
  BY DEF Never

LEMMA QuantityNat ==
  ASSUME NEW price \in Prices
  PROVE  Quantity(price) \in Nat
  BY OrderManagerAssumption, RoundHalfEvenNat DEF Quantity

\* The type invariant, with what the locals of a suspended task point at.
TypeInv == TypeOK /\ LocalsFitPc

LEMMA InitTypeInv == Init => TypeInv
<1> SUFFICES ASSUME Init PROVE TypeInv
  OBVIOUS
<1>1. TypeOK
  BY NoLocalsType, EmptySeq DEF Init, TypeOK, PcValues
<1>2. LocalsFitPc
  BY DEF Init, LocalsFitPc, Spreading, NoLocals
<1> QED
  BY <1>1, <1>2 DEF TypeInv

\* The locals of a task whose request n leaves for the exchange.
LEMMA RequestLocals ==
  ASSUME NEW l \in Locals, NEW n \in Nat
  PROVE  LET m == [l EXCEPT !.sub = n, !.id = 0, !.executed = 0, !.paid = 0]
         IN  /\ m \in Locals
             /\ m.sub = n /\ m.left = l.left /\ m.accepted = l.accepted
             /\ m.symbol = l.symbol /\ m.number = l.number
  BY DEF Locals

\* A task that goes on to call the broker, and what that does to the types.
LEMMA CallBrokerTypes ==
  ASSUME TypeInv, NEW t \in Tasks, NEW l \in Locals, CallBroker(t, l)
  PROVE  /\ submitted' \in Seq(Submissions)
         /\ pc' \in [Tasks -> PcValues] /\ local' \in [Tasks -> Locals]
         /\ DOMAIN submitted \subseteq DOMAIN submitted'
         /\ pc'[t] = "placing"
         /\ local'[t].sub \in DOMAIN submitted'
         /\ \A u \in Tasks \ {t} : pc'[u] = pc[u] /\ local'[u] = local[u]
<1> DEFINE order ==
      [number |-> l.number, symbol |-> l.symbol, side |-> SideOf(l.signal),
       qty |-> l.qty, accepted |-> l.accepted, at |-> clock, epoch |-> epoch,
       filled |-> 0, status |-> "live"]
           n == Len(submitted) + 1
           m == [l EXCEPT !.sub = n, !.id = 0, !.executed = 0, !.paid = 0]
<1>1. order \in Submissions
  BY DEF Submissions, Locals, TypeInv, TypeOK, SideOf, Sides
<1>2. submitted \in Seq(Submissions) /\ submitted' = Append(submitted, order)
  BY DEF TypeInv, TypeOK, CallBroker
<1>3. /\ submitted' \in Seq(Submissions)
      /\ Len(submitted') = Len(submitted) + 1
      /\ DOMAIN submitted = 1 .. Len(submitted)
      /\ DOMAIN submitted' = 1 .. Len(submitted')
  BY <1>1, <1>2, AppendProperties, LenProperties
<1>4. Len(submitted) \in Nat /\ n \in Nat
  BY <1>2, LenProperties
<1>5. /\ n = Len(submitted) + 1
      /\ local \in [Tasks -> Locals] /\ local' = [local EXCEPT ![t] = m]
      /\ pc \in [Tasks -> PcValues] /\ pc' = [pc EXCEPT ![t] = "placing"]
  BY DEF TypeInv, TypeOK, CallBroker, Goto, Pending
<1> HIDE DEF n
<1>6. m \in Locals /\ m.sub = n
  BY <1>4, RequestLocals
<1> HIDE DEF m, order
<1> QED
  BY <1>3, <1>4, <1>6, <1>5 DEF PcValues

\* The other changes of the locals keep their type.
LEMMA LocalsChanges ==
  ASSUME NEW l \in Locals, NEW a \in Nat, NEW b \in Nat, NEW c \in Nat
  PROVE  /\ [l EXCEPT !.qty = a, !.accepted = b] \in Locals
         /\ [l EXCEPT !.qty = a, !.left = b, !.accepted = c] \in Locals
         /\ [l EXCEPT !.qty = a, !.left = b, !.accepted = c].left = b
         /\ [l EXCEPT !.left = a] \in Locals
         /\ [l EXCEPT !.id = a, !.executed = b, !.paid = c] \in Locals
  BY DEF Locals

\* Filling or refusing an order keeps the list of orders and its length.
LEMMA SubmittedChanges ==
  ASSUME NEW list \in Seq(Submissions), NEW n \in DOMAIN list, NEW filled \in Nat
  PROVE  /\ [list EXCEPT ![n].filled = filled] \in Seq(Submissions)
         /\ [list EXCEPT ![n].status = "refused"] \in Seq(Submissions)
         /\ DOMAIN [list EXCEPT ![n].filled = filled] = DOMAIN list
         /\ DOMAIN [list EXCEPT ![n].status = "refused"] = DOMAIN list
<1>1. list[n] \in Submissions
  BY ElementOfSeq, LenProperties
<1>2. /\ [list[n] EXCEPT !.filled = filled] \in Submissions
      /\ [list[n] EXCEPT !.status = "refused"] \in Submissions
  BY <1>1 DEF Submissions
<1>3. n \in 1 .. Len(list)
  BY LenProperties
<1> QED
  BY <1>2, <1>3, ExceptSeq, LenProperties

\* A step in which only the locals and the place of task t change.
LEMMA OneTaskMoves ==
  ASSUME TypeInv, NEW t \in Tasks, NEW place \in PcValues, NEW l \in Locals,
         pc' = [pc EXCEPT ![t] = place], local' = [local EXCEPT ![t] = l],
         DOMAIN submitted \subseteq DOMAIN submitted',
         place \in {"idle", "saving"} => l.left = 0,
         place = "sleeping" => l.left > 0,
         place = "saving" => l.price \in Prices,
         place \in {"placing", "committing", "failing", "publishing"} =>
           l.sub \in DOMAIN submitted'
  PROVE  /\ pc' \in [Tasks -> PcValues] /\ local' \in [Tasks -> Locals]
         /\ LocalsFitPc'
<1>1. pc' \in [Tasks -> PcValues] /\ local' \in [Tasks -> Locals]
  BY DEF TypeInv, TypeOK
<1>2. \A u \in Tasks \ {t} : pc'[u] = pc[u] /\ local'[u] = local[u]
  BY DEF TypeInv, TypeOK
<1>3. pc'[t] = place /\ local'[t] = l
  BY DEF TypeInv, TypeOK
<1>4. l.left \in Nat
  BY DEF Locals
<1> QED
  BY <1>1, <1>2, <1>3, <1>4 DEF TypeInv, LocalsFitPc, Spreading

\* A step in which only the place of task t changes.
COROLLARY OneTaskGoes ==
  ASSUME TypeInv, NEW t \in Tasks, NEW place \in PcValues,
         pc' = [pc EXCEPT ![t] = place], local' = local,
         DOMAIN submitted \subseteq DOMAIN submitted',
         place \notin {"idle", "saving"},
         place = "sleeping" => Spreading(t),
         place \in {"placing", "committing", "failing", "publishing"} =>
           local[t].sub \in DOMAIN submitted'
  PROVE  /\ pc' \in [Tasks -> PcValues] /\ local' \in [Tasks -> Locals]
         /\ LocalsFitPc'
<1>1. local[t] \in Locals /\ local' = [local EXCEPT ![t] = local[t]]
  BY DEF TypeInv, TypeOK
<1> QED
  BY <1>1, OneTaskMoves DEF Spreading

\* A step in which task t ends.
COROLLARY OneTaskEnds ==
  ASSUME TypeInv, NEW t \in Tasks, Finish(t), submitted' = submitted
  PROVE  /\ pc' \in [Tasks -> PcValues] /\ local' \in [Tasks -> Locals]
         /\ LocalsFitPc'
<1>1. NoLocals.left = 0
  BY DEF NoLocals
<1> QED
  BY <1>1, NoLocalsType, OneTaskMoves DEF Finish, Goto, PcValues

\* Every step of a task keeps the types.
LEMMA TaskStepTypeInv ==
  ASSUME TypeInv, NEW t \in Tasks, TaskStep(t)
  PROVE  TypeInv'
<1> USE DEF TypeInv, Goto
<1>0. /\ TypeOK /\ LocalsFitPc
      /\ local[t] \in Locals /\ pc[t] \in PcValues
      /\ submitted \in Seq(Submissions)
  BY DEF TypeOK
<1>1. CASE SkipSignal(t)
  BY <1>0, <1>1, OneTaskEnds DEF SkipSignal, TypeOK
<1>2. CASE RejectByRisk(t)
  <2>1. lastOrderTime' \in [Symbols -> Nat \cup {Never}]
    BY <1>0, <1>2 DEF RejectByRisk, Accept, TypeOK
  <2>2. /\ pc' \in [Tasks -> PcValues] /\ local' \in [Tasks -> Locals]
        /\ LocalsFitPc'
    BY <1>0, <1>2, OneTaskGoes DEF RejectByRisk, PcValues
  <2> QED
    BY <1>0, <1>2, <2>1, <2>2 DEF RejectByRisk, TypeOK
<1>3. ASSUME NEW qty \in 0 .. Quantity(local[t].price), pc[t] = "saving",
             SubmitOrder(t, qty)
      PROVE  TypeInv'
  <2>1. qty \in Nat /\ clock \in Nat
    BY <1>0, <1>3, QuantityNat DEF LocalsFitPc, TypeOK
  <2> DEFINE l == [local[t] EXCEPT !.qty = qty, !.accepted = clock]
  <2>2. l \in Locals
    BY <1>0, <2>1, LocalsChanges
  <2>3. CallBroker(t, l)
    BY <1>3 DEF SubmitOrder
  <2>4. lastOrderTime' \in [Symbols -> Nat \cup {Never}]
    BY <1>0, <1>3 DEF SubmitOrder, Accept, TypeOK
  <2> HIDE DEF l
  <2>5. LocalsFitPc' /\ submitted' \in Seq(Submissions)
        /\ pc' \in [Tasks -> PcValues] /\ local' \in [Tasks -> Locals]
    BY <1>0, <2>2, <2>3, CallBrokerTypes DEF LocalsFitPc, Spreading
  <2> QED
    BY <1>0, <1>3, <2>4, <2>5 DEF SubmitOrder, TypeOK
<1>4. ASSUME NEW qty \in 0 .. Quantity(local[t].price), pc[t] = "saving",
             NEW d \in Tasks, SpawnDca(t, d, qty)
      PROVE  TypeInv'
  <2> DEFINE split == RoundHalfEven(qty, DcaSplits)
             l == [local[t] EXCEPT !.qty = split, !.left = DcaSplits,
                                   !.accepted = clock]
  <2>1. qty \in Nat /\ clock \in Nat /\ DcaSplits \in Nat \ {0}
    BY <1>0, <1>4, QuantityNat, OrderManagerAssumption DEF LocalsFitPc, TypeOK
  <2>2. l \in Locals /\ l.left = DcaSplits
    <3>1. split \in Nat
      BY <2>1, RoundHalfEvenNat
    <3> HIDE DEF split
    <3> QED
      BY <1>0, <2>1, <3>1 DEF Locals
  <2>3. /\ t # d
        /\ pc' = [pc EXCEPT ![t] = "idle", ![d] = "sleeping"]
        /\ local' = [local EXCEPT ![t] = NoLocals, ![d] = l]
        /\ submitted' = submitted
    BY <1>4 DEF SpawnDca
  <2> HIDE DEF l
  <2>4. NoLocals \in Locals /\ NoLocals.left = 0
    BY NoLocalsType DEF NoLocals
  <2>5. /\ pc' \in [Tasks -> PcValues] /\ local' \in [Tasks -> Locals]
    BY <1>0, <2>2, <2>3, <2>4 DEF TypeOK, PcValues
  <2>6. /\ pc'[t] = "idle" /\ pc'[d] = "sleeping"
        /\ local'[t] = NoLocals /\ local'[d] = l
        /\ \A u \in Tasks \ {t, d} : pc'[u] = pc[u] /\ local'[u] = local[u]
    BY <1>0, <2>3 DEF TypeOK
  <2>7. LocalsFitPc'
    <3> SUFFICES ASSUME NEW u \in Tasks
                 PROVE  /\ pc'[u] \in {"idle", "saving"} => ~(local'[u].left > 0)
                        /\ pc'[u] = "sleeping" => local'[u].left > 0
                        /\ pc'[u] = "saving" => local'[u].price \in Prices
                        /\ pc'[u] \in {"placing", "committing", "failing",
                                      "publishing"} =>
                             local'[u].sub \in DOMAIN submitted'
      BY DEF LocalsFitPc, Spreading
    <3>1. CASE u = t
      BY <2>4, <2>6, <3>1
    <3>2. CASE u = d
      BY <2>1, <2>2, <2>6, <3>2
    <3>3. CASE u \notin {t, d}
      BY <1>0, <2>3, <2>6, <3>3 DEF LocalsFitPc, Spreading
    <3> QED
      BY <3>1, <3>2, <3>3
  <2>8. lastOrderTime' \in [Symbols -> Nat \cup {Never}]
    BY <1>0, <1>4 DEF SpawnDca, Accept, TypeOK
  <2> QED
    BY <1>0, <1>4, <2>5, <2>7, <2>8 DEF SpawnDca, TypeOK
<1>5. CASE SubmitSplit(t)
  <2> DEFINE l == [local[t] EXCEPT !.left = @ - 1]
  <2>1. local[t].left - 1 \in Nat
    BY <1>0, <1>5 DEF SubmitSplit, LocalsFitPc, Spreading, Locals
  <2>2. l \in Locals
    BY <1>0, <2>1, LocalsChanges
  <2>3. CallBroker(t, l)
    BY <1>5 DEF SubmitSplit
  <2> HIDE DEF l
  <2>4. LocalsFitPc' /\ submitted' \in Seq(Submissions)
        /\ pc' \in [Tasks -> PcValues] /\ local' \in [Tasks -> Locals]
    BY <1>0, <2>2, <2>3, CallBrokerTypes DEF LocalsFitPc, Spreading
  <2> QED
    BY <1>0, <1>5, <2>4 DEF SubmitSplit, TypeOK
<1>6. ASSUME NEW price \in ExecPrices, PlaceOrderReturns(t, price)
      PROVE  TypeInv'
  <2> DEFINE n == local[t].sub
             l == [local[t] EXCEPT !.id = n, !.executed = submitted[n].filled,
                                   !.paid = price]
  <2>1. n \in DOMAIN submitted
    BY <1>0, <1>6 DEF PlaceOrderReturns, LocalsFitPc
  <2>2. submitted[n] \in Submissions
    BY <1>0, <2>1, ElementOfSeq, LenProperties
  <2>3. n \in Nat /\ submitted[n].filled \in Nat /\ price \in Nat
    BY <1>0, <2>2, OrderManagerAssumption DEF Locals, Submissions
  <2>4. l \in Locals /\ l.sub = n
    BY <1>0, <2>3, LocalsChanges DEF Locals
  <2>5. local' = [local EXCEPT ![t] = l]
    BY <1>0, <1>6 DEF PlaceOrderReturns, TypeOK
  <2> HIDE DEF l
  <2>6. /\ pc' \in [Tasks -> PcValues] /\ local' \in [Tasks -> Locals]
        /\ LocalsFitPc'
    BY <1>0, <1>6, <2>1, <2>4, <2>5, OneTaskMoves DEF PlaceOrderReturns, PcValues
  <2> QED
    BY <1>0, <1>6, <2>6 DEF PlaceOrderReturns, TypeOK
<1>7. CASE PlaceOrderRefused(t)
  <2> DEFINE n == local[t].sub
  <2>1. n \in DOMAIN submitted
    BY <1>0, <1>7 DEF PlaceOrderRefused, LocalsFitPc
  <2>2. submitted' = [submitted EXCEPT ![n].status = "refused"]
    BY <1>7 DEF PlaceOrderRefused
  <2>3. submitted' \in Seq(Submissions) /\ DOMAIN submitted' = DOMAIN submitted
    BY <1>0, <2>1, <2>2, SubmittedChanges
  <2>4. /\ pc' \in [Tasks -> PcValues] /\ local' \in [Tasks -> Locals]
        /\ LocalsFitPc'
    BY <1>0, <1>7, <2>1, <2>3, OneTaskGoes DEF PlaceOrderRefused, PcValues
  <2> QED
    BY <1>0, <1>7, <2>3, <2>4 DEF PlaceOrderRefused, TypeOK
<1>8. CASE PlaceOrderRaises(t)
  <2>1. /\ pc' \in [Tasks -> PcValues] /\ local' \in [Tasks -> Locals]
        /\ LocalsFitPc'
    BY <1>0, <1>8, OneTaskGoes DEF PlaceOrderRaises, PcValues, LocalsFitPc
  <2> QED
    BY <1>0, <1>8, <2>1 DEF PlaceOrderRaises, TypeOK
<1>9. CASE CommitOrder(t)
  <2>1. /\ pc' \in [Tasks -> PcValues] /\ local' \in [Tasks -> Locals]
        /\ LocalsFitPc'
    BY <1>0, <1>9, OneTaskGoes DEF CommitOrder, PcValues, LocalsFitPc
  <2>2. /\ orders' \subseteq OrderRows /\ trades' \subseteq TradeRows
        /\ published' \subseteq Events
    BY <1>0, <1>9 DEF CommitOrder, TypeOK, OrderRows, TradeRows, Events, Locals,
                      SideOf, Sides
  <2> QED
    BY <1>0, <1>9, <2>1, <2>2 DEF CommitOrder, TypeOK
<1>10. CASE CommitRaises(t)
  <2>1. /\ pc' \in [Tasks -> PcValues] /\ local' \in [Tasks -> Locals]
        /\ LocalsFitPc'
    BY <1>0, <1>10, OneTaskGoes DEF CommitRaises, PcValues, LocalsFitPc
  <2> QED
    BY <1>0, <1>10, <2>1 DEF CommitRaises, TypeOK
<1>11. CASE SaveFailedOrder(t)
  <2>1. /\ pc' \in [Tasks -> PcValues] /\ local' \in [Tasks -> Locals]
        /\ LocalsFitPc'
    BY <1>0, <1>11, OneTaskGoes DEF SaveFailedOrder, PcValues
  <2>2. orders' \subseteq OrderRows /\ published' \subseteq Events
    BY <1>0, <1>11 DEF SaveFailedOrder, TypeOK, OrderRows, Events, Locals
  <2> QED
    BY <1>0, <1>11, <2>1, <2>2 DEF SaveFailedOrder, TypeOK
<1>12. CASE SaveFailedOrderRaises(t)
  BY <1>0, <1>12, OneTaskEnds DEF SaveFailedOrderRaises, TypeOK
<1>13. CASE DeliverFilled(t)
  <2>1. /\ pc' \in [Tasks -> PcValues] /\ local' \in [Tasks -> Locals]
        /\ LocalsFitPc'
    BY <1>0, <1>13, OneTaskGoes DEF DeliverFilled, PcValues
  <2> QED
    BY <1>0, <1>13, <2>1 DEF DeliverFilled, TypeOK
<1>14. CASE PublishReturns(t)
  <2>1. /\ pc' \in [Tasks -> PcValues] /\ local' \in [Tasks -> Locals]
        /\ LocalsFitPc'
    BY <1>0, <1>14, OneTaskGoes, OneTaskEnds
       DEF PublishReturns, PcValues, Spreading
  <2> QED
    BY <1>0, <1>14, <2>1 DEF PublishReturns, TypeOK
<1> QED
  BY <1>1, <1>2, <1>3, <1>4, <1>5, <1>6, <1>7, <1>8, <1>9, <1>10, <1>11,
     <1>12, <1>13, <1>14 DEF TaskStep

\* So does every step of the environment, and a stutter.
LEMMA EnvironmentTypeInv ==
  ASSUME TypeInv, Environment \/ UNCHANGED vars
  PROVE  TypeInv'
<1>0. TypeOK /\ LocalsFitPc /\ submitted \in Seq(Submissions)
  BY DEF TypeInv, TypeOK
<1>1. ASSUME NEW t \in Tasks, NEW s \in Symbols, NEW signal \in Signals,
             NEW p \in Prices, OnSignal(t, s, signal, p)
      PROVE  TypeInv'
  <2> DEFINE n == received + 1
             l == [NoLocals EXCEPT !.number = n, !.symbol = s,
                                   !.signal = signal, !.price = p]
  <2>1. p \in Nat /\ n \in Nat
    BY <1>0, <1>1, OrderManagerAssumption DEF TypeOK
  <2>2. l \in Locals /\ l.left = 0 /\ l.price = p
    <3>1. NoLocals.left = 0
      BY DEF NoLocals
    <3> HIDE DEF n
    <3> QED
      BY <1>1, <2>1, <3>1, NoLocalsType DEF Locals
  <2>3. /\ pc' = [pc EXCEPT ![t] = "saving"] /\ local' = [local EXCEPT ![t] = l]
        /\ submitted' = submitted
        /\ received' = received + 1
        /\ UNCHANGED <<clock, epoch, lastOrderTime, orders, trades, published>>
    BY <1>1 DEF OnSignal, Goto
  <2> HIDE DEF l
  <2>4. /\ pc' \in [Tasks -> PcValues] /\ local' \in [Tasks -> Locals]
        /\ LocalsFitPc'
    BY <2>2, <2>3, OneTaskMoves DEF PcValues
  <2> QED
    BY <1>0, <2>1, <2>3, <2>4 DEF TypeInv, TypeOK
<1>2. ASSUME NEW n \in DOMAIN submitted, NEW filled \in 1 .. DefaultKrw,
             ExchangeFills(n, filled)
      PROVE  TypeInv'
  <2>1. filled \in Nat
    BY OrderManagerAssumption
  <2>2. submitted' \in Seq(Submissions) /\ DOMAIN submitted' = DOMAIN submitted
    BY <1>0, <1>2, <2>1, SubmittedChanges DEF ExchangeFills
  <2> QED
    BY <1>0, <1>2, <2>2
       DEF ExchangeFills, memory, TypeInv, TypeOK, LocalsFitPc, Spreading
<1>3. CASE Tick
  BY <1>0, <1>3 DEF Tick, memory, TypeInv, TypeOK, LocalsFitPc, Spreading
<1>4. CASE Crash
  <2>1. NoLocals.left = 0
    BY DEF NoLocals
  <2> QED
    BY <1>0, <1>4, <2>1, NoLocalsType
       DEF Crash, TypeInv, TypeOK, LocalsFitPc, Spreading, PcValues
<1>5. CASE Exhausted \/ UNCHANGED vars
  BY <1>0, <1>5 DEF Exhausted, vars, memory, TypeInv, TypeOK, LocalsFitPc, Spreading
<1> QED
  BY <1>1, <1>2, <1>3, <1>4, <1>5 DEF Environment

\* OrderManager keeps its types: every row, event and order it produces is well
\* formed, and a task that waits for an answer points at the order it sent.
THEOREM OrderManagerTypes == Spec => [](TypeOK /\ LocalsFitPc)
<1>1. Init => TypeInv
  BY InitTypeInv
<1>2. TypeInv /\ [Next]_vars => TypeInv'
  BY TaskStepTypeInv, EnvironmentTypeInv DEF Next
<1>3. TypeInv => TypeOK /\ LocalsFitPc
  BY DEF TypeInv
<1> QED
  BY <1>1, <1>2, <1>3, PTL DEF Spec

-------------------------------------------------------------------------------
\* The spacing of orders.

LEMMA CooldownInvTypes ==
  ASSUME CooldownInv
  PROVE  /\ TypeInv /\ Cooldown \in Nat /\ clock \in Nat /\ epoch \in Nat
         /\ \A s \in Symbols : lastOrderTime[s] \in Int
         /\ \A i \in DOMAIN submitted :
              /\ submitted[i] \in Submissions
              /\ submitted[i].symbol \in Symbols /\ submitted[i].accepted \in Nat
              /\ submitted[i].epoch \in Nat
         /\ \A t \in Tasks :
              /\ local[t].symbol \in Symbols /\ local[t].accepted \in Nat
              /\ local[t].left \in Nat
<1>1. TypeInv /\ TypeOK
  BY DEF CooldownInv, TypeInv
<1>2. \A i \in DOMAIN submitted : submitted[i] \in Submissions
  BY <1>1, ElementOfSeq, LenProperties DEF TypeOK
<1>3. Cooldown \in Nat /\ clock \in Nat /\ epoch \in Nat
  BY <1>1, OrderManagerAssumption DEF TypeOK
<1>4. \A s \in Symbols : lastOrderTime[s] \in Int
  <2> SUFFICES ASSUME NEW s \in Symbols PROVE lastOrderTime[s] \in Int
    OBVIOUS
  <2>1. lastOrderTime[s] \in Nat \cup {-1}
    BY <1>1 DEF TypeOK, Never
  <2> QED
    BY <2>1
<1>5. \A i \in DOMAIN submitted :
        /\ submitted[i].symbol \in Symbols /\ submitted[i].accepted \in Nat
        /\ submitted[i].epoch \in Nat
  BY <1>2 DEF Submissions
<1>6. \A t \in Tasks : local[t] \in Locals
  BY <1>1 DEF TypeOK
<1>7. \A t \in Tasks :
        /\ local[t].symbol \in Symbols /\ local[t].accepted \in Nat
        /\ local[t].left \in Nat
  BY <1>6 DEF Locals
<1> QED
  BY <1>1, <1>2, <1>3, <1>4, <1>5, <1>7

LEMMA SpacedFromSymmetric ==
  ASSUME NEW a \in Nat, NEW b \in Nat
  PROVE  SpacedFrom(a, b) <=> SpacedFrom(b, a)
  BY OrderManagerAssumption DEF SpacedFrom, Abs

\* _last_order_time does not go back, nor ahead of the clock.
TimesGrow ==
  \A s \in Symbols : lastOrderTime[s] <= lastOrderTime'[s] /\ lastOrderTime'[s] <= clock'

\* The orders keep what the spacing depends on.
OrdersKept ==
  /\ DOMAIN submitted' = DOMAIN submitted
  /\ \A i \in DOMAIN submitted :
       /\ submitted'[i].symbol = submitted[i].symbol
       /\ submitted'[i].epoch = submitted[i].epoch
       /\ submitted'[i].number = submitted[i].number
       /\ submitted'[i].accepted = submitted[i].accepted

\* A task that has splits to send had the same to send before.
SplitKept(t) ==
  local'[t].left > 0 =>
    /\ Spreading(t)
    /\ local'[t].symbol = local[t].symbol
    /\ local'[t].number = local[t].number
    /\ local'[t].accepted = local[t].accepted

\* No step but an acceptance, a submission or a crash concerns the spacing:
\* the orders keep their accepted time, the tasks that have splits to send
\* had them before, and _last_order_time does not go back.
LEMMA QuietStep ==
  ASSUME CooldownInv, TypeInv', epoch' = epoch, TimesGrow, OrdersKept,
         \A t \in Tasks : SplitKept(t)
  PROVE  CooldownInv'
<1> USE DEF TimesGrow, OrdersKept, SplitKept
<1>1. /\ TypeOK' /\ LocalsFitPc'
      /\ \A s \in Symbols : lastOrderTime'[s] \in Int
  BY DEF TypeInv, TypeOK, Never
<1>2. LastOrderTimeRecords'
  BY <1>1, CooldownInvTypes DEF CooldownInv, LastOrderTimeRecords, Spreading
<1>3. SplitsSpaced'
  BY CooldownInvTypes DEF CooldownInv, SplitsSpaced, Spreading, SpacedFrom
<1>4. CooldownSpacing'
  BY DEF CooldownInv, CooldownSpacing
<1> QED
  BY <1>1, <1>2, <1>3, <1>4 DEF CooldownInv

\* An order that is sent keeps the spacing when it is accounted for in
\* _last_order_time and a cooldown away from the other signals' orders and
\* from the splits that other tasks have still to send.
LEMMA SubmissionSpaced ==
  ASSUME CooldownInv, TypeInv', epoch' = epoch, clock' = clock, TimesGrow,
         NEW o \in Submissions, submitted' = Append(submitted, o),
         o.epoch = epoch, o.accepted <= lastOrderTime'[o.symbol],
         \A i \in DOMAIN submitted :
           /\ submitted[i].symbol = o.symbol /\ submitted[i].epoch = epoch
           /\ submitted[i].number # o.number
           => SpacedFrom(submitted[i].accepted, o.accepted),
         \A t \in Tasks :
           /\ SplitKept(t)
           /\ /\ local'[t].left > 0
              /\ local[t].symbol = o.symbol /\ local[t].number # o.number
              => SpacedFrom(o.accepted, local[t].accepted)
  PROVE  CooldownInv'
<1> USE DEF TimesGrow, SplitKept
<1>1. /\ TypeOK' /\ LocalsFitPc'
      /\ \A s \in Symbols : lastOrderTime'[s] \in Int
      /\ o.accepted \in Nat /\ o.symbol \in Symbols
  BY DEF TypeInv, TypeOK, Never, Submissions
<1>2. /\ DOMAIN submitted' = DOMAIN submitted \cup {Len(submitted) + 1}
      /\ \A i \in DOMAIN submitted : submitted'[i] = submitted[i]
      /\ submitted'[Len(submitted) + 1] = o
  <2>1. submitted \in Seq(Submissions) /\ Len(submitted) \in Nat
    BY LenProperties DEF CooldownInv, TypeOK
  <2> QED
    BY <2>1, AppendProperties, LenProperties
<1>3. LastOrderTimeRecords'
  <2>1. ASSUME NEW i \in DOMAIN submitted'
        PROVE  /\ submitted'[i].epoch <= epoch'
               /\ submitted'[i].epoch = epoch' =>
                    submitted'[i].accepted <= lastOrderTime'[submitted'[i].symbol]
    <3>1. CASE i \in DOMAIN submitted
      BY <1>1, <1>2, <3>1, CooldownInvTypes DEF CooldownInv, LastOrderTimeRecords
    <3>2. CASE i = Len(submitted) + 1
      BY <1>2, <3>2, CooldownInvTypes
    <3> QED
      BY <1>2, <2>1, <3>1, <3>2
  <2>2. ASSUME NEW t \in Tasks, local'[t].left > 0
        PROVE  local'[t].accepted <= lastOrderTime'[local'[t].symbol]
    BY <1>1, <2>2, CooldownInvTypes DEF CooldownInv, LastOrderTimeRecords
  <2> QED
    BY <2>1, <2>2 DEF LastOrderTimeRecords, Spreading
<1>4. SplitsSpaced'
  BY <1>1, <1>2, CooldownInvTypes DEF CooldownInv, SplitsSpaced, Spreading
<1>5. CooldownSpacing'
  <2> SUFFICES ASSUME NEW i \in DOMAIN submitted', NEW j \in DOMAIN submitted',
                      submitted'[i].symbol = submitted'[j].symbol,
                      submitted'[i].epoch = submitted'[j].epoch,
                      submitted'[i].number # submitted'[j].number
               PROVE  SpacedFrom(submitted'[i].accepted, submitted'[j].accepted)
    BY DEF CooldownSpacing, SpacedFrom
  <2>1. CASE i \in DOMAIN submitted /\ j \in DOMAIN submitted
    BY <1>2, <2>1 DEF CooldownInv, CooldownSpacing, SpacedFrom
  <2>2. CASE i \in DOMAIN submitted /\ j = Len(submitted) + 1
    BY <1>2, <2>2
  <2>3. CASE i = Len(submitted) + 1 /\ j \in DOMAIN submitted
    BY <1>1, <1>2, <2>3, CooldownInvTypes, SpacedFromSymmetric
  <2>4. CASE i = Len(submitted) + 1 /\ j = Len(submitted) + 1
    BY <2>4
  <2> QED
    BY <1>2, <2>1, <2>2, <2>3, <2>4
<1> QED
  BY <1>1, <1>3, <1>4, <1>5 DEF CooldownInv

\* A signal the cooldown check lets through is a cooldown away from everything
\* that was let through before.
LEMMA AcceptedIsSpaced ==
  ASSUME CooldownInv, NEW t \in Tasks, Accept(t)
  PROVE  /\ \A s \in Symbols : lastOrderTime[s] <= lastOrderTime'[s]
                              /\ lastOrderTime'[s] <= clock
         /\ lastOrderTime'[local[t].symbol] = clock
         /\ \A i \in DOMAIN submitted :
              submitted[i].symbol = local[t].symbol /\ submitted[i].epoch = epoch
              => SpacedFrom(submitted[i].accepted, clock)
         /\ \A u \in Tasks :
              Spreading(u) /\ local[u].symbol = local[t].symbol
              => SpacedFrom(clock, local[u].accepted)
<1> DEFINE s == local[t].symbol
<1>1. /\ s \in Symbols /\ clock \in Nat
      /\ lastOrderTime \in [Symbols -> Nat \cup {Never}]
      /\ \A r \in Symbols : lastOrderTime[r] \in Int /\ lastOrderTime[r] <= clock
  BY CooldownInvTypes DEF CooldownInv, TypeOK, LastOrderTimeRecords
<1>2. lastOrderTime' = [lastOrderTime EXCEPT ![s] = clock]
  BY DEF Accept
<1>3. lastOrderTime[s] = Never \/ clock - lastOrderTime[s] >= Cooldown
  BY <1>1, CooldownInvTypes DEF Accept, CooldownActive
<1>4. ASSUME NEW a \in Nat, a <= lastOrderTime[s]
      PROVE  SpacedFrom(a, clock) /\ SpacedFrom(clock, a)
  BY <1>1, <1>3, <1>4, CooldownInvTypes DEF SpacedFrom, Abs, Never
<1>5. \A i \in DOMAIN submitted :
        submitted[i].symbol = s /\ submitted[i].epoch = epoch
        => SpacedFrom(submitted[i].accepted, clock)
  BY <1>4, CooldownInvTypes DEF CooldownInv, LastOrderTimeRecords
<1>6. \A u \in Tasks : Spreading(u) /\ local[u].symbol = s
        => SpacedFrom(clock, local[u].accepted)
  BY <1>4, CooldownInvTypes DEF CooldownInv, LastOrderTimeRecords
<1> QED
  BY <1>1, <1>2, <1>5, <1>6

\* A step of a task that neither accepts nor submits is quiet.
LEMMA QuietTaskStep ==
  ASSUME CooldownInv, TypeInv', NEW t \in Tasks,
         \/ SkipSignal(t) \/ \E price \in ExecPrices : PlaceOrderReturns(t, price)
         \/ PlaceOrderRefused(t) \/ PlaceOrderRaises(t)
         \/ CommitOrder(t) \/ CommitRaises(t)
         \/ SaveFailedOrder(t) \/ SaveFailedOrderRaises(t)
         \/ DeliverFilled(t) \/ PublishReturns(t)
  PROVE  CooldownInv'
<1>0. /\ TypeInv /\ local \in [Tasks -> Locals] /\ NoLocals.left = 0
      /\ \A s \in Symbols : lastOrderTime[s] \in Int
  BY CooldownInvTypes DEF CooldownInv, TypeOK, NoLocals
<1>1. UNCHANGED <<clock, epoch, lastOrderTime>>
  BY DEF SkipSignal, PlaceOrderReturns, PlaceOrderRefused, PlaceOrderRaises,
         CommitOrder, CommitRaises, SaveFailedOrder, SaveFailedOrderRaises,
         DeliverFilled, PublishReturns
<1>2. OrdersKept
  <2>1. CASE UNCHANGED submitted
    BY <2>1 DEF OrdersKept
  <2>2. CASE PlaceOrderRefused(t)
    <3> DEFINE n == local[t].sub
    <3>1. n \in DOMAIN submitted
      BY <1>0, <2>2 DEF PlaceOrderRefused, TypeInv, LocalsFitPc
    <3>2. submitted[n] \in Submissions /\ submitted \in Seq(Submissions)
      BY <3>1, CooldownInvTypes DEF CooldownInv, TypeOK
    <3>3. submitted' = [submitted EXCEPT ![n].status = "refused"]
      BY <2>2 DEF PlaceOrderRefused
    <3> QED
      BY <3>1, <3>2, <3>3 DEF OrdersKept, Submissions
  <2> QED
    BY <2>1, <2>2
       DEF SkipSignal, PlaceOrderReturns, PlaceOrderRaises, CommitOrder,
           CommitRaises, SaveFailedOrder, SaveFailedOrderRaises,
           DeliverFilled, PublishReturns
<1>3. \A u \in Tasks : SplitKept(u)
  <2>1. CASE local' = local \/ Finish(t)
    BY <1>0, <2>1 DEF SplitKept, Spreading, Finish
  <2>2. ASSUME NEW price \in ExecPrices, PlaceOrderReturns(t, price)
        PROVE  \A u \in Tasks : SplitKept(u)
    BY <1>0, <2>2 DEF SplitKept, Spreading, PlaceOrderReturns, Locals
  <2> QED
    BY <2>1, <2>2
       DEF SkipSignal, PlaceOrderRefused, PlaceOrderRaises, CommitOrder,
           CommitRaises, SaveFailedOrder, SaveFailedOrderRaises,
           DeliverFilled, PublishReturns
<1>4. TimesGrow
  BY <1>0, <1>1 DEF TimesGrow, CooldownInv, LastOrderTimeRecords
<1> QED
  BY <1>1, <1>2, <1>3, <1>4, QuietStep

\* An order that on_signal sends itself.
LEMMA SubmitOrderSpaced ==
  ASSUME CooldownInv, TypeInv', NEW t \in Tasks, NEW qty \in Nat,
         pc[t] = "saving", SubmitOrder(t, qty)
  PROVE  CooldownInv'
<1> DEFINE l == [local[t] EXCEPT !.qty = qty, !.accepted = clock]
           n == Len(submitted) + 1
           m == [l EXCEPT !.sub = n, !.id = 0, !.executed = 0, !.paid = 0]
           o == [number |-> l.number, symbol |-> l.symbol,
                 side |-> SideOf(l.signal), qty |-> l.qty,
                 accepted |-> l.accepted, at |-> clock, epoch |-> epoch,
                 filled |-> 0, status |-> "live"]
<1>1. /\ TypeInv /\ local \in [Tasks -> Locals] /\ local[t] \in Locals
      /\ clock \in Nat /\ epoch \in Nat /\ n \in Nat /\ local[t].left = 0
  BY LenProperties, CooldownInvTypes
     DEF CooldownInv, TypeOK, LocalsFitPc, Spreading
<1>2. /\ l \in Locals /\ l.symbol = local[t].symbol /\ l.accepted = clock
      /\ l.left = 0
  BY <1>1 DEF Locals
<1>3. /\ submitted' = Append(submitted, o) /\ local' = [local EXCEPT ![t] = m]
      /\ Accept(t) /\ clock' = clock /\ epoch' = epoch
  BY DEF SubmitOrder, CallBroker, Pending
<1> HIDE DEF l, n
<1>4. m.left = 0
  BY <1>1, <1>2, RequestLocals
<1>5. /\ o \in Submissions /\ o.epoch = epoch /\ o.symbol = local[t].symbol
      /\ o.accepted = clock
  BY <1>1, <1>2 DEF Locals, Submissions, SideOf, Sides
<1> HIDE DEF m, o
<1>6. \A u \in Tasks : local'[u].left > 0 =>
        u # t /\ local'[u] = local[u] /\ Spreading(u)
  BY <1>1, <1>3, <1>4 DEF Spreading
<1>7. TimesGrow
  BY <1>3, AcceptedIsSpaced DEF TimesGrow
<1> QED
  BY <1>3, <1>5, <1>6, <1>7, AcceptedIsSpaced, SubmissionSpaced, CooldownInvTypes
     DEF SplitKept

\* The next split of a background task.
LEMMA SubmitSplitSpaced ==
  ASSUME CooldownInv, TypeInv', NEW t \in Tasks, SubmitSplit(t)
  PROVE  CooldownInv'
<1> DEFINE l == [local[t] EXCEPT !.left = @ - 1]
           n == Len(submitted) + 1
           m == [l EXCEPT !.sub = n, !.id = 0, !.executed = 0, !.paid = 0]
           o == [number |-> l.number, symbol |-> l.symbol,
                 side |-> SideOf(l.signal), qty |-> l.qty,
                 accepted |-> l.accepted, at |-> clock, epoch |-> epoch,
                 filled |-> 0, status |-> "live"]
<1>1. /\ local \in [Tasks -> Locals] /\ local[t] \in Locals /\ Spreading(t)
      /\ clock \in Nat /\ epoch \in Nat /\ n \in Nat
      /\ \A s \in Symbols : lastOrderTime[s] \in Int
  BY LenProperties, CooldownInvTypes
     DEF CooldownInv, TypeOK, LocalsFitPc, SubmitSplit
<1>2. /\ l \in Locals /\ l.symbol = local[t].symbol /\ l.number = local[t].number
      /\ l.accepted = local[t].accepted
  <2>1. local[t].left - 1 \in Nat
    BY <1>1, CooldownInvTypes DEF Spreading
  <2> QED
    BY <1>1, <2>1 DEF Locals
<1>3. /\ submitted' = Append(submitted, o) /\ local' = [local EXCEPT ![t] = m]
      /\ clock' = clock /\ epoch' = epoch /\ lastOrderTime' = lastOrderTime
  BY DEF SubmitSplit, CallBroker, Pending
<1> HIDE DEF l, n
<1>4. /\ m.symbol = l.symbol /\ m.number = l.number /\ m.accepted = l.accepted
  BY <1>1, <1>2, RequestLocals
<1>5. /\ o \in Submissions /\ o.epoch = epoch /\ o.symbol = local[t].symbol
      /\ o.accepted = local[t].accepted /\ o.number = local[t].number
  BY <1>1, <1>2 DEF Locals, Submissions, SideOf, Sides
<1> HIDE DEF m, o
<1>6. \A u \in Tasks : SplitKept(u)
  BY <1>1, <1>2, <1>3, <1>4, CooldownInvTypes DEF SplitKept, Spreading
<1>7. TimesGrow /\ o.accepted <= lastOrderTime'[o.symbol]
  BY <1>1, <1>3, <1>5 DEF TimesGrow, CooldownInv, LastOrderTimeRecords
<1>8. \A i \in DOMAIN submitted :
        /\ submitted[i].symbol = o.symbol /\ submitted[i].epoch = epoch
        /\ submitted[i].number # o.number
        => SpacedFrom(submitted[i].accepted, o.accepted)
  BY <1>1, <1>5 DEF CooldownInv, SplitsSpaced
<1>9. \A u \in Tasks :
        /\ local'[u].left > 0
        /\ local[u].symbol = o.symbol /\ local[u].number # o.number
        => SpacedFrom(o.accepted, local[u].accepted)
  BY <1>1, <1>5, <1>6 DEF CooldownInv, SplitsSpaced, SplitKept
<1> QED
  BY <1>3, <1>5, <1>6, <1>7, <1>8, <1>9, SubmissionSpaced

\* A buy whose splits are left to a background task.
LEMMA SpawnDcaSpaced ==
  ASSUME CooldownInv, TypeInv', NEW t \in Tasks, NEW d \in Tasks, NEW qty \in Nat,
         pc[t] = "saving", SpawnDca(t, d, qty)
  PROVE  CooldownInv'
<1> DEFINE split == RoundHalfEven(qty, DcaSplits)
           l == [local[t] EXCEPT !.qty = split, !.left = DcaSplits,
                                 !.accepted = clock]
<1>1. /\ local \in [Tasks -> Locals] /\ local[t] \in Locals
      /\ clock \in Nat /\ epoch \in Nat /\ DcaSplits \in Nat /\ split \in Nat
      /\ \A s \in Symbols : lastOrderTime[s] \in Int
      /\ \A u \in Tasks : local[u].accepted \in Nat /\ local[u].symbol \in Symbols
  BY RoundHalfEvenNat, OrderManagerAssumption, CooldownInvTypes
     DEF CooldownInv, TypeOK
<1>2. /\ t # d /\ pc[d] = "idle" /\ Accept(t)
      /\ local' = [local EXCEPT ![t] = NoLocals, ![d] = l]
      /\ UNCHANGED <<clock, epoch, submitted>>
  BY DEF SpawnDca
<1> HIDE DEF split
<1>3. /\ l.symbol = local[t].symbol /\ l.accepted = clock /\ NoLocals.left = 0
  BY <1>1 DEF Locals, NoLocals
<1> HIDE DEF l
<1>4. /\ \A u \in Tasks \ {d} : local'[u].left > 0 =>
           local'[u] = local[u] /\ Spreading(u)
      /\ local'[d].symbol = local[t].symbol /\ local'[d].accepted = clock
  BY <1>1, <1>2, <1>3 DEF Spreading
<1>5. /\ TypeOK' /\ LocalsFitPc'
      /\ \A s \in Symbols : lastOrderTime'[s] \in Int
  BY DEF TypeInv, TypeOK, Never
<1>6. LastOrderTimeRecords'
  <2>1. \A i \in DOMAIN submitted :
          submitted[i].epoch <= epoch /\ submitted[i].symbol \in Symbols
          /\ submitted[i].accepted \in Nat
    BY CooldownInvTypes DEF CooldownInv, LastOrderTimeRecords
  <2>2. \A u \in Tasks : local'[u].left > 0 =>
          local'[u].accepted <= lastOrderTime'[local'[u].symbol]
    BY <1>1, <1>2, <1>4, <1>5, AcceptedIsSpaced
       DEF CooldownInv, LastOrderTimeRecords, Spreading
  <2> QED
    BY <1>1, <1>2, <1>5, <2>1, <2>2, AcceptedIsSpaced
       DEF CooldownInv, LastOrderTimeRecords, Spreading
<1>7. SplitsSpaced'
  <2> SUFFICES ASSUME NEW u \in Tasks, local'[u].left > 0
               PROVE  /\ \A i \in DOMAIN submitted :
                           /\ submitted[i].symbol = local'[u].symbol
                           /\ submitted[i].epoch = epoch
                           /\ submitted[i].number # local'[u].number
                           => SpacedFrom(submitted[i].accepted, local'[u].accepted)
                      /\ \A w \in Tasks \ {u} :
                           local'[w].left > 0 /\ local'[w].symbol = local'[u].symbol
                           => SpacedFrom(local'[w].accepted, local'[u].accepted)
    BY <1>2 DEF SplitsSpaced, Spreading, SpacedFrom
  <2>1. CASE u = d
    BY <1>1, <1>2, <1>4, <2>1, AcceptedIsSpaced, SpacedFromSymmetric
  <2>2. CASE u # d
    BY <1>1, <1>2, <1>4, <2>2, AcceptedIsSpaced DEF CooldownInv, SplitsSpaced
  <2> QED
    BY <2>1, <2>2
<1>8. CooldownSpacing'
  BY <1>2 DEF CooldownInv, CooldownSpacing
<1> QED
  BY <1>5, <1>6, <1>7, <1>8 DEF CooldownInv

\* A signal that the risk check refuses restarts the cooldown all the same.
LEMMA RejectByRiskSpaced ==
  ASSUME CooldownInv, TypeInv', NEW t \in Tasks, RejectByRisk(t)
  PROVE  CooldownInv'
<1>1. Accept(t) /\ UNCHANGED <<clock, epoch, local, submitted>>
  BY DEF RejectByRisk
<1>2. TimesGrow
  BY <1>1, AcceptedIsSpaced DEF TimesGrow
<1>3. OrdersKept /\ \A u \in Tasks : SplitKept(u)
  BY <1>1 DEF OrdersKept, SplitKept, Spreading
<1> QED
  BY <1>1, <1>2, <1>3, QuietStep

\* The environment, a crash and a stutter included.
LEMMA EnvironmentSpaced ==
  ASSUME CooldownInv, TypeInv', Environment \/ UNCHANGED vars
  PROVE  CooldownInv'
<1>0. /\ local \in [Tasks -> Locals] /\ NoLocals.left = 0 /\ clock \in Nat
      /\ submitted \in Seq(Submissions) /\ epoch \in Nat
      /\ \A s \in Symbols : lastOrderTime[s] \in Int /\ lastOrderTime[s] <= clock
  BY CooldownInvTypes DEF CooldownInv, TypeOK, NoLocals, LastOrderTimeRecords
<1>1. ASSUME NEW t \in Tasks, NEW s \in Symbols, NEW signal \in Signals,
             NEW price \in Prices, OnSignal(t, s, signal, price)
      PROVE  CooldownInv'
  <2>1. UNCHANGED <<clock, epoch, lastOrderTime, submitted>> /\ pc'[t] = "saving"
    BY <1>1 DEF OnSignal, Goto, CooldownInv, TypeOK
  <2>2. local'[t].left = 0 /\ \A u \in Tasks \ {t} : local'[u] = local[u]
    BY <1>0, <1>1, <2>1 DEF OnSignal, TypeInv, LocalsFitPc, Spreading, TypeOK, Locals
  <2> QED
    BY <1>0, <2>1, <2>2, QuietStep DEF TimesGrow, OrdersKept, SplitKept, Spreading
<1>2. ASSUME NEW n \in DOMAIN submitted, NEW filled \in 1 .. DefaultKrw,
             ExchangeFills(n, filled)
      PROVE  CooldownInv'
  <2>1. /\ UNCHANGED <<clock, epoch, lastOrderTime, local>>
        /\ submitted' = [submitted EXCEPT ![n].filled = filled]
    BY <1>2 DEF ExchangeFills, memory
  <2>2. submitted[n] \in Submissions
    BY <1>2, CooldownInvTypes
  <2>3. OrdersKept
    BY <1>0, <1>2, <2>1, <2>2 DEF OrdersKept, Submissions
  <2> QED
    BY <1>0, <2>1, <2>3, QuietStep DEF TimesGrow, SplitKept, Spreading
<1>3. CASE Tick
  BY <1>0, <1>3, QuietStep
     DEF Tick, memory, TimesGrow, OrdersKept, SplitKept, Spreading
<1>4. CASE Crash
  <2>1. /\ UNCHANGED <<clock, submitted>> /\ epoch' = epoch + 1
        /\ \A s \in Symbols : lastOrderTime'[s] = Never
        /\ \A t \in Tasks : local'[t].left = 0
    BY <1>0, <1>4 DEF Crash
  <2>2. \A i \in DOMAIN submitted :
          submitted[i].epoch \in Nat /\ submitted[i].epoch <= epoch
    BY CooldownInvTypes DEF CooldownInv, LastOrderTimeRecords
  <2>3. LastOrderTimeRecords' /\ SplitsSpaced'
    BY <1>0, <2>1, <2>2 DEF LastOrderTimeRecords, SplitsSpaced, Spreading, Never
  <2>4. CooldownSpacing'
    BY <2>1 DEF CooldownInv, CooldownSpacing
  <2> QED
    BY <2>3, <2>4 DEF CooldownInv, TypeInv
<1>5. CASE Exhausted \/ UNCHANGED vars
  BY <1>0, <1>5, QuietStep
     DEF Exhausted, vars, memory, TimesGrow, OrdersKept, SplitKept, Spreading
<1> QED
  BY <1>1, <1>2, <1>3, <1>4, <1>5 DEF Environment

LEMMA InitSpaced == Init => CooldownInv
<1> SUFFICES ASSUME Init PROVE CooldownInv
  OBVIOUS
<1>1. TypeInv
  BY InitTypeInv
<1>2. /\ DOMAIN submitted = {} /\ \A t \in Tasks : ~Spreading(t)
      /\ \A s \in Symbols : lastOrderTime[s] <= clock
  BY EmptySeq, LenProperties DEF Init, Spreading, NoLocals, Never
<1> QED
  BY <1>1, <1>2
     DEF TypeInv, CooldownInv, LastOrderTimeRecords, SplitsSpaced, CooldownSpacing

LEMMA NextSpaced == CooldownInv /\ [Next]_vars => CooldownInv'
<1> SUFFICES ASSUME CooldownInv, [Next]_vars PROVE CooldownInv'
  OBVIOUS
<1>1. TypeInv /\ TypeInv'
  BY CooldownInvTypes, TaskStepTypeInv, EnvironmentTypeInv DEF Next
<1>2. ASSUME NEW t \in Tasks, TaskStep(t)
      PROVE  CooldownInv'
  <2>1. ASSUME pc[t] = "saving", NEW qty \in 0 .. Quantity(local[t].price),
               SubmitOrder(t, qty) \/ \E d \in Tasks : SpawnDca(t, d, qty)
        PROVE  CooldownInv'
    <3>1. qty \in Nat
      BY <1>1, <2>1, QuantityNat DEF TypeInv, LocalsFitPc
    <3> QED
      BY <1>1, <2>1, <3>1, SubmitOrderSpaced, SpawnDcaSpaced
  <2> QED
    BY <1>1, <1>2, <2>1, QuietTaskStep, RejectByRiskSpaced, SubmitSplitSpaced
       DEF TaskStep
<1> QED
  BY <1>1, <1>2, EnvironmentSpaced DEF Next

\* Orders of different signals for one symbol are a cooldown apart, in one run
\* of the process, for every number of concurrent handlers, splits and faults:
\* the check and the update of _last_order_time are one step, and the splits a
\* background task sends later were counted when their signal was accepted.
THEOREM OrdersSpaced == Spec => [](CooldownInv /\ CooldownSpacing)
<1>1. CooldownInv => CooldownSpacing
  BY DEF CooldownInv
<1> QED
  BY <1>1, InitSpaced, NextSpaced, PTL DEF Spec

-------------------------------------------------------------------------------
\* The ledger: orders, trades and events.

LEMMA StepTypes == TypeInv /\ [Next]_vars => TypeInv'
  BY TaskStepTypeInv, EnvironmentTypeInv DEF Next

LEMMA LedgerInvTypes ==
  ASSUME TypeInv
  PROVE  /\ \A n \in DOMAIN submitted :
              submitted[n] \in Submissions /\ submitted[n].filled \in Nat
         /\ \A t \in Tasks :
              /\ local[t] \in Locals
              /\ local[t].sub \in Nat /\ local[t].id \in Nat
              /\ local[t].executed \in Nat /\ local[t].left \in Nat
         /\ \A t \in Tasks : Unsettled(t) => local[t].sub \in DOMAIN submitted
         /\ DOMAIN submitted \subseteq Nat \ {0}
         /\ Len(submitted) + 1 \notin DOMAIN submitted
         /\ \A tr \in trades : tr \in TradeRows /\ tr.qty \in Nat
<1>1. /\ submitted \in Seq(Submissions) /\ local \in [Tasks -> Locals]
      /\ trades \subseteq TradeRows
  BY DEF TypeInv, TypeOK
<1>2. \A n \in DOMAIN submitted : submitted[n] \in Submissions
  BY <1>1, ElementOfSeq, LenProperties
<1>3. \A n \in DOMAIN submitted : submitted[n].filled \in Nat
  BY <1>2 DEF Submissions
<1>4. \A t \in Tasks :
        /\ local[t] \in Locals
        /\ local[t].sub \in Nat /\ local[t].id \in Nat
        /\ local[t].executed \in Nat /\ local[t].left \in Nat
  BY <1>1 DEF Locals
<1>5. \A t \in Tasks : Unsettled(t) => local[t].sub \in DOMAIN submitted
  BY DEF Unsettled, TypeInv, LocalsFitPc
<1>6. DOMAIN submitted = 1 .. Len(submitted) /\ Len(submitted) \in Nat
  BY <1>1, LenProperties
<1>7. \A tr \in trades : tr \in TradeRows /\ tr.qty \in Nat
  BY <1>1 DEF TradeRows
<1> QED
  BY <1>2, <1>3, <1>4, <1>5, <1>6, <1>7

\* What most steps do to the orders: none disappears, and fills only grow.
FillsGrow ==
  /\ DOMAIN submitted \subseteq DOMAIN submitted'
  /\ \A n \in DOMAIN submitted :
       /\ submitted'[n] \in Submissions
       /\ submitted'[n].filled >= submitted[n].filled

\* An order that task t waits for after a step is the one it waited for
\* before, or a new one.
SameOrder(t) == Unsettled(t) /\ local'[t].sub = local[t].sub
NewOrder(t) == local'[t].sub \notin DOMAIN submitted

\* A step that records nothing, and after which every task waits for the order
\* it waited for, or for a new one that no other task waits for.
LEMMA LedgerKept ==
  ASSUME LedgerInv, TypeInv', UNCHANGED <<orders, trades, published>>,
         FillsGrow, IdsFitPc',
         \A u \in Tasks : Unsettled(u)' => SameOrder(u) \/ NewOrder(u),
         \A u, v \in Tasks : Unsettled(u)' /\ NewOrder(u) /\ Unsettled(v)' /\ NewOrder(v)
                             => u = v
  PROVE  LedgerInv'
<1>1. TypeInv /\ TypeOK' /\ LocalsFitPc'
  BY DEF LedgerInv, TypeInv
<1>2. OrdersApart'
  BY <1>1, LedgerInvTypes DEF LedgerInv, OrdersApart, SameOrder, NewOrder
<1>3. RowsFit'
  BY DEF LedgerInv, RowsFit, FillsGrow
<1>4. UnsettledUnrecorded'
  BY DEF LedgerInv, UnsettledUnrecorded, RowsFit, SameOrder, NewOrder
<1>5. LedgerAtomic'
  <2> SUFFICES ASSUME NEW n \in DOMAIN submitted'
               PROVE  (\E tr \in trades : tr.id = n)
                        <=> (\E o \in orders : o.id = n /\ o.sub = n
                                               /\ o.status = "accepted")
    BY DEF LedgerAtomic
  <2> QED
    BY DEF LedgerInv, LedgerAtomic, RowsFit
<1>6. EventsFollowLedger'
  BY DEF LedgerInv, EventsFollowLedger
<1>7. TradesBacked'
  <2> SUFFICES ASSUME NEW tr \in trades
               PROVE  tr.qty <= submitted'[tr.id].filled
    BY DEF TradesBacked
  <2>1. tr.id \in DOMAIN submitted /\ tr.qty <= submitted[tr.id].filled
    BY DEF LedgerInv, TradesBacked, RowsFit
  <2>2. /\ submitted'[tr.id].filled >= submitted[tr.id].filled
        /\ submitted'[tr.id].filled \in Nat /\ submitted[tr.id].filled \in Nat
        /\ tr.qty \in Nat
    BY <1>1, <2>1, LedgerInvTypes DEF FillsGrow, Submissions
  <2> QED
    BY <2>1, <2>2
<1> QED
  BY <1>1, <1>2, <1>3, <1>4, <1>5, <1>6, <1>7 DEF LedgerInv

\* Task t alone moves, and its identifier fits the place it moves to.
IdsFitFor(t) ==
  /\ pc'[t] = "placing" => local'[t].id = Pending
  /\ pc'[t] = "failing" => local'[t].id \in {Pending, local'[t].sub}
  /\ pc'[t] = "committing" =>
       /\ local'[t].id = local'[t].sub
       /\ local'[t].executed <= submitted'[local'[t].sub].filled

OthersStay(t) == \A u \in Tasks \ {t} : pc'[u] = pc[u] /\ local'[u] = local[u]

LEMMA IdsKept ==
  ASSUME LedgerInv, FillsGrow,
         NEW u \in Tasks, pc'[u] = pc[u], local'[u] = local[u]
  PROVE  IdsFitFor(u)
<1>1. TypeInv /\ IdsFitPc
  BY DEF LedgerInv, TypeInv
<1>2. CASE pc[u] = "committing"
  <2> DEFINE n == local[u].sub
  <2>1. /\ n \in DOMAIN submitted /\ local[u].executed <= submitted[n].filled
        /\ local[u].id = n
    BY <1>1, <1>2, LedgerInvTypes DEF IdsFitPc, Unsettled
  <2>2. /\ submitted'[n].filled >= submitted[n].filled
        /\ submitted'[n].filled \in Nat /\ submitted[n].filled \in Nat
        /\ local[u].executed \in Nat
    BY <1>1, <2>1, LedgerInvTypes DEF FillsGrow, Submissions
  <2>3. local[u].executed <= submitted'[n].filled
    BY <2>1, <2>2
  <2> QED
    BY <1>2, <2>1, <2>3 DEF IdsFitFor
<1> QED
  BY <1>1, <1>2 DEF IdsFitPc, IdsFitFor

COROLLARY LedgerKeptByTask ==
  ASSUME LedgerInv, TypeInv', UNCHANGED <<orders, trades, published>>,
         FillsGrow, NEW t \in Tasks, OthersStay(t), IdsFitFor(t),
         Unsettled(t)' => SameOrder(t) \/ NewOrder(t)
  PROVE  LedgerInv'
<1>1. \A u \in Tasks : IdsFitFor(u)
  BY IdsKept DEF OthersStay
<1>2. IdsFitPc'
  BY <1>1 DEF IdsFitPc, IdsFitFor
<1>3. \A u \in Tasks \ {t} : Unsettled(u)' => SameOrder(u)
  BY DEF OthersStay, SameOrder, Unsettled
<1>4. \A u \in Tasks : SameOrder(u) => ~NewOrder(u)
  BY LedgerInvTypes DEF LedgerInv, TypeInv, SameOrder, NewOrder
<1> QED
  BY <1>2, <1>3, <1>4, LedgerKept

\* Refusing or filling an order keeps the others.
LEMMA FillsGrowBy ==
  ASSUME TypeInv, NEW n \in DOMAIN submitted, NEW filled \in Nat,
         \/ submitted' = submitted
         \/ submitted' = [submitted EXCEPT ![n].status = "refused"]
         \/ /\ submitted' = [submitted EXCEPT ![n].filled = filled]
            /\ filled >= submitted[n].filled
  PROVE  FillsGrow
<1>1. submitted \in Seq(Submissions)
  BY DEF TypeInv, TypeOK
<1>2. submitted' \in Seq(Submissions) /\ DOMAIN submitted' = DOMAIN submitted
  <2>1. CASE submitted' = submitted
    BY <1>1, <2>1
  <2>2. CASE submitted' = [submitted EXCEPT ![n].status = "refused"]
    BY <1>1, <2>2, SubmittedChanges
  <2>3. CASE submitted' = [submitted EXCEPT ![n].filled = filled]
    BY <1>1, <2>3, SubmittedChanges
  <2> QED
    BY <2>1, <2>2, <2>3
<1>3. \A i \in DOMAIN submitted : submitted'[i] \in Submissions
  BY <1>2, ElementOfSeq, LenProperties
<1>4. \A i \in DOMAIN submitted :
        submitted[i] \in Submissions /\ submitted[i].filled \in Nat
  BY LedgerInvTypes
<1>5. \A i \in DOMAIN submitted : submitted'[i].filled >= submitted[i].filled
  BY <1>4 DEF Submissions
<1> QED
  BY <1>2, <1>3, <1>5 DEF FillsGrow

\* An order that leaves for the exchange.
LEMMA RequestLedger ==
  ASSUME LedgerInv, TypeInv', NEW t \in Tasks, NEW l \in Locals, CallBroker(t, l),
         UNCHANGED <<orders, trades, published>>
  PROVE  LedgerInv'
<1> DEFINE n == Len(submitted) + 1
           m == [l EXCEPT !.sub = n, !.id = 0, !.executed = 0, !.paid = 0]
<1>1. /\ TypeInv /\ local \in [Tasks -> Locals] /\ pc \in [Tasks -> PcValues]
      /\ submitted \in Seq(Submissions) /\ submitted' \in Seq(Submissions)
  BY DEF LedgerInv, TypeInv, TypeOK
<1>2. n \in Nat /\ n \notin DOMAIN submitted
  BY <1>1, LenProperties
<1>3. /\ local' = [local EXCEPT ![t] = m] /\ pc' = [pc EXCEPT ![t] = "placing"]
  BY DEF CallBroker, Goto, Pending
<1> HIDE DEF n
<1>4. m.sub = n /\ m.id = 0
  BY <1>2, RequestLocals DEF Locals
<1> HIDE DEF m
<1>5. /\ local'[t] = m /\ pc'[t] = "placing" /\ OthersStay(t)
  BY <1>1, <1>3 DEF OthersStay
<1>6. FillsGrow
  <2>1. \A i \in DOMAIN submitted :
          i \in DOMAIN submitted' /\ submitted'[i] = submitted[i]
    BY <1>1, AppendProperties, LenProperties DEF CallBroker
  <2> QED
    BY <1>1, <2>1, LedgerInvTypes DEF FillsGrow
<1>7. IdsFitFor(t) /\ NewOrder(t)
  BY <1>2, <1>4, <1>5 DEF IdsFitFor, NewOrder, Pending
<1> QED
  BY <1>5, <1>6, <1>7, LedgerKeptByTask

\* A step that only moves task t along, with the same locals, or ends it.
LEMMA MoveLedger ==
  ASSUME LedgerInv, TypeInv', NEW t \in Tasks, NEW place \in PcValues,
         pc' = [pc EXCEPT ![t] = place],
         UNCHANGED <<submitted, orders, trades, published>>,
         \/ place \notin {"placing", "committing", "failing"}
         \/ /\ place = "failing" /\ pc[t] \in {"placing", "committing"}
            /\ local' = local,
         OthersStay(t)
  PROVE  LedgerInv'
<1>1. /\ TypeInv /\ pc \in [Tasks -> PcValues] /\ IdsFitPc
  BY DEF LedgerInv, TypeInv, TypeOK
<1>2. pc'[t] = place
  BY <1>1
<1>3. FillsGrow
  BY <1>1, LedgerInvTypes DEF FillsGrow
<1>4. IdsFitFor(t)
  BY <1>1, <1>2 DEF IdsFitFor, IdsFitPc
<1>5. Unsettled(t)' => SameOrder(t)
  BY <1>2 DEF Unsettled, SameOrder
<1> QED
  BY <1>3, <1>4, <1>5, LedgerKeptByTask

\* The response to an order.
LEMMA PlaceOrderLedger ==
  ASSUME LedgerInv, TypeInv', NEW t \in Tasks,
         PlaceOrderRefused(t) \/ \E price \in ExecPrices : PlaceOrderReturns(t, price)
  PROVE  LedgerInv'
<1> DEFINE n == local[t].sub
<1>1. /\ TypeInv /\ pc \in [Tasks -> PcValues] /\ local \in [Tasks -> Locals]
      /\ IdsFitPc
  BY DEF LedgerInv, TypeInv, TypeOK
<1>2. /\ pc[t] = "placing" /\ n \in DOMAIN submitted /\ n \in Nat
      /\ submitted[n].filled \in Nat /\ Unsettled(t) /\ local[t] \in Locals
  BY <1>1, LedgerInvTypes DEF PlaceOrderRefused, PlaceOrderReturns, Unsettled
<1>3. CASE PlaceOrderRefused(t)
  <2>1. FillsGrow
    BY <1>1, <1>2, <1>3, FillsGrowBy DEF PlaceOrderRefused
  <2>2. pc'[t] = "failing" /\ local' = local /\ OthersStay(t)
    BY <1>1, <1>3 DEF PlaceOrderRefused, Goto, OthersStay
  <2>3. IdsFitFor(t) /\ SameOrder(t)
    BY <1>1, <1>2, <2>2 DEF IdsFitFor, IdsFitPc, SameOrder
  <2> QED
    BY <1>3, <2>1, <2>2, <2>3, LedgerKeptByTask DEF PlaceOrderRefused
<1>4. ASSUME NEW price \in ExecPrices, PlaceOrderReturns(t, price)
      PROVE  LedgerInv'
  <2>1. /\ submitted' = submitted /\ pc' = [pc EXCEPT ![t] = "committing"]
        /\ local' = [local EXCEPT ![t].id = n,
                                  ![t].executed = submitted[n].filled,
                                  ![t].paid = price]
    BY <1>4 DEF PlaceOrderReturns, Goto
  <2>2. FillsGrow
    BY <1>1, <2>1, LedgerInvTypes DEF FillsGrow
  <2>3. pc'[t] = "committing" /\ OthersStay(t)
    BY <1>1, <2>1 DEF OthersStay
  <2>4. /\ local'[t].id = n /\ local'[t].executed = submitted[n].filled
        /\ local'[t].sub = n
    BY <1>1, <1>2, <2>1 DEF Locals
  <2>5. IdsFitFor(t) /\ SameOrder(t)
    BY <1>2, <2>1, <2>3, <2>4 DEF IdsFitFor, SameOrder
  <2> QED
    BY <1>4, <2>2, <2>3, <2>5, LedgerKeptByTask DEF PlaceOrderReturns
<1> QED
  BY <1>3, <1>4

\* A task records its order, once: the row, the trade if the order was taken,
\* and the event, all for an order of which nothing was recorded.
LEMMA RecordLedger ==
  ASSUME LedgerInv, TypeInv', NEW t \in Tasks, NEW row, NEW trade, NEW event,
         Unsettled(t), ~Unsettled(t)', OthersStay(t), submitted' = submitted,
         row.sub = local[t].sub, event.sub = local[t].sub,
         orders' = orders \cup {row}, published' = published \cup {event},
         \/ /\ row.id = row.sub /\ row.status = "accepted"
            /\ event.type = "ORDER_FILLED"
            /\ trades' = trades \cup {trade} /\ trade.id = row.sub
            /\ trade.qty <= submitted[row.sub].filled
         \/ /\ row.id \in {Pending, row.sub} /\ row.status = "failed"
            /\ event.type = "ORDER_FAILED" /\ trades' = trades,
         pc'[t] \notin {"placing", "committing", "failing"}
  PROVE  LedgerInv'
<1>1. /\ TypeInv /\ TypeOK' /\ LocalsFitPc' /\ local[t].sub \in DOMAIN submitted
      /\ DOMAIN submitted \subseteq Nat \ {0}
  BY LedgerInvTypes DEF LedgerInv, TypeInv
<1>2. /\ \A o \in orders : o.sub # row.sub
      /\ \A tr \in trades : tr.id # row.sub
      /\ \A e \in published : e.sub # row.sub
  BY DEF LedgerInv, UnsettledUnrecorded, EventsFollowLedger
<1>3. \A u \in Tasks : Unsettled(u)' =>
        /\ u # t /\ Unsettled(u) /\ local'[u] = local[u] /\ pc'[u] = pc[u]
        /\ local[u].sub # row.sub
  BY DEF OthersStay, Unsettled, LedgerInv, OrdersApart
<1>4. OrdersApart'
  BY <1>3 DEF LedgerInv, OrdersApart
<1>5. IdsFitPc'
  BY <1>3 DEF LedgerInv, IdsFitPc, Unsettled
<1>6. RowsFit'
  BY <1>1 DEF LedgerInv, RowsFit
<1>7. UnsettledUnrecorded'
  BY <1>3 DEF LedgerInv, UnsettledUnrecorded
<1>8. LedgerAtomic'
  <2> SUFFICES ASSUME NEW n \in DOMAIN submitted
               PROVE  (\E tr \in trades' : tr.id = n)
                        <=> (\E o \in orders' : o.id = n /\ o.sub = n
                                                /\ o.status = "accepted")
    BY DEF LedgerAtomic
  <2>1. (\E tr \in trades : tr.id = n)
          <=> (\E o \in orders : o.id = n /\ o.sub = n /\ o.status = "accepted")
    BY DEF LedgerInv, LedgerAtomic
  <2>2. CASE n = row.sub
    BY <1>2, <2>2
  <2>3. CASE n # row.sub
    BY <2>1, <2>3
  <2> QED
    BY <2>2, <2>3
<1>9. EventsFollowLedger'
  <2>1. \A e \in published : e.sub # event.sub
    BY <1>2
  <2>2. ASSUME NEW e \in published'
        PROVE  /\ \E o \in orders' :
                    o.sub = e.sub /\ o.status = (IF e.type = "ORDER_FILLED"
                                                 THEN "accepted" ELSE "failed")
               /\ \A f \in published' : f.sub = e.sub => f.type = e.type
    <3>1. CASE e \in published
      BY <2>1, <3>1 DEF LedgerInv, EventsFollowLedger
    <3>2. CASE e = event
      BY <2>1, <3>2
    <3> QED
      BY <3>1, <3>2
  <2> QED
    BY <2>2 DEF EventsFollowLedger
<1>10. TradesBacked'
  BY DEF LedgerInv, TradesBacked
<1> QED
  BY <1>1, <1>4, <1>5, <1>6, <1>7, <1>8, <1>9, <1>10 DEF LedgerInv

LEMMA CommitOrderLedger ==
  ASSUME LedgerInv, TypeInv', NEW t \in Tasks, CommitOrder(t)
  PROVE  LedgerInv'
<1> DEFINE l == local[t]
           row == [id |-> l.id, sub |-> l.sub, status |-> "accepted"]
           trade == [id |-> l.id, symbol |-> l.symbol, side |-> SideOf(l.signal),
                     qty |-> l.executed, price |-> l.paid]
           event == [type |-> "ORDER_FILLED", sub |-> l.sub]
<1>1. pc \in [Tasks -> PcValues] /\ pc[t] = "committing"
  BY DEF LedgerInv, TypeOK, CommitOrder
<1>2. /\ l.id = l.sub /\ l.executed <= submitted[l.sub].filled
  BY <1>1 DEF LedgerInv, IdsFitPc
<1>3. pc'[t] = "publishing" /\ OthersStay(t)
  BY <1>1 DEF CommitOrder, Goto, OthersStay
<1>4. Unsettled(t) /\ ~Unsettled(t)'
  BY <1>1, <1>3 DEF Unsettled
<1>5. /\ orders' = orders \cup {row} /\ trades' = trades \cup {trade}
      /\ published' = published \cup {event} /\ submitted' = submitted
  BY DEF CommitOrder
<1>6. /\ row.id = row.sub /\ row.sub = l.sub /\ row.status = "accepted"
      /\ event.type = "ORDER_FILLED" /\ event.sub = l.sub
      /\ trade.id = row.sub /\ trade.qty <= submitted[row.sub].filled
  BY <1>2
<1> HIDE DEF row, trade, event
<1> QED
  BY <1>3, <1>4, <1>5, <1>6, RecordLedger

LEMMA SaveFailedLedger ==
  ASSUME LedgerInv, TypeInv', NEW t \in Tasks, SaveFailedOrder(t)
  PROVE  LedgerInv'
<1> DEFINE l == local[t]
           row == [id |-> l.id, sub |-> l.sub, status |-> "failed"]
           event == [type |-> "ORDER_FAILED", sub |-> l.sub]
<1>1. pc \in [Tasks -> PcValues] /\ pc[t] = "failing"
  BY DEF LedgerInv, TypeOK, SaveFailedOrder
<1>2. l.id \in {Pending, l.sub}
  BY <1>1 DEF LedgerInv, IdsFitPc
<1>3. pc'[t] = "notifying" /\ OthersStay(t)
  BY <1>1 DEF SaveFailedOrder, Goto, OthersStay
<1>4. Unsettled(t) /\ ~Unsettled(t)'
  BY <1>1, <1>3 DEF Unsettled
<1>5. /\ orders' = orders \cup {row} /\ trades' = trades
      /\ published' = published \cup {event} /\ submitted' = submitted
  BY DEF SaveFailedOrder
<1>6. /\ row.id \in {Pending, row.sub} /\ row.sub = l.sub /\ row.status = "failed"
      /\ event.type = "ORDER_FAILED" /\ event.sub = l.sub
  BY <1>2
<1> HIDE DEF row, event
<1> QED
  BY <1>3, <1>4, <1>5, <1>6, RecordLedger

LEMMA SpawnDcaLedger ==
  ASSUME LedgerInv, TypeInv', NEW t \in Tasks, NEW d \in Tasks, NEW qty,
         SpawnDca(t, d, qty)
  PROVE  LedgerInv'
<1>1. /\ TypeInv /\ pc \in [Tasks -> PcValues] /\ local \in [Tasks -> Locals]
  BY DEF LedgerInv, TypeInv, TypeOK
<1>2. /\ \A u \in Tasks \ {t, d} : pc'[u] = pc[u] /\ local'[u] = local[u]
      /\ pc'[t] \in {"idle", "sleeping"} /\ pc'[d] \in {"idle", "sleeping"}
      /\ UNCHANGED <<submitted, orders, trades, published>>
  BY <1>1 DEF SpawnDca
<1>3. FillsGrow
  BY <1>1, <1>2, LedgerInvTypes DEF FillsGrow
<1>4. \A u \in Tasks : Unsettled(u)' => SameOrder(u) /\ ~NewOrder(u)
  BY <1>1, <1>2, LedgerInvTypes DEF Unsettled, SameOrder, NewOrder
<1>5. IdsFitPc'
  <2>1. \A u \in Tasks : IdsFitFor(u)
    BY <1>2, <1>3, IdsKept DEF IdsFitFor
  <2> QED
    BY <2>1 DEF IdsFitPc, IdsFitFor
<1> QED
  BY <1>2, <1>3, <1>4, <1>5, LedgerKept

LEMMA TaskStepLedger ==
  ASSUME LedgerInv, TypeInv', NEW t \in Tasks, TaskStep(t)
  PROVE  LedgerInv'
<1>0. /\ TypeInv /\ pc \in [Tasks -> PcValues] /\ local \in [Tasks -> Locals]
      /\ local[t] \in Locals /\ clock \in Nat
  BY DEF LedgerInv, TypeInv, TypeOK
<1>1. CASE \/ SkipSignal(t) \/ RejectByRisk(t) \/ PlaceOrderRaises(t)
           \/ CommitRaises(t) \/ SaveFailedOrderRaises(t)
           \/ DeliverFilled(t) \/ PublishReturns(t)
  <2>1. OthersStay(t) /\ UNCHANGED <<submitted, orders, trades, published>>
    BY <1>0, <1>1
       DEF OthersStay, Goto, Finish, SkipSignal, RejectByRisk, PlaceOrderRaises,
           CommitRaises, SaveFailedOrderRaises, DeliverFilled, PublishReturns
  <2>2. \E place \in PcValues :
          /\ pc' = [pc EXCEPT ![t] = place]
          /\ \/ place \notin {"placing", "committing", "failing"}
             \/ /\ place = "failing" /\ pc[t] \in {"placing", "committing"}
                /\ local' = local
    BY <1>1
       DEF PcValues, Goto, Finish, SkipSignal, RejectByRisk, PlaceOrderRaises,
           CommitRaises, SaveFailedOrderRaises, DeliverFilled, PublishReturns
  <2> QED
    BY <2>1, <2>2, MoveLedger
<1>2. ASSUME NEW qty \in 0 .. Quantity(local[t].price), pc[t] = "saving",
             SubmitOrder(t, qty) \/ \E d \in Tasks : SpawnDca(t, d, qty)
      PROVE  LedgerInv'
  <2>1. qty \in Nat
    BY <1>0, <1>2, QuantityNat DEF TypeInv, LocalsFitPc
  <2>2. [local[t] EXCEPT !.qty = qty, !.accepted = clock] \in Locals
    BY <1>0, <2>1, LocalsChanges
  <2> QED
    BY <1>2, <2>2, RequestLedger, SpawnDcaLedger DEF SubmitOrder
<1>3. CASE SubmitSplit(t)
  <2>1. local[t].left - 1 \in Nat
    BY <1>0, <1>3 DEF SubmitSplit, TypeInv, LocalsFitPc, Spreading, Locals
  <2>2. [local[t] EXCEPT !.left = @ - 1] \in Locals
    BY <1>0, <2>1, LocalsChanges
  <2> QED
    BY <1>3, <2>2, RequestLedger DEF SubmitSplit
<1> QED
  BY <1>1, <1>2, <1>3, PlaceOrderLedger, CommitOrderLedger, SaveFailedLedger
     DEF TaskStep

LEMMA EnvironmentLedger ==
  ASSUME LedgerInv, TypeInv', Environment \/ UNCHANGED vars
  PROVE  LedgerInv'
<1>0. /\ TypeInv /\ pc \in [Tasks -> PcValues] /\ local \in [Tasks -> Locals]
      /\ IdsFitPc
  BY DEF LedgerInv, TypeInv, TypeOK
<1>1. ASSUME NEW t \in Tasks, NEW s \in Symbols, NEW signal \in Signals,
             NEW p \in Prices, OnSignal(t, s, signal, p)
      PROVE  LedgerInv'
  BY <1>0, <1>1, MoveLedger DEF OnSignal, Goto, OthersStay, PcValues
<1>2. ASSUME NEW n \in DOMAIN submitted, NEW filled \in 1 .. DefaultKrw,
             ExchangeFills(n, filled)
      PROVE  LedgerInv'
  <2>1. filled \in Nat /\ submitted[n].filled \in Nat
    BY <1>0, OrderManagerAssumption, LedgerInvTypes
  <2>2. FillsGrow
    <3>1. /\ submitted' = [submitted EXCEPT ![n].filled = filled]
          /\ filled >= submitted[n].filled
      BY <1>2, <2>1 DEF ExchangeFills
    <3> QED
      BY <1>0, <2>1, <3>1, FillsGrowBy
  <2>3. UNCHANGED <<pc, local, orders, trades, published>>
    BY <1>2 DEF ExchangeFills, memory
  <2>4. IdsFitPc'
    <3>1. \A u \in Tasks : IdsFitFor(u)
      BY <2>2, <2>3, IdsKept
    <3> QED
      BY <3>1 DEF IdsFitPc, IdsFitFor
  <2>5. \A u \in Tasks : Unsettled(u)' => SameOrder(u) /\ ~NewOrder(u)
    BY <1>0, <2>3, LedgerInvTypes DEF Unsettled, SameOrder, NewOrder
  <2> QED
    BY <2>2, <2>3, <2>4, <2>5, LedgerKept
<1>3. CASE Tick \/ Exhausted \/ UNCHANGED vars
  <2>1. UNCHANGED <<pc, local, submitted, orders, trades, published>>
    BY <1>3 DEF Tick, Exhausted, memory, vars
  <2>2. IdsFitPc' /\ FillsGrow
    BY <1>0, <2>1, LedgerInvTypes DEF IdsFitPc, FillsGrow
  <2>3. \A u \in Tasks : Unsettled(u)' => SameOrder(u) /\ ~NewOrder(u)
    BY <1>0, <2>1, LedgerInvTypes DEF Unsettled, SameOrder, NewOrder
  <2> QED
    BY <2>1, <2>2, <2>3, LedgerKept
<1>4. CASE Crash
  <2>1. /\ UNCHANGED <<submitted, orders, trades, published>>
        /\ \A u \in Tasks : pc'[u] = "idle"
    BY <1>4 DEF Crash
  <2>2. FillsGrow
    BY <1>0, <2>1, LedgerInvTypes DEF FillsGrow
  <2>3. IdsFitPc' /\ \A u \in Tasks : ~Unsettled(u)'
    BY <2>1 DEF IdsFitPc, Unsettled
  <2> QED
    BY <2>1, <2>2, <2>3, LedgerKept
<1> QED
  BY <1>1, <1>2, <1>3, <1>4 DEF Environment

LEMMA InitLedger == Init => LedgerInv
<1> SUFFICES ASSUME Init PROVE LedgerInv
  OBVIOUS
<1>1. TypeInv
  BY InitTypeInv
<1>2. /\ DOMAIN submitted = {} /\ \A t \in Tasks : pc[t] = "idle"
      /\ orders = {} /\ trades = {} /\ published = {}
  BY EmptySeq, LenProperties DEF Init
<1> QED
  BY <1>1, <1>2
     DEF TypeInv, LedgerInv, OrdersApart, IdsFitPc, RowsFit, UnsettledUnrecorded,
         Unsettled, LedgerAtomic, EventsFollowLedger, TradesBacked

LEMMA LedgerHolds == Spec => []LedgerInv
<1>1. LedgerInv /\ [Next]_vars => LedgerInv'
  <2> SUFFICES ASSUME LedgerInv, [Next]_vars PROVE LedgerInv'
    OBVIOUS
  <2>1. TypeInv'
    BY StepTypes DEF LedgerInv, TypeInv
  <2> QED
    BY <2>1, TaskStepLedger, EnvironmentLedger DEF Next
<1> QED
  BY <1>1, InitLedger, PTL DEF Spec

\* The tables agree whatever fails and however the handlers interleave: a trade
\* exists exactly for an order whose row says that the exchange took it.  Each
\* order is recorded by the one task that sent it, and its row and its trade in
\* one commit (order_manager.py:176-187).
THEOREM TablesAgree == Spec => []LedgerAtomic
<1>1. LedgerInv => LedgerAtomic
  BY DEF LedgerInv
<1> QED
  BY <1>1, LedgerHolds, PTL

\* No event runs ahead of the row that says the same, and no order is announced
\* both as filled and as failed (order_manager.py:176-227).
THEOREM EventsAgree == Spec => []EventsFollowLedger
<1>1. LedgerInv => EventsFollowLedger
  BY DEF LedgerInv
<1> QED
  BY <1>1, LedgerHolds, PTL

\* No trade records more than the exchange executed, although the response is
\* older than the commit (order_manager.py:173-185).
THEOREM TradesAreBacked == Spec => []TradesBacked
<1>1. LedgerInv => TradesBacked
  BY DEF LedgerInv
<1> QED
  BY <1>1, LedgerHolds, PTL

-------------------------------------------------------------------------------
\* The number of orders of a signal.

LEMMA SplitsInvTypes ==
  ASSUME SplitsInv
  PROVE  /\ TypeInv /\ received \in Nat /\ DcaSplits \in Nat \ {0}
         /\ pc \in [Tasks -> PcValues] /\ local \in [Tasks -> Locals]
         /\ \A t \in Tasks : local[t].number \in Nat /\ local[t].left \in Nat
  BY OrderManagerAssumption DEF SplitsInv, TypeInv, TypeOK, Locals

LEMMA SentFinite ==
  ASSUME TypeInv, NEW n
  PROVE  IsFiniteSet(Sent(n)) /\ Cardinality(Sent(n)) \in Nat
<1>1. submitted \in Seq(Submissions)
  BY DEF TypeInv, TypeOK
<1>2. Len(submitted) \in Nat /\ DOMAIN submitted = 1 .. Len(submitted)
  BY <1>1, LenProperties
<1>3. IsFiniteSet(1 .. Len(submitted)) /\ Sent(n) \in SUBSET (1 .. Len(submitted))
  BY <1>2, FS_Interval DEF Sent
<1> QED
  BY <1>3, FS_Subset, FS_CardinalityType

\* A task that is active after a step went on with a signal it already had, and
\* has no more to send than before.
GoesOn(t) ==
  /\ pc[t] # "idle"
  /\ local'[t].number = local[t].number /\ local'[t].signal = local[t].signal
  /\ local'[t].left = local[t].left
  /\ pc'[t] = "saving" => pc[t] = "saving"

\* The orders sent for signal n after a step.
NewSent(n) == {i \in DOMAIN submitted' : submitted'[i].number = n}

OrdersStay ==
  /\ DOMAIN submitted' = DOMAIN submitted
  /\ \A i \in DOMAIN submitted :
       /\ submitted'[i].number = submitted[i].number
       /\ submitted'[i].side = submitted[i].side

LEMMA SentStays ==
  ASSUME OrdersStay, NEW n
  PROVE  NewSent(n) = Sent(n)
  BY DEF OrdersStay, Sent, NewSent

\* A step that sends nothing and starts nothing.
LEMMA SplitsKept ==
  ASSUME SplitsInv, TypeInv', OrdersStay, received' = received,
         \A t \in Tasks : pc'[t] # "idle" => GoesOn(t)
  PROVE  SplitsInv'
<1>1. TypeOK' /\ LocalsFitPc'
  BY DEF TypeInv
<1>2. NumbersApart'
  BY DEF SplitsInv, NumbersApart, GoesOn, OrdersStay
<1>3. SplitsLeft'
  <2> SUFFICES ASSUME NEW t \in Tasks, pc'[t] # "idle"
               PROVE  /\ pc'[t] = "saving" => NewSent(local'[t].number) = {}
                      /\ local'[t].left > 0 => local'[t].signal = "buy"
                      /\ Cardinality(NewSent(local'[t].number)) + local'[t].left <= DcaSplits
                      /\ \A i \in NewSent(local'[t].number) :
                           submitted'[i].side = SideOf(local'[t].signal)
    BY DEF SplitsLeft, Spreading, Sent, NewSent
  <2>1. GoesOn(t)
    OBVIOUS
  <2>2. NewSent(local'[t].number) = Sent(local[t].number)
    BY <2>1, SentStays DEF GoesOn
  <2>3. /\ pc[t] = "saving" => Sent(local[t].number) = {}
        /\ local[t].left > 0 => local[t].signal = "buy"
        /\ Cardinality(Sent(local[t].number)) + local[t].left <= DcaSplits
        /\ \A i \in Sent(local[t].number) :
             submitted[i].side = SideOf(local[t].signal)
    BY <2>1 DEF SplitsInv, SplitsLeft, Spreading, GoesOn
  <2>4. \A i \in Sent(local[t].number) : submitted'[i].side = submitted[i].side
    BY DEF OrdersStay, Sent
  <2> QED
    BY <2>1, <2>2, <2>3, <2>4 DEF GoesOn
<1>4. SplitsBounded'
  <2> SUFFICES ASSUME NEW n \in 1 .. received
               PROVE  /\ Cardinality(NewSent(n)) <= DcaSplits
                      /\ Cardinality(NewSent(n)) > 1 =>
                           \A i \in NewSent(n) : submitted'[i].side = "buy"
    BY DEF SplitsBounded, NewSent
  <2>1. /\ Cardinality(Sent(n)) <= DcaSplits
        /\ Cardinality(Sent(n)) > 1 => \A i \in Sent(n) : submitted[i].side = "buy"
    BY DEF SplitsInv, SplitsBounded, Sent
  <2>2. \A i \in Sent(n) : submitted'[i].side = submitted[i].side
    BY DEF OrdersStay, Sent
  <2> QED
    BY <2>1, <2>2, SentStays
<1> QED
  BY <1>1, <1>2, <1>3, <1>4 DEF SplitsInv

\* An order that leaves for the exchange: task t had it to send.
LEMMA RequestSplits ==
  ASSUME SplitsInv, TypeInv', NEW t \in Tasks, NEW l \in Locals, CallBroker(t, l),
         received' = received, pc[t] # "idle",
         l.number = local[t].number, l.signal = local[t].signal,
         Cardinality(Sent(l.number)) + 1 + l.left <= DcaSplits,
         l.left > 0 => l.signal = "buy",
         Sent(l.number) # {} => l.signal = "buy"
  PROVE  SplitsInv'
<1> DEFINE n == Len(submitted) + 1
           m == [l EXCEPT !.sub = n, !.id = 0, !.executed = 0, !.paid = 0]
           o == [number |-> l.number, symbol |-> l.symbol,
                 side |-> SideOf(l.signal), qty |-> l.qty,
                 accepted |-> l.accepted, at |-> clock, epoch |-> epoch,
                 filled |-> 0, status |-> "live"]
<1>1. /\ TypeInv /\ TypeOK' /\ LocalsFitPc' /\ pc \in [Tasks -> PcValues]
      /\ local \in [Tasks -> Locals] /\ submitted \in Seq(Submissions)
      /\ received \in Nat /\ DcaSplits \in Nat
      /\ l.number \in Nat /\ l.left \in Nat
  BY SplitsInvTypes DEF TypeInv, TypeOK, Locals
<1>2. n \in Nat /\ n \notin DOMAIN submitted
  BY <1>1, LenProperties
<1>3. /\ submitted' = Append(submitted, o)
      /\ local' = [local EXCEPT ![t] = m] /\ pc' = [pc EXCEPT ![t] = "placing"]
  BY DEF CallBroker, Goto, Pending
<1>4. o.number = l.number /\ o.side = SideOf(l.signal) /\ o \in Submissions
  BY <1>1 DEF Locals, Submissions, TypeInv, TypeOK, SideOf, Sides
<1> HIDE DEF o
<1>5. /\ DOMAIN submitted' = DOMAIN submitted \cup {n} /\ submitted'[n] = o
      /\ \A i \in DOMAIN submitted : submitted'[i] = submitted[i]
  <2>1. /\ DOMAIN submitted = 1 .. Len(submitted) /\ Len(submitted) \in Nat
        /\ submitted' \in Seq(Submissions)
        /\ Len(submitted') = Len(submitted) + 1
        /\ DOMAIN submitted' = 1 .. Len(submitted')
        /\ submitted'[Len(submitted) + 1] = o
        /\ \A i \in 1 .. Len(submitted) : submitted'[i] = submitted[i]
    BY <1>1, <1>3, <1>4, AppendProperties, LenProperties
  <2> QED
    BY <2>1
<1>6. m.number = l.number /\ m.signal = l.signal /\ m.left = l.left
  BY DEF Locals
<1> HIDE DEF n, m
<1>7. /\ local'[t] = m /\ pc'[t] = "placing"
      /\ \A u \in Tasks \ {t} : pc'[u] = pc[u] /\ local'[u] = local[u]
  BY <1>1, <1>3
<1>8. /\ NewSent(l.number) = Sent(l.number) \cup {n} /\ n \notin Sent(l.number)
      /\ \A k : k # l.number => NewSent(k) = Sent(k)
  BY <1>2, <1>4, <1>5 DEF Sent, NewSent
<1>9. Cardinality(NewSent(l.number)) = Cardinality(Sent(l.number)) + 1
  BY <1>1, <1>8, SentFinite, FS_AddElement
<1>10. \A k \in DOMAIN submitted : submitted'[k].side = submitted[k].side
  BY <1>5
<1>11. \A i \in NewSent(l.number) : submitted'[i].side = SideOf(l.signal)
  BY <1>4, <1>5, <1>8 DEF SplitsInv, SplitsLeft, Sent
<1>12. NumbersApart'
  <2>1. l.number \in 1 .. received
    BY DEF SplitsInv, NumbersApart
  <2>2. \A i \in DOMAIN submitted' : submitted'[i].number \in 1 .. received'
    BY <1>4, <1>5, <2>1 DEF SplitsInv, NumbersApart
  <2>3. \A u \in Tasks : pc'[u] # "idle" =>
          pc[u] # "idle" /\ local'[u].number = local[u].number
    BY <1>6, <1>7
  <2> QED
    BY <2>2, <2>3 DEF SplitsInv, NumbersApart
<1>13. SplitsLeft'
  <2> SUFFICES ASSUME NEW u \in Tasks, pc'[u] # "idle"
               PROVE  /\ pc'[u] = "saving" => NewSent(local'[u].number) = {}
                      /\ local'[u].left > 0 => local'[u].signal = "buy"
                      /\ Cardinality(NewSent(local'[u].number)) + local'[u].left <= DcaSplits
                      /\ \A i \in NewSent(local'[u].number) :
                           submitted'[i].side = SideOf(local'[u].signal)
    BY DEF SplitsLeft, Spreading, Sent, NewSent
  <2>1. CASE u = t
    <3>1. Cardinality(Sent(l.number)) \in Nat
      BY <1>1, SentFinite
    <3>2. Cardinality(NewSent(l.number)) + l.left <= DcaSplits
      BY <1>1, <1>9, <3>1
    <3> QED
      BY <1>6, <1>7, <1>11, <2>1, <3>2
  <2>2. CASE u # t
    <3>1. local'[u] = local[u] /\ pc'[u] = pc[u] /\ local[u].number # l.number
      BY <1>7, <2>2 DEF SplitsInv, NumbersApart
    <3>2. NewSent(local[u].number) = Sent(local[u].number)
      BY <1>8, <3>1
    <3>3. \A i \in Sent(local[u].number) : submitted'[i].side = submitted[i].side
      BY <1>5 DEF Sent
    <3> QED
      BY <3>1, <3>2, <3>3 DEF SplitsInv, SplitsLeft, Spreading
  <2> QED
    BY <2>1, <2>2
<1>14. SplitsBounded'
  <2> SUFFICES ASSUME NEW k \in 1 .. received
               PROVE  /\ Cardinality(NewSent(k)) <= DcaSplits
                      /\ Cardinality(NewSent(k)) > 1 =>
                           \A i \in NewSent(k) : submitted'[i].side = "buy"
    BY DEF SplitsBounded, NewSent
  <2>1. CASE k = l.number
    <3>1. Cardinality(Sent(l.number)) \in Nat
      BY <1>1, SentFinite
    <3>2. Cardinality(NewSent(k)) <= DcaSplits
      BY <1>1, <1>9, <2>1, <3>1
    <3>3. Cardinality(NewSent(k)) > 1 => l.signal = "buy"
      <4>1. CASE Sent(l.number) = {}
        BY <1>9, <2>1, <4>1, FS_EmptySet
      <4> QED
        BY <4>1
    <3>4. l.signal = "buy" => \A i \in NewSent(k) : submitted'[i].side = "buy"
      BY <1>11, <2>1 DEF SideOf
    <3> QED
      BY <3>2, <3>3, <3>4
  <2>2. CASE k # l.number
    <3>1. NewSent(k) = Sent(k)
      BY <1>8, <2>2
    <3>2. \A i \in Sent(k) : submitted'[i].side = submitted[i].side
      BY <1>5 DEF Sent
    <3>3. /\ Cardinality(Sent(k)) <= DcaSplits
          /\ Cardinality(Sent(k)) > 1 => \A i \in Sent(k) : submitted[i].side = "buy"
      BY DEF SplitsInv, SplitsBounded, Sent
    <3> QED
      BY <3>1, <3>2, <3>3
  <2> QED
    BY <2>1, <2>2
<1> QED
  BY <1>1, <1>12, <1>13, <1>14 DEF SplitsInv

\* A new signal.
LEMMA OnSignalSplits ==
  ASSUME SplitsInv, TypeInv', NEW t \in Tasks, NEW s \in Symbols,
         NEW signal \in Signals, NEW p \in Prices, OnSignal(t, s, signal, p)
  PROVE  SplitsInv'
<1> DEFINE k == received + 1
           l == [NoLocals EXCEPT !.number = k, !.symbol = s,
                                 !.signal = signal, !.price = p]
<1>1. /\ TypeInv /\ TypeOK' /\ LocalsFitPc' /\ pc \in [Tasks -> PcValues]
      /\ local \in [Tasks -> Locals] /\ received \in Nat /\ DcaSplits \in Nat
  BY SplitsInvTypes DEF TypeInv, TypeOK
<1>2. /\ pc' = [pc EXCEPT ![t] = "saving"] /\ local' = [local EXCEPT ![t] = l]
      /\ received' = k /\ submitted' = submitted
  BY DEF OnSignal, Goto
<1>3. l.number = k /\ l.left = 0
  BY DEF NoLocals
<1> HIDE DEF l
<1>4. /\ local'[t] = l /\ pc'[t] = "saving"
      /\ \A u \in Tasks \ {t} : pc'[u] = pc[u] /\ local'[u] = local[u]
  BY <1>1, <1>2
<1>5. 1 .. received' = (1 .. received) \cup {k} /\ k \notin 1 .. received
  BY <1>1, <1>2
<1> HIDE DEF k
<1>6. Sent(k) = {} /\ \A n : NewSent(n) = Sent(n)
  BY <1>2, <1>5 DEF SplitsInv, NumbersApart, Sent, NewSent
<1>7. NumbersApart'
  BY <1>2, <1>3, <1>4, <1>5 DEF SplitsInv, NumbersApart
<1>8. SplitsLeft'
  <2> SUFFICES ASSUME NEW u \in Tasks, pc'[u] # "idle"
               PROVE  /\ pc'[u] = "saving" => NewSent(local'[u].number) = {}
                      /\ local'[u].left > 0 => local'[u].signal = "buy"
                      /\ Cardinality(NewSent(local'[u].number)) + local'[u].left
                           <= DcaSplits
                      /\ \A i \in NewSent(local'[u].number) :
                           submitted'[i].side = SideOf(local'[u].signal)
    BY DEF SplitsLeft, Spreading, Sent, NewSent
  <2>1. CASE u = t
    <3>1. NewSent(local'[u].number) = {} /\ local'[u].left = 0
      BY <1>3, <1>4, <1>6, <2>1
    <3>2. Cardinality({}) + 0 <= DcaSplits
      BY <1>1, FS_EmptySet
    <3> QED
      BY <3>1, <3>2
  <2>2. CASE u # t
    BY <1>2, <1>4, <1>6, <2>2 DEF SplitsInv, SplitsLeft, Spreading
  <2> QED
    BY <2>1, <2>2
<1>9. SplitsBounded'
  <2> SUFFICES ASSUME NEW n \in 1 .. received'
               PROVE  /\ Cardinality(NewSent(n)) <= DcaSplits
                      /\ Cardinality(NewSent(n)) > 1 =>
                           \A i \in NewSent(n) : submitted'[i].side = "buy"
    BY DEF SplitsBounded, NewSent
  <2>1. CASE n = k
    BY <1>1, <1>6, <2>1, FS_EmptySet
  <2>2. CASE n \in 1 .. received
    BY <1>2, <1>6, <2>2 DEF SplitsInv, SplitsBounded, Sent
  <2> QED
    BY <1>5, <2>1, <2>2
<1> QED
  BY <1>1, <1>7, <1>8, <1>9 DEF SplitsInv

\* A buy that is split: the background task takes over the signal.
LEMMA SpawnDcaSplits ==
  ASSUME SplitsInv, TypeInv', NEW t \in Tasks, NEW d \in Tasks, NEW qty,
         SpawnDca(t, d, qty)
  PROVE  SplitsInv'
<1> DEFINE l == [local[t] EXCEPT !.qty = RoundHalfEven(qty, DcaSplits),
                                 !.left = DcaSplits, !.accepted = clock]
<1>1. /\ TypeInv /\ TypeOK' /\ LocalsFitPc' /\ pc \in [Tasks -> PcValues]
      /\ local \in [Tasks -> Locals] /\ received \in Nat /\ DcaSplits \in Nat
      /\ local[t] \in Locals
  BY SplitsInvTypes DEF TypeInv, TypeOK
<1>2. /\ t # d /\ pc[t] = "saving" /\ local[t].signal = "buy"
      /\ pc' = [pc EXCEPT ![t] = "idle", ![d] = "sleeping"]
      /\ local' = [local EXCEPT ![t] = NoLocals, ![d] = l]
      /\ received' = received /\ submitted' = submitted
  BY DEF SpawnDca, Accept
<1>3. l.number = local[t].number /\ l.left = DcaSplits /\ l.signal = "buy"
  BY <1>1, <1>2 DEF Locals
<1> HIDE DEF l
<1>4. /\ pc'[t] = "idle" /\ pc'[d] = "sleeping" /\ local'[d] = l
      /\ \A u \in Tasks \ {t, d} : pc'[u] = pc[u] /\ local'[u] = local[u]
  BY <1>1, <1>2
<1>5. \A n : NewSent(n) = Sent(n)
  BY <1>2 DEF Sent, NewSent
<1>6. Sent(local[t].number) = {}
  BY <1>2 DEF SplitsInv, SplitsLeft
<1>7. NumbersApart'
  <2>1. \A u \in Tasks : pc'[u] # "idle" =>
          \/ u = d /\ local'[u].number = local[t].number
          \/ u # t /\ pc[u] # "idle" /\ local'[u].number = local[u].number
    BY <1>3, <1>4
  <2>2. pc[t] # "idle" /\ NumbersApart
    BY <1>2 DEF SplitsInv
  <2>3. \A u, v \in Tasks :
          /\ pc'[u] # "idle" /\ pc'[v] # "idle"
          /\ local'[u].number = local'[v].number
          => u = v
    BY <2>1, <2>2 DEF NumbersApart
  <2>4. /\ \A u \in Tasks : pc'[u] # "idle" => local'[u].number \in 1 .. received
        /\ \A i \in DOMAIN submitted : submitted[i].number \in 1 .. received
    BY <2>1, <2>2 DEF NumbersApart
  <2> QED
    BY <1>2, <2>3, <2>4 DEF NumbersApart
<1>8. SplitsLeft'
  <2> SUFFICES ASSUME NEW u \in Tasks, pc'[u] # "idle"
               PROVE  /\ pc'[u] = "saving" => NewSent(local'[u].number) = {}
                      /\ local'[u].left > 0 => local'[u].signal = "buy"
                      /\ Cardinality(NewSent(local'[u].number)) + local'[u].left
                           <= DcaSplits
                      /\ \A i \in NewSent(local'[u].number) :
                           submitted'[i].side = SideOf(local'[u].signal)
    BY DEF SplitsLeft, Spreading, Sent, NewSent
  <2>1. CASE u = d
    BY <1>1, <1>3, <1>4, <1>5, <1>6, <2>1, FS_EmptySet
  <2>2. CASE u # d
    <3>1. pc'[u] = pc[u] /\ local'[u] = local[u]
      BY <1>4, <2>2
    <3> QED
      BY <1>2, <1>5, <3>1 DEF SplitsInv, SplitsLeft, Spreading
  <2> QED
    BY <2>1, <2>2
<1>9. SplitsBounded'
  BY <1>2 DEF SplitsInv, SplitsBounded
<1> QED
  BY <1>1, <1>7, <1>8, <1>9 DEF SplitsInv

LEMMA TaskStepSplits ==
  ASSUME SplitsInv, TypeInv', NEW t \in Tasks, TaskStep(t)
  PROVE  SplitsInv'
<1>0. /\ TypeInv /\ pc \in [Tasks -> PcValues] /\ local \in [Tasks -> Locals]
      /\ local[t] \in Locals /\ clock \in Nat /\ DcaSplits \in Nat \ {0}
  BY SplitsInvTypes DEF TypeInv, TypeOK
<1>1. ASSUME NEW qty \in 0 .. Quantity(local[t].price), pc[t] = "saving",
             SubmitOrder(t, qty)
      PROVE  SplitsInv'
  <2> DEFINE l == [local[t] EXCEPT !.qty = qty, !.accepted = clock]
  <2>1. qty \in Nat
    BY <1>0, <1>1, QuantityNat DEF TypeInv, LocalsFitPc
  <2>2. /\ l \in Locals /\ l.number = local[t].number
        /\ l.signal = local[t].signal /\ l.left = local[t].left
    BY <1>0, <2>1 DEF Locals
  <2>3. CallBroker(t, l) /\ received' = received
    BY <1>1 DEF SubmitOrder
  <2> HIDE DEF l
  <2>4. l.left = 0
    BY <1>0, <1>1, <2>2 DEF TypeInv, LocalsFitPc, Spreading, Locals
  <2>5. Sent(l.number) = {} /\ Cardinality(Sent(l.number)) = 0
    BY <1>1, <2>2, FS_EmptySet DEF SplitsInv, SplitsLeft
  <2>6. Cardinality(Sent(l.number)) + 1 + l.left <= DcaSplits
    BY <1>0, <2>4, <2>5
  <2>7. ~(l.left > 0) /\ pc[t] # "idle"
    BY <1>1, <2>4
  <2> QED
    BY <2>2, <2>3, <2>5, <2>6, <2>7, RequestSplits
<1>2. CASE SubmitSplit(t)
  <2> DEFINE l == [local[t] EXCEPT !.left = @ - 1]
  <2>1. /\ local[t].left \in Nat /\ local[t].left - 1 \in Nat
        /\ local[t].left > 0 /\ pc[t] # "idle"
    BY <1>0, <1>2 DEF SubmitSplit, TypeInv, LocalsFitPc, Spreading, Locals
  <2>2. /\ l \in Locals /\ l.number = local[t].number
        /\ l.signal = local[t].signal /\ l.left = local[t].left - 1
    BY <1>0, <2>1 DEF Locals
  <2>3. CallBroker(t, l) /\ received' = received
    BY <1>2 DEF SubmitSplit
  <2> HIDE DEF l
  <2>4. /\ local[t].signal = "buy"
        /\ Cardinality(Sent(local[t].number)) + local[t].left <= DcaSplits
    BY <2>1 DEF SplitsInv, SplitsLeft, Spreading
  <2>5. Cardinality(Sent(local[t].number)) \in Nat
    BY <1>0, SentFinite
  <2>6. Cardinality(Sent(l.number)) + 1 + l.left <= DcaSplits
    BY <1>0, <2>1, <2>2, <2>4, <2>5
  <2> QED
    BY <2>1, <2>2, <2>3, <2>4, <2>6, RequestSplits
<1>3. CASE \/ SkipSignal(t) \/ RejectByRisk(t)
           \/ \E price \in ExecPrices : PlaceOrderReturns(t, price)
           \/ PlaceOrderRefused(t) \/ PlaceOrderRaises(t)
           \/ CommitOrder(t) \/ CommitRaises(t)
           \/ SaveFailedOrder(t) \/ SaveFailedOrderRaises(t)
           \/ DeliverFilled(t) \/ PublishReturns(t)
  <2> USE DEF SkipSignal, RejectByRisk, Accept, PlaceOrderReturns, PlaceOrderRefused,
              PlaceOrderRaises, CommitOrder, CommitRaises, SaveFailedOrder,
              SaveFailedOrderRaises, DeliverFilled, PublishReturns, Goto, Finish
  <2>1. received' = received
    BY <1>3
  <2>2. OrdersStay
    <3>1. CASE submitted' = submitted
      BY <3>1 DEF OrdersStay
    <3>2. CASE PlaceOrderRefused(t)
      <4> DEFINE n == local[t].sub
      <4>1. n \in DOMAIN submitted
        BY <1>0, <3>2 DEF TypeInv, LocalsFitPc
      <4>2. submitted[n] \in Submissions
        BY <1>0, <4>1, LedgerInvTypes
      <4>3. submitted' = [submitted EXCEPT ![n].status = "refused"]
        BY <3>2
      <4>4. submitted \in Seq(Submissions)
        BY <1>0 DEF TypeInv, TypeOK
      <4> QED
        BY <4>1, <4>2, <4>3, <4>4 DEF OrdersStay, Submissions
    <3> QED
      BY <1>3, <3>1, <3>2
  <2>3. \A u \in Tasks \ {t} : pc'[u] # "idle" => GoesOn(u)
    BY <1>0, <1>3 DEF GoesOn
  <2>4. pc'[t] # "idle" => GoesOn(t)
    <3>1. CASE \E price \in ExecPrices : PlaceOrderReturns(t, price)
      BY <1>0, <3>1 DEF GoesOn, Locals
    <3>2. CASE Finish(t)
      BY <1>0, <3>2
    <3>3. CASE local' = local /\ pc[t] # "idle" /\ pc'[t] # "saving"
      BY <3>3 DEF GoesOn
    <3> QED
      BY <1>0, <1>3, <3>1, <3>2, <3>3
  <2> QED
    BY <2>1, <2>2, <2>3, <2>4, SplitsKept
<1> QED
  BY <1>1, <1>2, <1>3, SpawnDcaSplits DEF TaskStep

LEMMA EnvironmentSplits ==
  ASSUME SplitsInv, TypeInv', Environment \/ UNCHANGED vars
  PROVE  SplitsInv'
<1>0. TypeInv /\ submitted \in Seq(Submissions)
  BY DEF SplitsInv, TypeInv, TypeOK
<1>1. ASSUME NEW n \in DOMAIN submitted, NEW filled \in 1 .. DefaultKrw,
             ExchangeFills(n, filled)
      PROVE  SplitsInv'
  <2>1. submitted[n] \in Submissions
    BY <1>0, LedgerInvTypes
  <2>2. OrdersStay
    BY <1>0, <1>1, <2>1 DEF ExchangeFills, OrdersStay, Submissions
  <2>3. UNCHANGED <<received, pc, local>>
    BY <1>1 DEF ExchangeFills, memory
  <2> QED
    BY <2>2, <2>3, SplitsKept DEF GoesOn
<1>2. CASE Tick \/ Exhausted \/ UNCHANGED vars
  <2>1. UNCHANGED <<received, pc, local, submitted>>
    BY <1>2 DEF Tick, Exhausted, memory, vars
  <2> QED
    BY <2>1, SplitsKept DEF GoesOn, OrdersStay
<1>3. CASE Crash
  BY <1>3, SplitsKept DEF Crash, OrdersStay
<1> QED
  BY <1>1, <1>2, <1>3, OnSignalSplits DEF Environment

LEMMA InitSplits == Init => SplitsInv
<1> SUFFICES ASSUME Init PROVE SplitsInv
  OBVIOUS
<1>1. TypeInv
  BY InitTypeInv
<1>2. /\ DOMAIN submitted = {} /\ \A t \in Tasks : pc[t] = "idle" /\ received = 0
  BY EmptySeq, LenProperties DEF Init
<1>3. 1 .. received = {}
  BY DEF Init
<1> QED
  BY <1>1, <1>2, <1>3
     DEF TypeInv, SplitsInv, NumbersApart, SplitsLeft, SplitsBounded

\* One signal never sends more orders than it was split into, for any number of
\* splits and of concurrent handlers: a signal has one task at a time, and what
\* that task has sent and has left to send never exceeds the number of splits
\* (order_manager.py:117-146).
THEOREM SplitsAreBounded == Spec => [](SplitsInv /\ SplitsBounded)
<1>1. SplitsInv /\ [Next]_vars => SplitsInv'
  <2> SUFFICES ASSUME SplitsInv, [Next]_vars PROVE SplitsInv'
    OBVIOUS
  <2>1. TypeInv'
    BY StepTypes DEF SplitsInv, TypeInv
  <2> QED
    BY <2>1, TaskStepSplits, EnvironmentSplits DEF Next
<1>2. SplitsInv => SplitsBounded
  BY DEF SplitsInv
<1> QED
  BY <1>1, <1>2, InitSplits, PTL DEF Spec
===============================================================================
