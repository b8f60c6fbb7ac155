--------------------------- MODULE Protection_proofs ---------------------------
(***************************************************************************)
(* Proofs about what protects the account.  PositionManager: positions     *)
(* keep their type, and an average price lies among the prices of its      *)
(* entry and explains its cost.  StopLossMonitor: an entry is sold at most *)
(* once.  RiskManager: what an approval guarantees and whose losses it     *)
(* counts.  DailyJobs: the same under the scheduler's jobs, and in how     *)
(* many reports a trade is counted.                                        *)
(***************************************************************************)
EXTENDS StopLossMonitor, DailyJobs, Decimals_proofs

-------------------------------------------------------------------------------
\* PositionManager and StopLossMonitor.

\* The average price lies between two prices the entry's buys paid.
Among(p, e) ==
  /\ \E low \in e.prices : low <= p.avgPrice
  /\ \E high \in e.prices : p.avgPrice <= high

\* What is held at the average price is the cost, but for the drift.
Explained(p, e) == 2 * Abs(p.avgPrice * p.quantity - e.cost) <= e.drift

\* A position that is open has such an entry; one that is not is Closed.
Sound(p, e) ==
  /\ p \in Position /\ e \in Entry
  /\ IF IsOpen(p) THEN Among(p, e) /\ Explained(p, e) ELSE p = Closed /\ e = NoEntry

LEMMA MeanBetween ==
  ASSUME NEW a \in Nat, NEW q \in Nat, NEW b \in Nat, NEW k \in Nat, q + k > 0,
         NEW low \in Nat, NEW high \in Nat,
         q > 0 => low <= a /\ a <= high, low <= b, b <= high
  PROVE  /\ RoundHalfEven(a * q + b * k, q + k) \in low .. high
         /\ a * q + b * k \in Nat
<1>1. /\ a * q \in Nat /\ b * k \in Nat /\ low * q \in Nat /\ low * k \in Nat
      /\ high * q \in Nat /\ high * k \in Nat /\ q + k \in Nat \ {0}
  OBVIOUS
<1>2. low * q <= a * q /\ a * q <= high * q
  OBVIOUS
<1>3. low * k <= b * k /\ b * k <= high * k
  OBVIOUS
<1>4. /\ (q + k) * low = low * q + low * k
      /\ (q + k) * high = high * q + high * k
  OBVIOUS
<1> DEFINE n == a * q + b * k
           d == q + k
<1>5. n \in Nat /\ d \in Nat \ {0} /\ d * low <= n /\ n <= d * high
  BY <1>1, <1>2, <1>3, <1>4
<1> HIDE DEF n, d
<1>6. low <= RoundHalfEven(n, d) /\ RoundHalfEven(n, d) <= high
  BY <1>5, RoundHalfEvenBetween
<1>7. RoundHalfEven(n, d) \in Nat
  BY <1>5, RoundHalfEvenNat
<1> QED
  BY <1>5, <1>6, <1>7 DEF n, d

\* The rounding of one more mean z of the values x and y adds half of d.
LEMMA DriftAdds ==
  ASSUME NEW x \in Nat, NEW y \in Nat, NEW z \in Nat, NEW d \in Nat,
         NEW c \in Int, NEW f \in Nat, 2 * Abs(x - c) <= f,
         2 * z <= 2 * (x + y) + d, 2 * (x + y) <= 2 * z + d
  PROVE  2 * Abs(z - (c + y)) <= f + d
BY DEF Abs

\* A buy of something leaves a sound position.
LEMMA BuySound ==
  ASSUME NEW p, NEW e, Sound(p, e), NEW qty \in FillQtys \ {0}, NEW price \in FillPrices
  PROVE  Sound(BuyInto(p, qty, price),
               EntryAfter(e, p, BuyInto(p, qty, price), "buy", qty, price))
<1> DEFINE a == p.avgPrice
           q == p.quantity
           held == q + qty
           n == a * q + price * qty
           mean == RoundHalfEven(n, held)
           new == Paid(e, qty, price, held)
<1>1. /\ a \in Nat /\ q \in Nat /\ qty \in Nat \ {0} /\ price \in Nat
      /\ held \in Nat \ {0} /\ a * q \in Nat /\ price * qty \in Nat /\ n \in Nat
      /\ e.prices \subseteq FillPrices /\ e.cost \in Int /\ e.drift \in Nat
      /\ q > 0 => Among(p, e)
  BY PositionManagerAssumption DEF Sound, Position, Entry, IsOpen
<1>2. BuyInto(p, qty, price) = [quantity |-> held, avgPrice |-> mean]
  BY <1>1 DEF BuyInto
<1>3. EntryAfter(e, p, BuyInto(p, qty, price), "buy", qty, price) = new
  <2> HIDE DEF held, mean
  <2>1. IsOpen(BuyInto(p, qty, price)) /\ BuyInto(p, qty, price).quantity = held
    BY <1>1, <1>2 DEF IsOpen
  <2>2. qty > 0
    BY <1>1
  <2> QED
    BY <2>1, <2>2 DEF EntryAfter
<1>4. new = [prices |-> e.prices \cup {price}, cost |-> e.cost + price * qty,
             drift |-> e.drift + held]
  BY DEF Paid
<1> DEFINE paid == e.prices \cup {price}
<1>5. PICK low \in paid, high \in paid :
        /\ q > 0 => low <= a /\ a <= high
        /\ low <= price /\ price <= high
  <2>0. a \in Nat /\ q \in Nat /\ price \in Nat /\ e.prices \subseteq Nat
    BY <1>1, PositionManagerAssumption
  <2>1. CASE q = 0
    <3> WITNESS price \in paid, price \in paid
    <3> HIDE DEF a, q
    <3> QED
      BY <2>0, <2>1
  <2>2. CASE q > 0
    <3>1. PICK l \in e.prices, h \in e.prices : l <= a /\ a <= h
      BY <1>1, <2>2 DEF Among
    <3>2. l \in Nat /\ h \in Nat
      BY <2>0
    <3> WITNESS (IF l <= price THEN l ELSE price) \in paid,
                (IF price <= h THEN h ELSE price) \in paid
    <3> HIDE DEF a, q
    <3> QED
      BY <2>0, <3>1, <3>2
  <2> QED
    BY <2>0, <2>1, <2>2
<1>6. paid \subseteq FillPrices /\ low \in Nat /\ high \in Nat
  BY <1>1, PositionManagerAssumption
<1>7. mean \in Nat /\ low <= mean /\ mean <= high
  <2> HIDE DEF a, q
  <2>0. a \in Nat /\ q \in Nat /\ price \in Nat /\ qty \in Nat /\ q + qty > 0
    BY <1>1
  <2>1. mean \in low .. high
    BY <1>5, <1>6, <2>0, MeanBetween
  <2> HIDE DEF mean, new
  <2> QED
    BY <1>6, <2>1
<1>8. 2 * Abs(a * q - e.cost) <= e.drift
  <2>1. CASE q > 0
    BY <1>1, <2>1 DEF Sound, IsOpen, Explained
  <2>2. CASE q = 0
    <3>1. e.cost = 0 /\ e.drift = 0 /\ a * q = 0
      BY <1>1, <2>2 DEF Sound, IsOpen, NoEntry
    <3> QED
      BY <3>1 DEF Abs
  <2> QED
    BY <1>1, <2>1, <2>2
<1>9. 2 * Abs(mean * held - (e.cost + price * qty)) <= e.drift + held
  <2> DEFINE z == held * mean
  <2>1. 2 * z <= 2 * n + held /\ 2 * n <= 2 * z + held
    BY <1>1, RoundHalfEvenError
  <2>2. z \in Nat /\ z = mean * held
    <3> HIDE DEF mean, held
    <3> QED
      BY <1>1, <1>7
  <2> DEFINE x == a * q
             y == price * qty
  <2>3. /\ x \in Nat /\ y \in Nat /\ n = x + y
        /\ 2 * Abs(x - e.cost) <= e.drift
    BY <1>1, <1>8
  <2> HIDE DEF z, x, y, n, held, mean
  <2>4. 2 * Abs(z - (e.cost + y)) <= e.drift + held
    BY <1>1, <2>1, <2>2, <2>3, DriftAdds
  <2> QED
    BY <2>2, <2>4 DEF y
<1> HIDE DEF held, mean, new
<1>10. /\ [quantity |-> held, avgPrice |-> mean] \in Position /\ new \in Entry
       /\ new.prices = paid
  BY <1>1, <1>4, <1>6, <1>7 DEF Position, Entry
<1> QED
  BY <1>1, <1>2, <1>3, <1>4, <1>5, <1>7, <1>9, <1>10
     DEF Sound, IsOpen, Among, Explained

\* A buy of nothing changes nothing.
LEMMA BuyOfNothing ==
  ASSUME NEW p, NEW e, Sound(p, e), 0 \in FillQtys, NEW price \in FillPrices
  PROVE  /\ BuyInto(p, 0, price) = p
         /\ EntryAfter(e, p, p, "buy", 0, price) = e
<1> DEFINE a == p.avgPrice
           q == p.quantity
<1>1. /\ a \in Nat /\ q \in Nat /\ price \in Nat /\ q + 0 = q
      /\ p = [quantity |-> q, avgPrice |-> a]
  BY PositionManagerAssumption DEF Sound, Position
<1>2. CASE q = 0
  <2>1. p = Closed /\ e = NoEntry /\ ~IsOpen(p)
    BY <1>1, <1>2 DEF Sound, IsOpen
  <2> QED
    BY <1>1, <1>2, <2>1 DEF BuyInto, Closed, EntryAfter
<1>3. CASE q > 0
  <2>1. RoundHalfEven(a * q, q) = a
    <3> DEFINE n == a * q
               m == RoundHalfEven(n, q)
    <3>1. n \in Nat /\ q \in Nat \ {0} /\ q * a = n
      BY <1>1, <1>3
    <3>2. a <= m /\ m <= a /\ m \in Nat
      BY <1>1, <3>1, RoundHalfEvenBetween, RoundHalfEvenNat
    <3> HIDE DEF m
    <3>3. m = a
      BY <1>1, <3>2
    <3> QED
      BY <3>3 DEF m
  <2>2. RoundHalfEven(a * q + price * 0, q + 0) = a
    <3>1. a * q + price * 0 = a * q /\ q + 0 = q
      BY <1>1
    <3> QED
      BY <2>1, <3>1
  <2>3. BuyInto(p, 0, price) = [quantity |-> q + 0,
                                avgPrice |-> RoundHalfEven(a * q + price * 0, q + 0)]
    BY <1>1, <1>3 DEF BuyInto
  <2>4. IsOpen(p)
    BY <1>1, <1>3 DEF IsOpen
  <2> QED
    BY <1>1, <2>2, <2>3, <2>4 DEF EntryAfter
<1> QED
  BY <1>1, <1>2, <1>3

\* A sell, even of more than is held, leaves a sound position: it takes its
\* share out of both sides.
LEMMA SellSound ==
  ASSUME NEW p, NEW e, Sound(p, e), NEW qty \in FillQtys, NEW price \in FillPrices
  PROVE  Sound(SellFrom(p, qty), EntryAfter(e, p, SellFrom(p, qty), "sell", qty, price))
<1>1. p \in Position /\ e \in Entry /\ qty \in Nat
  BY PositionManagerAssumption DEF Sound
<1>2. CASE p.quantity > qty
  <2> DEFINE r == SellFrom(p, qty)
             f == [e EXCEPT !.cost = @ - p.avgPrice * qty]
  <2>1. /\ r \in Position
        /\ r.quantity = p.quantity - qty /\ r.avgPrice = p.avgPrice
    BY <1>1, <1>2 DEF SellFrom, Position
  <2>2. IsOpen(p) /\ IsOpen(r) /\ EntryAfter(e, p, r, "sell", qty, price) = f
    BY <1>1, <1>2, <2>1 DEF EntryAfter, IsOpen, Position
  <2>3. /\ p.avgPrice * qty \in Int /\ p.avgPrice * p.quantity \in Int
        /\ p.avgPrice * (p.quantity - qty) = p.avgPrice * p.quantity - p.avgPrice * qty
    BY <1>1 DEF Position
  <2>4. f \in Entry /\ f.prices = e.prices /\ f.drift = e.drift
        /\ f.cost = e.cost - p.avgPrice * qty
    BY <1>1, <2>3 DEF Entry
  <2>5. r.avgPrice * r.quantity - f.cost = p.avgPrice * p.quantity - e.cost
    <3> DEFINE x == p.avgPrice * p.quantity
               y == p.avgPrice * qty
    <3>1. x \in Int /\ y \in Int /\ e.cost \in Int /\ f.cost = e.cost - y
          /\ r.avgPrice * r.quantity = x - y
      BY <1>1, <2>1, <2>3, <2>4 DEF Entry
    <3> HIDE DEF x, y, f, r
    <3>2. (x - y) - (e.cost - y) = x - e.cost
      BY <3>1
    <3> QED
      BY <3>1, <3>2 DEF x
  <2> HIDE DEF r, f
  <2>6. Among(p, e) /\ Explained(p, e)
    BY <2>2 DEF Sound
  <2> QED
    BY <2>1, <2>2, <2>4, <2>5, <2>6 DEF Sound, Among, Explained, r
<1>3. CASE ~(p.quantity > qty)
  <2>1. SellFrom(p, qty) = Closed /\ ~IsOpen(Closed)
    BY <1>3 DEF SellFrom, Closed, IsOpen
  <2>2. EntryAfter(e, p, Closed, "sell", qty, price) = NoEntry
    BY <2>1 DEF EntryAfter
  <2> QED
    BY <2>1, <2>2 DEF Sound, Closed, NoEntry, Position, Entry
<1> QED
  BY <1>2, <1>3

PositionsSound ==
  /\ positions = [s \in Symbols |-> positions[s]]
  /\ entries = [s \in Symbols |-> entries[s]]
  /\ \A s \in Symbols : Sound(positions[s], entries[s])

LEMMA InitPositions == PositionInit => PositionsSound
  BY DEF PositionInit, PositionsSound, Sound, Closed, NoEntry, IsOpen, Position, Entry

LEMMA NextPositions ==
  ASSUME PositionsSound, [PositionNext]_<<positions, entries>>
  PROVE  PositionsSound'
<1>1. ASSUME NEW s \in Symbols, NEW side \in {"buy", "sell"}, NEW qty \in FillQtys,
             NEW price \in FillPrices, OnOrderFilled(s, side, qty, price),
             RecordEntry(s, side, qty, price)
      PROVE  PositionsSound'
  <2> DEFINE p == IF side = "buy" THEN BuyInto(positions[s], qty, price)
                                  ELSE SellFrom(positions[s], qty)
             e == EntryAfter(entries[s], positions[s], p, side, qty, price)
  <2>1. Sound(p, e)
    <3>1. Sound(positions[s], entries[s])
      BY DEF PositionsSound
    <3>2. CASE side = "sell"
      BY <3>1, <3>2, SellSound
    <3>3. CASE side = "buy" /\ qty # 0
      BY <3>1, <3>3, BuySound
    <3>4. CASE side = "buy" /\ qty = 0
      <4>1. p = positions[s] /\ e = entries[s]
        BY <3>1, <3>4, BuyOfNothing
      <4> QED
        BY <3>1, <4>1
    <3> QED
      BY <1>1, <3>2, <3>3, <3>4
  <2>2. positions' = [positions EXCEPT ![s] = p]
    BY <1>1 DEF OnOrderFilled
  <2>3. positions'[s] = p
    BY <2>2 DEF PositionsSound
  <2>4. entries' = [entries EXCEPT ![s] = e]
    BY <1>1, <2>3 DEF RecordEntry
  <2> HIDE DEF p, e
  <2> QED
    BY <2>1, <2>2, <2>4 DEF PositionsSound
<1>2. CASE UNCHANGED <<positions, entries>>
  BY <1>2 DEF PositionsSound
<1> QED
  BY <1>1, <1>2 DEF PositionNext

LEMMA SoundPositions ==
  PositionsSound => PositionTypeOK /\ AveragePriceAmongPrices /\ AverageExplainsCost
  BY DEF PositionsSound, PositionTypeOK, AveragePriceAmongPrices, AverageExplainsCost,
         Sound, Among, Explained

\* Positions keep their type, and the average price of an open position always
\* lies among the prices its own buys paid: no mix of buys, sells and roundings
\* drifts out of them (position.py:50-72).
THEOREM AveragePriceSound == PositionSpec => [](PositionTypeOK /\ AveragePriceAmongPrices)
  BY InitPositions, NextPositions, SoundPositions, PTL DEF PositionSpec

\* After any mix of buys and sells the average price times the quantity is what
\* the entry cost, but for half a unit of price for each unit held at each buy
\* (position.py:61-68).
THEOREM CostIsExplained == PositionSpec => []AverageExplainsCost
  BY InitPositions, NextPositions, SoundPositions, PTL DEF PositionSpec

-------------------------------------------------------------------------------
\* The monitor.

\* What makes OneSellPerEntry inductive: the one signal an entry has had is
\* remembered in _triggered.
FiredOnce ==
  /\ fired \in [Symbols -> Nat]
  /\ \A s \in Symbols :
       IsOpen(positions[s]) =>
         fired[s] = 0 \/ (fired[s] = 1 /\ s \in triggered)

LEMMA InitMonitor == MonitorInit => PositionsSound /\ FiredOnce /\ triggered \subseteq Symbols
  BY InitPositions DEF MonitorInit, FiredOnce

LEMMA NextFiredOnce == FiredOnce /\ [MonitorNext]_monitorVars => FiredOnce'
<1> SUFFICES ASSUME FiredOnce, [MonitorNext]_monitorVars PROVE FiredOnce'
  OBVIOUS
<1>1. ASSUME NEW s \in Symbols, Rearm(s), positions' = positions
      PROVE  FiredOnce'
  BY <1>1 DEF FiredOnce, Rearm
<1>2. ASSUME NEW s \in Symbols, NEW price \in TickPrices, Hold(s, price),
             positions' = positions
      PROVE  FiredOnce'
  BY <1>2 DEF FiredOnce, Hold
<1>3. ASSUME NEW s \in Symbols, NEW price \in TickPrices, Trigger(s, price),
             positions' = positions
      PROVE  FiredOnce'
  BY <1>3 DEF FiredOnce, Trigger
<1>4. CASE Fill
  BY <1>4 DEF FiredOnce, Fill, CountEntries
<1>5. CASE UNCHANGED monitorVars
  BY <1>5 DEF FiredOnce, monitorVars
<1> QED
  BY <1>1, <1>2, <1>3, <1>4, <1>5 DEF MonitorNext, OnPriceUpdated

\* However ticks and fills interleave, the monitor publishes at most one SELL
\* signal for an entry (stop_loss.py:56-90).
THEOREM EntrySoldOnce == MonitorSpec => []OneSellPerEntry
<1>1. FiredOnce => OneSellPerEntry
  BY DEF FiredOnce, OneSellPerEntry
<1> QED
  BY <1>1, InitMonitor, NextFiredOnce, PTL DEF MonitorSpec

\* Positions, _triggered and the signal counts keep their types under the
\* monitor's ticks and the fills it causes (stop_loss.py:45-90).
THEOREM MonitorTypes == MonitorSpec => []MonitorTypeOK
<1>1. PositionsSound /\ [MonitorNext]_monitorVars => PositionsSound'
  BY NextPositions DEF MonitorNext, OnPriceUpdated, Fill, monitorVars
<1>2. triggered \subseteq Symbols /\ [MonitorNext]_monitorVars => (triggered \subseteq Symbols)'
  BY DEF MonitorNext, OnPriceUpdated, Rearm, Hold, Trigger, Fill, monitorVars
<1>3. PositionsSound /\ FiredOnce /\ triggered \subseteq Symbols => MonitorTypeOK
  BY SoundPositions DEF PositionsSound, Sound, FiredOnce, MonitorTypeOK
<1> QED
  BY <1>1, <1>2, <1>3, InitMonitor, NextFiredOnce, PTL DEF MonitorSpec

-------------------------------------------------------------------------------
\* RiskManager and DailyJobs.

Decisions ==
  [side : {"none", "buy", "sell"}, qty : Nat, price : Nat, approved : BOOLEAN,
   position : [quantity : Nat, avgPrice : Nat], krw : Nat, loss : Nat]

LEMMA DateMonotone ==
  ASSUME NEW h \in Nat
  PROVE  /\ Date(h) \in Nat
         /\ Date(h) <= Date(h + 1)
  BY DivMod, RiskManagerAssumption DEF Date

\* The reduced quantity is worth at most the limit and half a unit.
LEMMA AdjustedQtyBounded ==
  ASSUME NEW qty \in Nat, NEW price \in Nat \ {0}
  PROVE  /\ AdjustedQty(qty, price) \in Nat
         /\ 2 * (AdjustedQty(qty, price) * price) <= 2 * MaxOrderKrw + price
<1>1. MaxOrderKrw \in Nat
  BY RiskRulesAssumption
<1>2. CASE qty * price > MaxOrderKrw
  <2> DEFINE r == RoundHalfEven(MaxOrderKrw, price)
  <2>1. r \in Nat /\ 2 * (price * r) <= 2 * MaxOrderKrw + price
    BY <1>1, RoundHalfEvenNat, RoundHalfEvenError
  <2>2. AdjustedQty(qty, price) = r
    BY <1>2 DEF AdjustedQty
  <2> HIDE DEF r
  <2>3. price * r = r * price
    BY <2>1
  <2> QED
    BY <2>1, <2>2, <2>3
<1>3. CASE ~(qty * price > MaxOrderKrw)
  <2>1. AdjustedQty(qty, price) = qty /\ qty * price \in Nat
    BY <1>3 DEF AdjustedQty
  <2> QED
    BY <1>1, <1>3, <2>1
<1> QED
  BY <1>2, <1>3

\* The counter in memory belongs to a date that has begun, and holds losses of
\* that date alone.
RiskInv ==
  /\ TypeOK
  /\ lossResetDate <= Date(hour)
  /\ NoStaleLoss
  /\ ApprovedWithinLimits

LEMMA InitRisk == Init => RiskInv
<1> SUFFICES ASSUME Init PROVE RiskInv
  OBVIOUS
<1>1. hour \in Nat
  BY RiskManagerAssumption DEF Init
<1>2. Date(hour) \in Nat
  BY <1>1, DateMonotone
<1> QED
  BY <1>1, <1>2
     DEF Init, RiskInv, TypeOK, NoDecision, NoStaleLoss, LossToday,
         ApprovedWithinLimits

LEMMA CheckRisk ==
  ASSUME RiskInv, NEW side \in {"buy", "sell"}, NEW qty \in Quantities,
         NEW price \in Prices, NEW pos \in Positions, NEW krw \in Balances,
         Check(side, qty, price, pos, krw)
  PROVE  RiskInv'
<1> DEFINE q == AdjustedQty(qty, price)
           ok == Approves(side, qty, price, pos, krw, LossToday)
<1>1. /\ hour \in Nat /\ dailyLoss \in Nat /\ lostUtcDay \in Nat
      /\ qty \in Nat /\ price \in Nat \ {0} /\ krw \in Nat
      /\ pos \in [quantity : Nat, avgPrice : Nat]
  BY RiskManagerAssumption DEF RiskInv, TypeOK
<1>2. LossToday \in Nat /\ LossToday <= lostUtcDay /\ Date(hour) \in Nat
  BY <1>1, DateMonotone DEF RiskInv, LossToday, NoStaleLoss
<1>3. /\ dailyLoss' = LossToday /\ lossResetDate' = Date(hour)
      /\ UNCHANGED <<hour, lostUtcDay>>
      /\ decision' = [side |-> side, qty |-> q, price |-> price, approved |-> ok,
                      position |-> pos, krw |-> krw, loss |-> LossToday]
  BY DEF Check, ResetIfNeeded
<1>4. q \in Nat /\ 2 * (q * price) <= 2 * MaxOrderKrw + price
  BY <1>1, AdjustedQtyBounded
<1>5. ok \in BOOLEAN
  BY DEF Approves
<1>6. TypeOK'
  <2> HIDE DEF q, ok
  <2> QED
    BY <1>1, <1>2, <1>3, <1>4, <1>5 DEF TypeOK
<1>7. lossResetDate' <= Date(hour)' /\ NoStaleLoss'
  BY <1>1, <1>2, <1>3 DEF NoStaleLoss, LossToday, Date
<1>8. ApprovedWithinLimits'
  <2> DEFINE pnl == (price - pos.avgPrice) * pos.quantity
  <2>1. ASSUME ok, side = "sell", pnl < 0
        PROVE  LossToday - pnl <= MaxDailyLossKrw
    <3>1. pos.quantity > 0
      BY <1>1, <2>1
    <3> HIDE DEF q
    <3>2. ~ExceedsDailyLoss(pos, price, LossToday)
      BY <2>1 DEF Approves
    <3>3. pnl \in Int
      BY <1>1
    <3> QED
      BY <1>2, <2>1, <3>1, <3>2, <3>3, RiskRulesAssumption DEF ExceedsDailyLoss
  <2>2. ASSUME ok, side = "buy", q * price > 0
        PROVE  q * price * RatioDen <= RatioNum * (krw + q * price)
    <3>1. ~ExceedsRatio(q * price, krw)
      BY <2>2 DEF Approves
    <3> DEFINE value == q * price
    <3>2. value \in Nat
      BY <1>1, <1>4
    <3>3. ~ExceedsRatio(value, krw) /\ value > 0
      BY <2>2, <3>1
    <3> HIDE DEF value
    <3>4. value * RatioDen \in Int /\ RatioNum * (krw + value) \in Int
      BY <1>1, <3>2, RiskRulesAssumption
    <3>5. value * RatioDen <= RatioNum * (krw + value)
      BY <1>1, <3>2, <3>3, <3>4 DEF ExceedsRatio
    <3> QED
      BY <3>5 DEF value
  <2> HIDE DEF q, ok
  <2> QED
    BY <1>3, <1>4, <2>1, <2>2 DEF ApprovedWithinLimits
<1> QED
  BY <1>6, <1>7, <1>8 DEF RiskInv

LEMMA NextHourRisk ==
  ASSUME RiskInv, NextHour,
         \/ dailyLoss' = dailyLoss /\ lossResetDate' = lossResetDate
         \/ dailyLoss' = 0 /\ lossResetDate' = Date(hour')
  PROVE  RiskInv'
<1>1. /\ hour \in Nat /\ dailyLoss \in Nat /\ lossResetDate \in Nat
      /\ lostUtcDay \in Nat /\ hour' = hour + 1
      /\ lossResetDate <= Date(hour)
  BY DEF RiskInv, TypeOK, NextHour
<1>2. Date(hour) \in Nat /\ Date(hour') \in Nat /\ Date(hour) <= Date(hour')
  BY <1>1, DateMonotone
<1>3. TypeOK'
  BY <1>1, <1>2 DEF RiskInv, TypeOK, NextHour
<1>4. lossResetDate' <= Date(hour')
  BY <1>1, <1>2
<1>5. LossToday' <= lostUtcDay'
  <2>1. lostUtcDay' \in Nat
    BY <1>3 DEF TypeOK
  <2>2. CASE dailyLoss' = 0
    BY <2>1, <2>2 DEF LossToday
  <2>3. CASE UNCHANGED <<dailyLoss, lossResetDate>> /\ Date(hour') # Date(hour)
    <3>1. Date(hour') # lossResetDate'
      BY <1>1, <1>2, <2>3
    <3> QED
      BY <2>1, <3>1 DEF LossToday, Date
  <2>4. CASE UNCHANGED <<dailyLoss, lossResetDate>> /\ Date(hour') = Date(hour)
    BY <2>4 DEF LossToday, RiskInv, NoStaleLoss, NextHour, Date
  <2> QED
    BY <2>2, <2>3, <2>4
<1>6. ApprovedWithinLimits'
  BY DEF RiskInv, ApprovedWithinLimits, NextHour
<1> QED
  BY <1>3, <1>4, <1>5, <1>6 DEF RiskInv, NoStaleLoss, Date

LEMMA RecordLossRisk ==
  ASSUME RiskInv, NEW amount \in Losses, RecordLoss(amount)
  PROVE  RiskInv'
<1>1. amount \in Nat
  BY RiskManagerAssumption
<1>2. /\ dailyLoss \in Nat /\ lostUtcDay \in Nat
      /\ LossToday <= lostUtcDay
  BY DEF RiskInv, TypeOK, NoStaleLoss
<1>3. LossToday' <= lostUtcDay'
  BY <1>1, <1>2 DEF LossToday, RecordLoss
<1>4. TypeOK'
  BY <1>1 DEF RiskInv, TypeOK, RecordLoss
<1>5. ApprovedWithinLimits' /\ lossResetDate' <= Date(hour')
  BY DEF RiskInv, ApprovedWithinLimits, RecordLoss, Date
<1> QED
  BY <1>3, <1>4, <1>5 DEF RiskInv, NoStaleLoss, Date

LEMMA NextRisk == RiskInv /\ [Next]_vars => RiskInv'
<1> SUFFICES ASSUME RiskInv, [Next]_vars PROVE RiskInv'
  OBVIOUS
<1>1. CASE UNCHANGED vars
  BY <1>1 DEF RiskInv, TypeOK, NoStaleLoss, LossToday, ApprovedWithinLimits,
              vars, Date
<1>2. ASSUME NEW side \in {"buy", "sell"}, NEW qty \in Quantities,
             NEW price \in Prices, NEW pos \in Positions, NEW krw \in Balances,
             Check(side, qty, price, pos, krw)
      PROVE  RiskInv'
  BY <1>2, CheckRisk
<1>3. ASSUME NEW amount \in Losses, RecordLoss(amount)
      PROVE  RiskInv'
  BY <1>3, RecordLossRisk
<1>4. CASE ResetDailyLoss
  BY <1>4, NextHourRisk DEF ResetDailyLoss
<1>5. CASE Tick
  BY <1>5, NextHourRisk DEF Tick
<1> QED
  BY <1>1, <1>2, <1>3, <1>4, <1>5 DEF Next

\* An approval is a guarantee about the quantity that is sent, for every limit,
\* price and balance: the order is worth at most max_order_krw and half a unit,
\* a losing sell stays within the daily loss, a buy within its share of the
\* available balance (risk.py:58-110); and the counter behind it never holds a
\* loss of an earlier date, with or without the midnight job (risk.py:118-128).
THEOREM ApprovalsSound == Spec => [](TypeOK /\ ApprovedWithinLimits /\ NoStaleLoss)
<1>1. RiskInv => TypeOK /\ ApprovedWithinLimits /\ NoStaleLoss
  BY DEF RiskInv
<1> QED
  BY <1>1, InitRisk, NextRisk, PTL DEF Spec

-------------------------------------------------------------------------------
\* The jobs.

\* A report counted the trade at an hour that is not after the present one.
CountedInv ==
  reports = 0 \/ /\ reports = 1 /\ traded # Never
                 /\ \E h \in 0 .. hour : h % HoursPerDay = ReportHour /\ Counts(h)

JobsInv == RiskInv /\ JobsTypeOK /\ CountedInv

-------------------------------------------------------------------------------
\* Hours and days.

LEMMA Hours ==
  /\ HoursPerDay \in Nat \ {0}
  /\ KstOffset \in Nat /\ 1 <= KstOffset /\ KstOffset < HoursPerDay
  /\ ReportHour \in Nat
BY RiskManagerAssumption, DailyJobsAssumption

LEMMA IntDivMod ==
  ASSUME NEW n \in Int, NEW d \in Nat \ {0}
  PROVE  /\ n \div d \in Int
         /\ n % d \in 0 .. d - 1
         /\ n = d * (n \div d) + (n % d)
OBVIOUS

\* The day and the hour of the day of a moment that is not before the first.
LEMMA DayOf ==
  ASSUME NEW n \in Nat
  PROVE  /\ n \div HoursPerDay \in Nat
         /\ n % HoursPerDay \in 0 .. HoursPerDay - 1
         /\ n = HoursPerDay * (n \div HoursPerDay) + (n % HoursPerDay)
BY DivMod, Hours

\* Which multiple of d a number lies above is unique.
LEMMA QuotientUnique ==
  ASSUME NEW d \in Nat \ {0}, NEW p \in Int, NEW q \in Int,
         NEW r \in 0 .. d - 1, NEW s \in 0 .. d - 1, d * p + r = d * q + s
  PROVE  p = q
<1>1. ASSUME NEW a \in Int, NEW b \in Int, NEW e \in 0 .. d - 1, NEW f \in 0 .. d - 1,
             d * a + e = d * b + f, a + 1 <= b
      PROVE  FALSE
  <2>1. d * (a + 1) <= d * b
    BY <1>1
  <2>2. d * (a + 1) = d * a + d /\ d * a \in Int /\ d * b \in Int
    OBVIOUS
  <2> QED
    BY <1>1, <2>1, <2>2
<1>2. ~(p + 1 <= q) /\ ~(q + 1 <= p)
  BY <1>1
<1> QED
  BY <1>2

\* The window of the report at hour h is the UTC day two before its KST day.
LEMMA WindowDay ==
  ASSUME NEW h \in Nat
  PROVE  KstDay(h) \in Nat /\ Date(TargetUtc(h)) = KstDay(h) - 2
<1> DEFINE k == KstDay(h)
           u == TargetUtc(h)
<1>1. k \in Nat
  BY Hours, DivMod DEF KstDay
<1> HIDE DEF k
<1>2. u = (k - 1) * HoursPerDay - KstOffset
  BY DEF TargetUtc, k
<1>3. (k - 1) * HoursPerDay = HoursPerDay * (k - 2) + HoursPerDay
      /\ HoursPerDay * (k - 2) \in Int
  BY <1>1, Hours
<1>4. u = HoursPerDay * (k - 2) + (HoursPerDay - KstOffset)
  BY <1>2, <1>3, Hours
<1>5. HoursPerDay - KstOffset \in 0 .. HoursPerDay - 1 /\ k - 2 \in Int /\ u \in Int
  BY <1>1, <1>3, <1>4, Hours
<1> HIDE DEF u
<1>6. /\ u \div HoursPerDay \in Int /\ u % HoursPerDay \in 0 .. HoursPerDay - 1
      /\ u = HoursPerDay * (u \div HoursPerDay) + (u % HoursPerDay)
  BY <1>5, Hours, IntDivMod
<1> DEFINE p == u \div HoursPerDay
           r == u % HoursPerDay
<1> HIDE DEF p, r
<1>7. /\ p \in Int /\ r \in 0 .. HoursPerDay - 1
      /\ HoursPerDay * p + r = HoursPerDay * (k - 2) + (HoursPerDay - KstOffset)
  BY <1>4, <1>6 DEF p, r
<1>8. p = k - 2
  BY <1>5, <1>7, Hours, QuotientUnique
<1> QED
  BY <1>1, <1>8 DEF p, k, u, Date

\* Two hours at which the report runs are a day apart, so their KST days differ.
LEMMA ReportsADayApart ==
  ASSUME NEW h \in Nat, NEW g \in Nat, h < g, h % HoursPerDay = g % HoursPerDay
  PROVE  KstDay(h) < KstDay(g)
<1> DEFINE a == h \div HoursPerDay
           b == g \div HoursPerDay
           r == h % HoursPerDay
           p == KstDay(h)
           q == KstDay(g)
           s == (h + KstOffset) % HoursPerDay
           t == (g + KstOffset) % HoursPerDay
<1>1. /\ a \in Nat /\ b \in Nat /\ r \in Nat
      /\ h = HoursPerDay * a + r /\ g = HoursPerDay * b + r
  <2>1. /\ h \div HoursPerDay \in Nat /\ h % HoursPerDay \in Nat
        /\ h = HoursPerDay * (h \div HoursPerDay) + (h % HoursPerDay)
    BY Hours, DayOf
  <2>2. /\ g \div HoursPerDay \in Nat
        /\ g = HoursPerDay * (g \div HoursPerDay) + (g % HoursPerDay)
    BY Hours, DayOf
  <2> QED
    BY <2>1, <2>2
<1>2. /\ p \in Nat /\ q \in Nat /\ s \in 0 .. HoursPerDay - 1 /\ t \in 0 .. HoursPerDay - 1
      /\ h + KstOffset = HoursPerDay * p + s /\ g + KstOffset = HoursPerDay * q + t
  <2>1. h + KstOffset \in Nat /\ g + KstOffset \in Nat
    BY Hours
  <2>2. p \in Nat /\ s \in 0 .. HoursPerDay - 1 /\ h + KstOffset = HoursPerDay * p + s
    BY <2>1, DayOf DEF KstDay
  <2>3. q \in Nat /\ t \in 0 .. HoursPerDay - 1 /\ g + KstOffset = HoursPerDay * q + t
    BY <2>1, DayOf DEF KstDay
  <2> QED
    BY <2>2, <2>3
<1> HIDE DEF a, b, r, p, q, s, t
<1>3. HoursPerDay * a \in Nat /\ HoursPerDay * b \in Nat
      /\ HoursPerDay * p \in Nat /\ HoursPerDay * q \in Nat
  BY <1>1, <1>2, Hours
<1>4. a + 1 <= b
  <2>1. ASSUME b <= a PROVE FALSE
    <3>1. HoursPerDay * b <= HoursPerDay * a
      BY <1>1, <2>1, Hours
    <3> QED
      BY <1>1, <1>3, <3>1
  <2> QED
    BY <1>1, <2>1
<1>5. h + HoursPerDay <= g
  <2>1. HoursPerDay * (a + 1) <= HoursPerDay * b
    BY <1>1, <1>4, Hours
  <2>2. HoursPerDay * (a + 1) = HoursPerDay * a + HoursPerDay
    BY <1>1, Hours
  <2> QED
    BY <1>1, <1>3, <2>1, <2>2, Hours
<1>6. ASSUME q <= p PROVE FALSE
  <2>1. HoursPerDay * q <= HoursPerDay * p
    BY <1>2, <1>6, Hours
  <2> QED
    BY <1>2, <1>3, <1>5, <2>1, Hours
<1> QED
  BY <1>2, <1>6 DEF p, q

-------------------------------------------------------------------------------
\* The steps.

LEMMA JobsInitHolds == JobsInit => JobsInv
<1> SUFFICES ASSUME JobsInit PROVE JobsInv
  OBVIOUS
<1>1. RiskInv
  BY InitRisk DEF JobsInit
<1>2. JobsTypeOK /\ CountedInv
  BY <1>1 DEF JobsInit, JobsTypeOK, CountedInv, RiskInv
<1> QED
  BY <1>1, <1>2 DEF JobsInv

\* The jobs and the trade are steps of RiskManager, or none.
LEMMA JobsAreRiskSteps == JobsNext => [Next]_vars
BY DEF JobsNext, HourPasses, Trading, TradeCommitted, Next

LEMMA GenerateHolds ==
  ASSUME JobsInv, hour' = hour + 1, hour' % HoursPerDay = ReportHour, Generate(hour')
  PROVE  CountedInv'
<1>1. hour \in Nat /\ traded' = traded
  BY DEF JobsInv, RiskInv, TypeOK, Generate
<1>2. CASE traded # Never /\ Counts(hour')
  <2>1. ASSUME NEW h \in 0 .. hour, h % HoursPerDay = ReportHour, Counts(h)
        PROVE  FALSE
    <3>1. h \in Nat /\ hour' \in Nat /\ h < hour'
      BY <1>1
    <3>2. Date(traded) = KstDay(h) - 2 /\ Date(traded) = KstDay(hour') - 2
      BY <1>2, <2>1, <3>1, WindowDay DEF Counts
    <3>3. KstDay(h) < KstDay(hour') /\ KstDay(h) \in Nat /\ KstDay(hour') \in Nat
      BY <2>1, <3>1, ReportsADayApart, WindowDay
    <3> QED
      BY <3>2, <3>3
  <2>2. reports = 0
    BY <2>1 DEF JobsInv, CountedInv
  <2>3. reports' = 1 /\ traded' # Never
    BY <1>1, <1>2, <2>2 DEF Generate
  <2>4. hour' \in 0 .. hour' /\ Date(traded') = Date(TargetUtc(hour'))
    BY <1>1, <1>2 DEF Counts
  <2> QED
    BY <2>3, <2>4 DEF CountedInv, Counts
<1>3. CASE ~(traded # Never /\ Counts(hour'))
  <2>1. reports' = reports
    BY <1>3 DEF Generate
  <2> QED
    BY <1>1, <2>1 DEF JobsInv, CountedInv, Counts
<1> QED
  BY <1>2, <1>3

LEMMA JobsNextHolds == JobsInv /\ [JobsNext]_<<vars, tradeVars>> => JobsInv'
<1> SUFFICES ASSUME JobsInv, [JobsNext]_<<vars, tradeVars>> PROVE JobsInv'
  OBVIOUS
<1>1. RiskInv' /\ TypeOK'
  <2>1. [Next]_vars
    BY JobsAreRiskSteps
  <2> QED
    BY <2>1, NextRisk DEF JobsInv, RiskInv
<1>2. /\ hour \in Nat /\ reports \in Nat /\ traded \in Nat \cup {Never} /\ missed \in BOOLEAN
  BY DEF JobsInv, JobsTypeOK, TypeOK
<1>3. ASSUME UNCHANGED <<traded, reports>>, hour' \in {hour, hour + 1}
      PROVE  CountedInv'
  BY <1>2, <1>3 DEF JobsInv, CountedInv, Counts
<1>4. CASE HourPasses
  <2>1. hour' = hour + 1
    BY <1>4 DEF HourPasses, Tick, ResetDailyLoss, NextHour
  <2>2. CASE hour' % HoursPerDay = ReportHour /\ Generate(hour')
    <3>1. CountedInv'
      BY <2>1, <2>2, GenerateHolds
    <3>2. reports' \in Nat /\ traded' = traded /\ missed' = missed
      BY <1>2, <2>2 DEF Generate
    <3> QED
      BY <1>1, <1>2, <3>1, <3>2 DEF JobsInv, JobsTypeOK
  <2>3. CASE ReportMissed
    <3>1. missed' \in BOOLEAN /\ traded' = traded /\ reports' = reports
      BY <2>3 DEF ReportMissed
    <3> QED
      BY <1>1, <1>2, <1>3, <2>1, <3>1 DEF JobsInv, JobsTypeOK
  <2>4. CASE UNCHANGED tradeVars
    BY <1>1, <1>2, <1>3, <2>1, <2>4 DEF JobsInv, JobsTypeOK, tradeVars
  <2> QED
    BY <1>4, <2>2, <2>3, <2>4 DEF HourPasses
<1>5. CASE Trading
  <2>1. hour' = hour /\ UNCHANGED tradeVars
    BY <1>5 DEF Trading, Check, RecordLoss
  <2> QED
    BY <1>1, <1>2, <1>3, <2>1 DEF JobsInv, JobsTypeOK, tradeVars
<1>6. CASE TradeCommitted
  <2>1. reports = 0 /\ reports' = 0 /\ traded' = hour /\ missed' = missed
    BY <1>6 DEF TradeCommitted, JobsInv, CountedInv
  <2> QED
    BY <1>1, <1>2, <2>1 DEF JobsInv, JobsTypeOK, CountedInv
<1>7. CASE UNCHANGED <<vars, tradeVars>>
  BY <1>1, <1>2, <1>3, <1>7 DEF JobsInv, JobsTypeOK, vars, tradeVars
<1> QED
  BY <1>4, <1>5, <1>6, <1>7 DEF JobsNext

-------------------------------------------------------------------------------

\* For every length of the day, offset of the time zone and hour of the jobs, an
\* approval respects the limits, no check counts a loss of an earlier date, and
\* no trade is in two reports (risk.py:58-128, scheduler.py:51-69,
\* daily_report.py:37-47).
THEOREM DailyJobsSound == JobsSpec => [](ApprovedWithinLimits /\ NoStaleLoss /\ CountedOnce)
<1>1. JobsInv => ApprovedWithinLimits /\ NoStaleLoss /\ CountedOnce
  BY DEF JobsInv, RiskInv, CountedInv, CountedOnce
<1> QED
  BY <1>1, JobsInitHolds, JobsNextHolds, PTL DEF JobsSpec

\* No check counts a loss of an earlier date, whether or not the midnight job
\* ran, whatever its hour (risk.py:118-128, scheduler.py:51-58).
THEOREM NoLossIsStale == JobsSpec => []NoStaleLoss
  BY DailyJobsSound, PTL

-------------------------------------------------------------------------------
\* No trade is forgotten.

\* While the trade is in no report and none was missed since, no report ran in
\* the window of the trade.
NoneSkipped ==
  traded # Never =>
    /\ traded <= hour
    /\ ~missed /\ reports = 0 =>
         \A h \in traded + 1 .. hour : h % HoursPerDay = ReportHour => ~Counts(h)

\* The day of a moment d * HoursPerDay + r is d.
LEMMA DayIs ==
  ASSUME NEW n \in Nat, NEW d \in Int, NEW r \in 0 .. HoursPerDay - 1,
         n = HoursPerDay * d + r
  PROVE  n \div HoursPerDay = d /\ n % HoursPerDay = r
<1> DEFINE p == n \div HoursPerDay
           s == n % HoursPerDay
<1>1. /\ p \in Int /\ s \in 0 .. HoursPerDay - 1 /\ n = HoursPerDay * p + s
  BY DayOf
<1> HIDE DEF p, s
<1>2. p = d
  <2>1. HoursPerDay * p + s = HoursPerDay * d + r
    BY <1>1
  <2> QED
    BY <1>1, <2>1, Hours, QuotientUnique
<1>3. HoursPerDay * p = HoursPerDay * d /\ HoursPerDay * d \in Int
  BY <1>2, Hours
<1>4. s = r
  BY <1>1, <1>3
<1> QED
  BY <1>2, <1>4 DEF p, s

\* The window of a trade's day holds a report, after the trade and less than
\* three days after the beginning of that day.
LEMMA WindowHasReport ==
  ASSUME NEW d \in Nat
  PROVE  \E h \in HoursPerDay * (d + 1) .. HoursPerDay * (d + 3) - 1 :
            h % HoursPerDay = ReportHour /\ KstDay(h) = d + 2
<1> DEFINE H == HoursPerDay
           a == H * d
<1>0. /\ H \in Nat \ {0} /\ KstOffset \in 1 .. H - 1 /\ ReportHour \in 0 .. H - 1
  BY RiskManagerAssumption, DailyJobsAssumption
<1>1. /\ a \in Nat /\ H * (d + 1) = a + H /\ H * (d + 2) = a + 2 * H
      /\ H * (d + 3) = a + 3 * H
  BY <1>0
<1>2. CASE ReportHour + KstOffset < H
  <2> DEFINE h == H * (d + 2) + ReportHour
  <2>1. h \in Nat /\ h + KstOffset \in Nat /\ d + 2 \in Int
    BY <1>0, <1>1
  <2>2. h + KstOffset = H * (d + 2) + (ReportHour + KstOffset)
    BY <1>0, <1>1
  <2>3. ReportHour + KstOffset \in 0 .. H - 1
    BY <1>0, <1>2
  <2>4. h \in H * (d + 1) .. H * (d + 3) - 1
    BY <1>0, <1>1, <1>2
  <2> HIDE DEF h
  <2>5. KstDay(h) = d + 2
    BY <2>1, <2>2, <2>3, DayIs DEF KstDay
  <2>6. h % H = ReportHour
    BY <1>0, <2>1, DayIs DEF h
  <2> QED
    BY <2>4, <2>5, <2>6
<1>3. CASE ReportHour + KstOffset >= H
  <2> DEFINE h == H * (d + 1) + ReportHour
  <2>1. h \in Nat /\ h + KstOffset \in Nat /\ d + 1 \in Int /\ d + 2 \in Int
    BY <1>0, <1>1
  <2>2. h + KstOffset = H * (d + 2) + (ReportHour + KstOffset - H)
    BY <1>0, <1>1
  <2>3. ReportHour + KstOffset - H \in 0 .. H - 1
    BY <1>0, <1>3
  <2>4. h \in H * (d + 1) .. H * (d + 3) - 1
    BY <1>0, <1>1
  <2> HIDE DEF h
  <2>5. KstDay(h) = d + 2
    BY <2>1, <2>2, <2>3, DayIs DEF KstDay
  <2>6. h % H = ReportHour
    BY <1>0, <2>1, DayIs DEF h
  <2> QED
    BY <2>4, <2>5, <2>6
<1> QED
  BY <1>0, <1>2, <1>3

LEMMA NextNoneSkipped ==
  ASSUME JobsInv, NoneSkipped, [JobsNext]_<<vars, tradeVars>>
  PROVE  NoneSkipped'
<1>1. /\ hour \in Nat /\ reports \in Nat /\ traded \in Nat \cup {Never} /\ Never \notin Nat
      /\ missed \in BOOLEAN
  BY DEF JobsInv, JobsTypeOK, TypeOK, Never
<1>2. CASE HourPasses
  <2>1. hour' = hour + 1
    BY <1>2 DEF HourPasses, Tick, ResetDailyLoss, NextHour
  <2>2. traded' = traded
    BY <1>2 DEF HourPasses, Generate, ReportMissed, tradeVars
  <2> SUFFICES ASSUME traded # Never
               PROVE  /\ traded <= hour'
                      /\ ~missed' /\ reports' = 0 =>
                           \A h \in traded + 1 .. hour' :
                             h % HoursPerDay = ReportHour => ~Counts(h)
    BY <2>2 DEF NoneSkipped, Counts
  <2>3. traded \in Nat /\ traded <= hour
    BY <1>1 DEF NoneSkipped
  <2>4. ASSUME ~missed', reports' = 0
        PROVE  /\ ~missed /\ reports = 0
               /\ hour' % HoursPerDay = ReportHour => ~Counts(hour')
    <3>1. CASE hour' % HoursPerDay = ReportHour /\ Generate(hour')
      BY <1>1, <2>4, <3>1 DEF Generate
    <3>2. CASE ReportMissed
      BY <2>4, <3>2 DEF ReportMissed
    <3>3. CASE hour' % HoursPerDay # ReportHour /\ UNCHANGED tradeVars
      BY <2>4, <3>3 DEF tradeVars
    <3> QED
      BY <1>2, <3>1, <3>2, <3>3 DEF HourPasses
  <2>5. ASSUME ~missed', reports' = 0, NEW h \in traded + 1 .. hour',
               h % HoursPerDay = ReportHour
        PROVE  ~Counts(h)
    <3>1. h = hour' \/ h \in traded + 1 .. hour
      BY <1>1, <2>1, <2>3
    <3> QED
      BY <2>4, <2>5, <3>1 DEF NoneSkipped
  <2> QED
    BY <1>1, <2>1, <2>3, <2>5
<1>3. CASE Trading \/ UNCHANGED <<vars, tradeVars>>
  <2>1. UNCHANGED <<hour, traded, reports, missed>>
    BY <1>3 DEF Trading, Check, RecordLoss, vars, tradeVars
  <2> QED
    BY <2>1 DEF NoneSkipped, Counts
<1>4. CASE TradeCommitted
  <2>1. hour' = hour /\ traded' = hour
    BY <1>4 DEF TradeCommitted, vars
  <2> QED
    BY <1>1, <2>1 DEF NoneSkipped
<1> QED
  BY <1>2, <1>3, <1>4 DEF JobsNext

\* What the window gives: three days on, the trade is in a report.
LEMMA ReportedInTime == JobsInv /\ NoneSkipped => NoneForgotten
<1> SUFFICES ASSUME JobsInv, NoneSkipped, traded # Never, ~missed,
                    hour >= traded + 3 * HoursPerDay, reports # 1
             PROVE  FALSE
  BY DEF NoneForgotten
<1> DEFINE d == traded \div HoursPerDay
<1>1. hour \in Nat /\ traded \in Nat
  BY DEF JobsInv, JobsTypeOK, TypeOK
<1>2. reports = 0
  BY DEF JobsInv, CountedInv
<1>3. /\ d \in Nat /\ HoursPerDay * d <= traded /\ traded < HoursPerDay * d + HoursPerDay
      /\ HoursPerDay * d \in Nat
  <2> DEFINE r == traded % HoursPerDay
  <2>1. d \in Nat /\ r \in 0 .. HoursPerDay - 1 /\ traded = HoursPerDay * d + r
    BY <1>1, DayOf
  <2> HIDE DEF d, r
  <2>2. HoursPerDay * d \in Nat
    BY <2>1, Hours
  <2> QED
    BY <2>1, <2>2, Hours
<1> HIDE DEF d
<1>4. /\ HoursPerDay * (d + 1) = HoursPerDay * d + HoursPerDay
      /\ HoursPerDay * (d + 3) = HoursPerDay * d + 3 * HoursPerDay
  BY <1>3, Hours
<1>5. PICK h \in HoursPerDay * (d + 1) .. HoursPerDay * (d + 3) - 1 :
        h % HoursPerDay = ReportHour /\ KstDay(h) = d + 2
  BY <1>3, WindowHasReport
<1>6. h \in traded + 1 .. hour /\ h \in Nat
  BY <1>1, <1>3, <1>4, <1>5, Hours
<1>7. Date(TargetUtc(h)) = d
  BY <1>3, <1>5, <1>6, WindowDay
<1>8. Counts(h)
  BY <1>7 DEF Counts, Date, d
<1> QED
  BY <1>2, <1>5, <1>6, <1>8 DEF NoneSkipped

\* With no report skipped, a trade is in a report three days later, for every
\* length of the day, time zone and hour of the report: the windows of the
\* reports, each a UTC day, leave no gap (daily_report.py:37-47).
THEOREM NoTradeForgotten == JobsSpec => []NoneForgotten
<1>1. JobsInit => NoneSkipped
  BY DEF JobsInit, NoneSkipped
<1> QED
  BY <1>1, JobsInitHolds, JobsNextHolds, NextNoneSkipped, ReportedInTime, PTL
     DEF JobsSpec
===============================================================================
