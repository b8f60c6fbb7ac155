---------------------------- MODULE Backtest_proofs ----------------------------
(***************************************************************************)
(* Proofs about Backtest: what a run may overdraw, what its trades say of  *)
(* its return, and what the search over many runs returns, for any prices, *)
(* fee, balance, number of candles and number of runs.                     *)
(*                                                                         *)
(* All of it rests on what one call of quantize loses (Decimals_proofs).   *)
(***************************************************************************)
EXTENDS Backtest, Decimals_proofs, SequenceTheorems

\* The profit of the trades so far.
Realised == trades.profit - trades.loss + trades.forcedPnl

\* The quantize calls of the fees so far.
Roundings == trades.buys + trades.wins + trades.losses + trades.forced

\* FeeDen times what the trades and the holding, at its cost and with the exact
\* fee on that cost, leave unexplained of the gain.
Unexplained == FeeDen * (balance - initial - Realised + holding.cost) + FeeNum * holding.cost

\* Each fee is off by half a step at most, in either direction.
GainInv ==
  /\ 2 * Unexplained <= (FeeDen * FeeStep) * Roundings
  /\ 0 - 2 * Unexplained <= (FeeDen * FeeStep) * Roundings

\* The forced sell is the last trade of a run.
ForcedInv ==
  /\ trades.forced = 0 => trades.forcedPnl = 0
  /\ trades.forced = 1 => candle = NumCandles /\ holding.qty = 0

\* Every score is a fraction, and the best of them is one of them.
ScoresInv == scores \in Seq(Int \X (Nat \ {0})) /\ best \in 0 .. Len(scores)

\* The balance is not kept above zero ("within the available balance",
\* runner.py:154), but an order exceeds it by the rounding of its quantity and
\* its fee at most, half a unit each.
OverdraftBounded ==
  \E p \in Prices :
    2 * FeeDen * (0 - balance) <= p * (FeeDen + FeeNum) + FeeDen * FeeStep

BacktestInv ==
  /\ TypeOK
  /\ OverdraftBounded /\ GainInv /\ ForcedInv
  /\ ScoresInv /\ BestIsFirstHighest

-------------------------------------------------------------------------------
\* Arithmetic.

LEMMA Scaled ==
  ASSUME NEW d \in Nat, NEW a \in Int, NEW b \in Int, a <= b
  PROVE  d * a <= d * b
<1> DEFINE k == b - a
<1>1. k \in Nat /\ b = a + k
  OBVIOUS
<1> HIDE DEF k
<1>2. d * k \in Nat /\ d * b = d * a + d * k /\ d * a \in Int
  BY <1>1
<1> QED
  BY <1>2

LEMMA Unscaled ==
  ASSUME NEW d \in Nat \ {0}, NEW a \in Int, NEW b \in Int, d * a <= d * b
  PROVE  a <= b
<1> SUFFICES ASSUME b + 1 <= a PROVE FALSE
  OBVIOUS
<1>1. d * (b + 1) <= d * a
  BY Scaled
<1>2. d * (b + 1) = d * b + d /\ d * b \in Int /\ d * a \in Int
  OBVIOUS
<1> QED
  BY <1>1, <1>2

\* Fractions with positive denominators are ordered as they should be.
LEMMA AboveTrans ==
  ASSUME NEW a \in Int \X (Nat \ {0}), NEW b \in Int \X (Nat \ {0}),
         NEW c \in Int \X (Nat \ {0}), Above(a, b), ~Above(c, b)
  PROVE  Above(a, c)
<1>1. /\ a[1] \in Int /\ a[2] \in Nat \ {0} /\ b[1] \in Int /\ b[2] \in Nat \ {0}
      /\ c[1] \in Int /\ c[2] \in Nat \ {0}
      /\ a[1] * b[2] > b[1] * a[2] /\ ~(c[1] * b[2] > b[1] * c[2])
  BY DEF Above
<1>2. ASSUME NEW x \in Int, NEW y \in Int, NEW z \in Int,
             NEW u \in Nat \ {0}, NEW v \in Nat \ {0}, NEW w \in Nat \ {0},
             x * v >= y * u + 1, z * v <= y * w, x * w <= z * u
      PROVE  FALSE
  <2>1. w * (y * u + 1) <= w * (x * v)
    BY <1>2, Scaled
  <2>2. u * (z * v) <= u * (y * w)
    BY <1>2, Scaled
  <2>3. v * (x * w) <= v * (z * u)
    BY <1>2, Scaled
  <2>4. w * (y * u + 1) = (y * u) * w + w /\ w * (x * v) = v * (x * w)
        /\ u * (z * v) = v * (z * u) /\ u * (y * w) = (y * u) * w
    OBVIOUS
  <2>5. (y * u) * w \in Int /\ v * (x * w) \in Int /\ v * (z * u) \in Int
    OBVIOUS
  <2> QED
    BY <2>1, <2>2, <2>3, <2>4, <2>5
<1> SUFFICES ASSUME ~(a[1] * c[2] > c[1] * a[2]) PROVE FALSE
  BY DEF Above
<1>3. a[1] * b[2] \in Int /\ b[1] * a[2] \in Int /\ c[1] * b[2] \in Int /\ b[1] * c[2] \in Int
      /\ a[1] * c[2] \in Int /\ c[1] * a[2] \in Int
  BY <1>1
<1>4. /\ a[1] * b[2] >= b[1] * a[2] + 1 /\ c[1] * b[2] <= b[1] * c[2]
      /\ a[1] * c[2] <= c[1] * a[2]
  BY <1>1, <1>3
<1> QED
  BY <1>1, <1>2, <1>4

LEMMA AboveIrreflexive ==
  ASSUME NEW a \in Int \X (Nat \ {0})
  PROVE  ~Above(a, a)
<1>1. a[1] * a[2] \in Int
  OBVIOUS
<1> QED
  BY <1>1 DEF Above

-------------------------------------------------------------------------------
\* The fees.

LEMMA Constants ==
  /\ Prices # {} /\ Prices \subseteq Nat \ {0} /\ NumCandles \in Nat \ {0}
  /\ NumRuns \in Nat \ {0} /\ InitialBalance \in Nat
  /\ FeeNum \in Nat /\ FeeDen \in Nat \ {0} /\ 2 * FeeNum <= FeeDen
  /\ FeeStep \in Nat \ {0} /\ MinOrder \in Nat
  /\ \A r \in Ratios : r[1] \in Nat /\ r[2] \in Nat \ {0}
BY BacktestAssumption

\* A fee is the exact fee but for half a step, and never more than the value.
LEMMA FeeError ==
  ASSUME NEW v \in Nat
  PROVE  /\ FeeOn(v) \in Nat
         /\ 2 * (FeeDen * FeeOn(v)) <= 2 * (FeeNum * v) + FeeDen * FeeStep
         /\ 2 * (FeeNum * v) <= 2 * (FeeDen * FeeOn(v)) + FeeDen * FeeStep
         /\ FeeOn(v) <= v
<1> DEFINE n == v * FeeNum
           d == FeeDen * FeeStep
           h == RoundHalfEven(n, d)
<1>1. n \in Nat /\ d \in Nat \ {0} /\ FeeDen \in Nat \ {0} /\ FeeStep \in Nat \ {0}
      /\ FeeNum \in Nat /\ n = FeeNum * v
  BY Constants
<1>2. FeeOn(v) = h * FeeStep
  BY DEF FeeOn
<1>3. h \in Nat /\ 2 * (d * h) <= 2 * n + d /\ 2 * n <= 2 * (d * h) + d
  BY <1>1, RoundHalfEvenNat, RoundHalfEvenError
<1> HIDE DEF h
<1>4. d * h = FeeDen * FeeOn(v) /\ FeeOn(v) \in Nat
  BY <1>1, <1>2, <1>3
<1>5. d * h <= 2 * n
  <2>1. CASE h = 0
    BY <1>1, <2>1
  <2>2. CASE h # 0
    <3>1. d * 1 <= d * h
      BY <1>1, <1>3, <2>2, Scaled
    <3>2. d * h \in Nat
      BY <1>1, <1>3
    <3> HIDE DEF d, n
    <3> QED
      BY <1>1, <1>3, <3>1, <3>2
  <2> QED
    BY <2>1, <2>2
<1>6. FeeDen * FeeOn(v) <= FeeDen * v
  <2>1. v * (2 * FeeNum) <= v * FeeDen
    BY <1>1, Constants, Scaled
  <2>2. v * (2 * FeeNum) = 2 * n /\ v * FeeDen = FeeDen * v
    BY <1>1
  <2>3. n \in Nat /\ FeeDen * v \in Nat /\ d * h \in Nat
    BY <1>1, <1>3
  <2> HIDE DEF n, d
  <2> QED
    BY <1>4, <1>5, <2>1, <2>2, <2>3
<1>7. FeeOn(v) <= v
  BY <1>1, <1>4, <1>6, Unscaled
<1> HIDE DEF n
<1> QED
  BY <1>1, <1>3, <1>4, <1>7

\* What a sell brings is never negative.
LEMMA NetNat ==
  ASSUME NEW q \in Nat, NEW p \in Nat
  PROVE  q * p \in Nat /\ q * p - FeeOn(q * p) \in Nat
<1>1. q * p \in Nat
  OBVIOUS
<1> QED
  BY <1>1, FeeError

\* What a buy asks for, and what it may overdraw.
LEMMA BuyCost ==
  ASSUME NEW p \in Prices, balance \in Int, ratio \in Ratios, CanBuy(p)
  PROVE  /\ balance \in Nat /\ QtyFor(p) \in Nat \ {0}
         /\ QtyFor(p) * p \in Nat \ {0} /\ CostOf(QtyFor(p), p) \in Nat
         /\ 2 * (FeeDen * CostOf(QtyFor(p), p))
              <= 2 * (FeeDen * balance) + p * (FeeDen + FeeNum) + FeeDen * FeeStep
<1> DEFINE wanted == RoundHalfEven(balance * ratio[1], ratio[2] * p)
           paid == RoundHalfEven(balance * FeeDen, p * (FeeDen + FeeNum))
           q == QtyFor(p)
<1>1. /\ p \in Nat \ {0} /\ ratio[1] \in Nat /\ ratio[2] \in Nat \ {0} /\ MinOrder \in Nat
      /\ FeeDen \in Nat \ {0} /\ FeeNum \in Nat /\ FeeStep \in Nat \ {0}
  BY Constants
<1>2. balance \in Nat
  <2> SUFFICES ASSUME balance <= 0 - 1 PROVE FALSE
    OBVIOUS
  <2>1. ratio[1] * balance <= ratio[1] * 0
    BY <1>1, Scaled
  <2>2. MinOrder * ratio[2] \in Nat
    BY <1>1
  <2>3. balance * ratio[1] > MinOrder * ratio[2]
    BY DEF CanBuy
  <2>4. balance * ratio[1] = ratio[1] * balance /\ ratio[1] * 0 = 0 /\ ratio[1] * balance \in Int
    BY <1>1
  <2> QED
    BY <2>1, <2>2, <2>3, <2>4
<1>3. wanted \in Nat /\ paid \in Nat
  <2>1. /\ balance * ratio[1] \in Nat /\ ratio[2] * p \in Nat \ {0}
        /\ balance * FeeDen \in Nat /\ p * (FeeDen + FeeNum) \in Nat \ {0}
    BY <1>1, <1>2
  <2> QED
    BY <2>1, RoundHalfEvenNat
<1>4. q = (IF CostOf(wanted, p) <= balance THEN wanted ELSE paid) /\ q > 0
  BY DEF QtyFor, CanBuy
<1>5. q \in Nat \ {0}
  <2> HIDE DEF wanted, paid, q
  <2> QED
    BY <1>3, <1>4
<1>6. q * p \in Nat \ {0}
  <2> HIDE DEF q
  <2> QED
    BY <1>1, <1>5
<1>7. CostOf(q, p) = q * p + FeeOn(q * p) /\ FeeOn(q * p) \in Nat
  BY <1>6, FeeError DEF CostOf
<1>8. CostOf(q, p) \in Nat
  <2> HIDE DEF q
  <2> QED
    BY <1>6, <1>7
<1>9. 2 * (FeeDen * CostOf(q, p)) <= 2 * (FeeDen * balance) + p * (FeeDen + FeeNum) + FeeDen * FeeStep
  <2>1. FeeDen * FeeStep \in Nat /\ p * (FeeDen + FeeNum) \in Nat
        /\ FeeDen * CostOf(q, p) \in Nat /\ FeeDen * balance \in Nat
    <3> HIDE DEF q
    <3> QED
      BY <1>1, <1>2, <1>8
  <2>2. CASE CostOf(wanted, p) <= balance
    <3>1. CostOf(q, p) <= balance
      BY <1>4, <2>2
    <3>2. FeeDen * CostOf(q, p) <= FeeDen * balance
      BY <1>1, <1>2, <1>8, <3>1, Scaled
    <3> HIDE DEF q
    <3> QED
      BY <2>1, <3>2
  <2>3. CASE ~(CostOf(wanted, p) <= balance)
    <3> DEFINE d == p * (FeeDen + FeeNum)
               n == balance * FeeDen
               v == q * p
    <3>1. q = paid /\ n \in Nat /\ d \in Nat \ {0}
      BY <1>1, <1>2, <1>4, <2>3
    <3>2. 2 * (d * q) <= 2 * n + d
      BY <3>1, RoundHalfEvenError
    <3>3. 2 * (FeeDen * FeeOn(v)) <= 2 * (FeeNum * v) + FeeDen * FeeStep
      BY <1>6, FeeError
    <3> HIDE DEF q
    <3>4. d * q = FeeDen * v + FeeNum * v /\ n = FeeDen * balance
      BY <1>1, <1>2, <1>5
    <3>5. FeeDen * CostOf(q, p) = FeeDen * v + FeeDen * FeeOn(v)
      BY <1>1, <1>6, <1>7
    <3>6. /\ FeeDen * v \in Nat /\ FeeNum * v \in Nat /\ FeeDen * FeeOn(v) \in Nat
          /\ FeeDen * FeeStep \in Nat /\ d * q \in Nat
      BY <1>1, <1>5, <1>6, <1>7, <3>1
    <3> HIDE DEF d, n, v
    <3>7. 2 * (FeeDen * CostOf(q, p)) <= 2 * n + d + FeeDen * FeeStep
      BY <3>1, <3>2, <3>3, <3>4, <3>5, <3>6
    <3> QED
      BY <3>4, <3>7 DEF d
  <2> QED
    BY <2>2, <2>3
<1> QED
  BY <1>2, <1>5, <1>6, <1>8, <1>9

\* A balance that is not negative overdraws nothing.
LEMMA Solvent ==
  ASSUME NEW b \in Nat
  PROVE  \E p \in Prices : 2 * FeeDen * (0 - b) <= p * (FeeDen + FeeNum) + FeeDen * FeeStep
<1>1. PICK p \in Prices : TRUE
  BY Constants
<1>2. p \in Nat /\ FeeDen \in Nat /\ FeeNum \in Nat /\ FeeStep \in Nat
  BY Constants
<1>3. (2 * FeeDen) * (0 - b) <= (2 * FeeDen) * 0
  BY <1>2, Scaled
<1>4. /\ p * (FeeDen + FeeNum) + FeeDen * FeeStep \in Nat
      /\ (2 * FeeDen) * 0 = 0 /\ (2 * FeeDen) * (0 - b) \in Int
  BY <1>2
<1> QED
  BY <1>3, <1>4

LEMMA NothingUnexplained ==
  /\ 2 * (FeeDen * 0 + FeeNum * 0) <= (FeeDen * FeeStep) * 0
  /\ 0 - 2 * (FeeDen * 0 + FeeNum * 0) <= (FeeDen * FeeStep) * 0
BY Constants

-------------------------------------------------------------------------------
\* What a trade leaves unexplained.

TradesType == [buys : Nat, wins : Nat, losses : Nat, profit : Nat, loss : Nat,
               forced : 0 .. 1, forcedPnl : Int]

LEMMA HeldTypes ==
  ASSUME BacktestInv
  PROVE  /\ balance \in Int /\ initial \in Nat
         /\ holding.qty \in Nat /\ holding.cost \in Nat
         /\ holding.qty = 0 <=> holding.cost = 0
         /\ trades \in TradesType
         /\ Realised \in Int /\ Roundings \in Nat /\ Unexplained \in Int
         /\ FeeDen * FeeStep \in Nat
<1>1. /\ balance \in Int /\ initial \in Nat
      /\ holding.qty \in Nat /\ holding.cost \in Nat
      /\ holding.qty = 0 <=> holding.cost = 0
      /\ trades \in TradesType
  BY DEF BacktestInv, TypeOK, TradesType
<1>2. Realised \in Int /\ Roundings \in Nat
  BY <1>1 DEF Realised, Roundings, TradesType
<1>3. Unexplained \in Int /\ FeeDen * FeeStep \in Nat
  <2>1. FeeDen \in Nat /\ FeeNum \in Nat /\ FeeStep \in Nat
    BY Constants
  <2> QED
    BY <1>1, <1>2, <2>1 DEF Unexplained
<1> QED
  BY <1>1, <1>2, <1>3

\* One more rounding, one more half step.
LEMMA GainStep ==
  ASSUME BacktestInv, NEW x \in Int,
         2 * x <= FeeDen * FeeStep, 0 - 2 * x <= FeeDen * FeeStep,
         Unexplained' = Unexplained + x, Roundings' = Roundings + 1
  PROVE  GainInv'
<1> DEFINE d == FeeDen * FeeStep
<1>1. d \in Nat /\ Roundings \in Nat /\ Unexplained \in Int
  BY HeldTypes
<1>2. 2 * Unexplained <= d * Roundings /\ 0 - 2 * Unexplained <= d * Roundings
  BY DEF BacktestInv, GainInv
<1>3. 2 * x <= d /\ 0 - 2 * x <= d
  OBVIOUS
<1> HIDE DEF d
<1>4. d * (Roundings + 1) = d * Roundings + d /\ d * Roundings \in Nat
  BY <1>1
<1>5. /\ 2 * (Unexplained + x) <= d * (Roundings + 1)
      /\ 0 - 2 * (Unexplained + x) <= d * (Roundings + 1)
  BY <1>1, <1>2, <1>3, <1>4
<1> QED
  BY <1>5 DEF GainInv, d

LEMMA BuyHolds ==
  ASSUME BacktestInv, NEW p \in Prices, CanBuy(p), Buy(p), UNCHANGED initial, candle < NumCandles
  PROVE  /\ balance' \in Int /\ trades' \in TradesType
         /\ holding' \in [qty : Nat, cost : Nat] /\ (holding'.qty = 0 <=> holding'.cost = 0)
         /\ OverdraftBounded' /\ GainInv'
         /\ trades'.forced = trades.forced /\ trades'.forcedPnl = trades.forcedPnl
         /\ trades.forced = 0
<1> DEFINE q == QtyFor(p)
           v == q * p
           fee == FeeOn(v)
<1>1. /\ balance \in Nat /\ q \in Nat \ {0} /\ v \in Nat \ {0} /\ CostOf(q, p) \in Nat
      /\ 2 * (FeeDen * CostOf(q, p))
           <= 2 * (FeeDen * balance) + p * (FeeDen + FeeNum) + FeeDen * FeeStep
  <2>1. balance \in Int /\ ratio \in Ratios
    BY DEF BacktestInv, TypeOK
  <2> QED
    BY <2>1, BuyCost
<1>2. /\ balance' = balance - CostOf(q, p)
      /\ holding' = [qty |-> holding.qty + q, cost |-> holding.cost + v]
      /\ trades' = [trades EXCEPT !.buys = @ + 1]
  BY DEF Buy
<1>3. /\ fee \in Nat /\ CostOf(q, p) = v + fee
      /\ 2 * (FeeDen * fee) <= 2 * (FeeNum * v) + FeeDen * FeeStep
      /\ 2 * (FeeNum * v) <= 2 * (FeeDen * fee) + FeeDen * FeeStep
  BY <1>1, FeeError DEF CostOf
<1> HIDE DEF q, v, fee
<1>4. /\ trades' \in TradesType /\ trades'.buys = trades.buys + 1
      /\ trades'.wins = trades.wins /\ trades'.losses = trades.losses
      /\ trades'.profit = trades.profit /\ trades'.loss = trades.loss
      /\ trades'.forced = trades.forced /\ trades'.forcedPnl = trades.forcedPnl
  BY <1>2, HeldTypes DEF TradesType
<1>5. /\ holding' \in [qty : Nat, cost : Nat] /\ holding'.cost = holding.cost + v
      /\ (holding'.qty = 0 <=> holding'.cost = 0)
  BY <1>1, <1>2, HeldTypes
<1>6. balance' \in Int
  BY <1>1, <1>2
<1>7. OverdraftBounded'
  <2>1. p \in Nat /\ FeeDen \in Nat /\ FeeNum \in Nat /\ FeeStep \in Nat
    BY Constants
  <2>2. FeeDen * (0 - balance') = FeeDen * CostOf(q, p) - FeeDen * balance
    BY <1>1, <1>2, <2>1
  <2>3. FeeDen * CostOf(q, p) \in Nat /\ FeeDen * balance \in Nat
        /\ p * (FeeDen + FeeNum) \in Nat /\ FeeDen * FeeStep \in Nat
    BY <1>1, <2>1
  <2>4. 2 * (FeeDen * (0 - balance')) <= p * (FeeDen + FeeNum) + FeeDen * FeeStep
    BY <1>1, <2>2, <2>3
  <2>5. 2 * FeeDen * (0 - balance') = 2 * (FeeDen * (0 - balance'))
    BY <1>6, <2>1
  <2> QED
    BY <2>4, <2>5 DEF OverdraftBounded
<1>8. GainInv'
  <2> DEFINE x == FeeNum * v - FeeDen * fee
  <2>1. FeeDen \in Nat /\ FeeNum \in Nat
    BY Constants
  <2>2. FeeNum * v \in Nat /\ FeeDen * fee \in Nat /\ FeeDen * FeeStep \in Nat
    BY <1>1, <1>3, <2>1, HeldTypes
  <2>3. x \in Int /\ 2 * x <= FeeDen * FeeStep /\ 0 - 2 * x <= FeeDen * FeeStep
    BY <1>3, <2>2
  <2>4. Realised' = Realised /\ Roundings' = Roundings + 1
    BY <1>4, HeldTypes DEF Realised, Roundings, TradesType
  <2>5. Unexplained' = Unexplained + x
    <3>1. /\ balance \in Int /\ initial' = initial /\ initial \in Int /\ Realised \in Int
          /\ holding.cost \in Nat /\ v \in Nat /\ fee \in Nat
      BY <1>1, <1>3, HeldTypes
    <3>2. Unexplained' = FeeDen * (balance' - initial - Realised + holding'.cost)
                           + FeeNum * holding'.cost
      BY <2>4 DEF Unexplained
    <3>3. balance' - initial - Realised + holding'.cost
            = (balance - initial - Realised + holding.cost) - fee
      BY <1>2, <1>3, <1>5, <3>1
    <3> DEFINE w == balance - initial - Realised + holding.cost
    <3>4. w \in Int /\ Unexplained = FeeDen * w + FeeNum * holding.cost
      BY <3>1 DEF Unexplained
    <3>5. Unexplained' = FeeDen * (w - fee) + FeeNum * (holding.cost + v)
      BY <1>5, <3>2, <3>3
    <3> HIDE DEF w
    <3> QED
      BY <2>1, <3>1, <3>4, <3>5
  <2> HIDE DEF x
  <2> QED
    BY <2>3, <2>4, <2>5, GainStep
<1>9. trades.forced = 0
  <2>1. candle \in 0 .. NumCandles /\ candle # NumCandles
    BY Constants DEF BacktestInv, TypeOK
  <2> QED
    BY <2>1, HeldTypes DEF BacktestInv, ForcedInv, TradesType
<1> QED
  BY <1>4, <1>5, <1>6, <1>7, <1>8, <1>9

\* A sell of either kind: what is held goes, its profit is counted in some trade.
LEMMA SoldHolds ==
  ASSUME BacktestInv, NEW p \in Nat, UNCHANGED initial,
         balance' = balance + Net(p), holding' = Nothing,
         Realised' = Realised + Pnl(p), Roundings' = Roundings + 1
  PROVE  /\ balance' \in Int /\ holding' \in [qty : Nat, cost : Nat]
         /\ (holding'.qty = 0 <=> holding'.cost = 0) /\ holding'.qty = 0
         /\ OverdraftBounded' /\ GainInv'
<1> DEFINE v == holding.qty * p
           c == holding.cost
           fee == FeeOn(c)
<1>1. balance \in Int /\ initial \in Int /\ Realised \in Int /\ c \in Nat /\ holding.qty \in Nat
  BY HeldTypes
<1>2. Net(p) \in Nat /\ Pnl(p) = Net(p) - c - fee
  BY <1>1, NetNat DEF Net, Pnl
<1>3. /\ fee \in Nat
      /\ 2 * (FeeDen * fee) <= 2 * (FeeNum * c) + FeeDen * FeeStep
      /\ 2 * (FeeNum * c) <= 2 * (FeeDen * fee) + FeeDen * FeeStep
  BY <1>1, FeeError
<1>4. holding'.qty = 0 /\ holding'.cost = 0 /\ holding' \in [qty : Nat, cost : Nat]
  BY DEF Nothing
<1> HIDE DEF fee
<1>5. balance' \in Int /\ balance <= balance'
  BY <1>1, <1>2
<1>6. OverdraftBounded'
  <2>1. PICK r \in Prices : 2 * FeeDen * (0 - balance) <= r * (FeeDen + FeeNum) + FeeDen * FeeStep
    BY DEF BacktestInv, OverdraftBounded
  <2>2. r \in Nat /\ FeeDen \in Nat /\ FeeNum \in Nat /\ FeeStep \in Nat
    BY Constants
  <2>3. (2 * FeeDen) * (0 - balance') <= (2 * FeeDen) * (0 - balance)
    <3>1. /\ 2 * FeeDen \in Nat /\ 0 - balance' \in Int /\ 0 - balance \in Int
          /\ 0 - balance' <= 0 - balance
      BY <1>1, <1>5, <2>2
    <3> QED
      BY <3>1, Scaled
  <2>4. /\ (2 * FeeDen) * (0 - balance') \in Int /\ (2 * FeeDen) * (0 - balance) \in Int
        /\ r * (FeeDen + FeeNum) + FeeDen * FeeStep \in Int
    BY <1>1, <1>5, <2>2
  <2>5. 2 * FeeDen * (0 - balance') <= r * (FeeDen + FeeNum) + FeeDen * FeeStep
    BY <2>1, <2>3, <2>4
  <2> QED
    BY <2>5 DEF OverdraftBounded
<1>7. GainInv'
  <2> DEFINE x == FeeDen * fee - FeeNum * c
  <2>1. FeeDen \in Nat /\ FeeNum \in Nat
    BY Constants
  <2>2. FeeNum * c \in Nat /\ FeeDen * fee \in Nat /\ FeeDen * FeeStep \in Nat
    BY <1>1, <1>3, <2>1, HeldTypes
  <2>3. x \in Int /\ 2 * x <= FeeDen * FeeStep /\ 0 - 2 * x <= FeeDen * FeeStep
    <3> HIDE DEF c
    <3> QED
      BY <1>3, <2>2
  <2>4. Unexplained' = Unexplained + x
    <3> DEFINE w == balance - initial - Realised + c
    <3>1. w \in Int /\ Unexplained = FeeDen * w + FeeNum * c
      BY <1>1 DEF Unexplained
    <3>2. Unexplained' = FeeDen * (balance' - initial - Realised' + holding'.cost)
                           + FeeNum * holding'.cost
      BY DEF Unexplained
    <3>3. balance' - initial - Realised' + holding'.cost = w + fee
      <4>1. /\ balance' = balance + Net(p) /\ Realised' = Realised + (Net(p) - c - fee)
            /\ holding'.cost = 0
        BY <1>2, <1>4
      <4> HIDE DEF c
      <4> QED
        BY <1>1, <1>2, <1>3, <4>1
    <3>4. FeeNum * holding'.cost = 0
      BY <1>4, <2>1
    <3>5. Unexplained' = FeeDen * (w + fee) + 0
      BY <3>2, <3>3, <3>4
    <3> HIDE DEF w, c
    <3> QED
      BY <1>1, <1>3, <2>1, <3>1, <3>5
  <2> HIDE DEF x
  <2> QED
    BY <2>3, <2>4, GainStep
<1> QED
  BY <1>4, <1>5, <1>6, <1>7

\* The two ways in which a profit is counted.
LEMMA SellCounts ==
  ASSUME BacktestInv, NEW p \in Nat, trades' = Counted(Pnl(p))
  PROVE  /\ trades' \in TradesType /\ Pnl(p) \in Int
         /\ Realised' = Realised + Pnl(p) /\ Roundings' = Roundings + 1
         /\ trades'.forced = trades.forced /\ trades'.forcedPnl = trades.forcedPnl
<1>1. Pnl(p) \in Int
  <2>1. holding.qty \in Nat /\ holding.cost \in Nat
    BY HeldTypes
  <2> QED
    BY <2>1, NetNat, FeeError DEF Net, Pnl
<1>2. trades \in TradesType
  BY HeldTypes
<1> DEFINE pnl == Pnl(p)
<1>3. pnl \in Int /\ trades' = Counted(pnl)
  BY <1>1
<1> HIDE DEF pnl
<1>4. /\ trades' \in TradesType
      /\ trades'.buys = trades.buys
      /\ trades'.forced = trades.forced /\ trades'.forcedPnl = trades.forcedPnl
      /\ trades'.wins + trades'.losses = trades.wins + trades.losses + 1
      /\ trades'.profit - trades'.loss = trades.profit - trades.loss + pnl
  <2>1. CASE pnl > 0
    <3> DEFINE won == trades.wins + 1
               made == trades.profit + pnl
    <3>1. trades' = [trades EXCEPT !.wins = won, !.profit = made]
      BY <1>3, <2>1 DEF Counted
    <3>2. won \in Nat /\ made \in Nat
      BY <1>2, <1>3, <2>1 DEF TradesType
    <3> HIDE DEF won, made
    <3>3. /\ trades' \in TradesType
          /\ trades'.wins = won /\ trades'.profit = made
          /\ trades'.buys = trades.buys /\ trades'.losses = trades.losses
          /\ trades'.loss = trades.loss
          /\ trades'.forced = trades.forced /\ trades'.forcedPnl = trades.forcedPnl
      BY <1>2, <3>1, <3>2 DEF TradesType
    <3> QED
      BY <1>2, <1>3, <3>3 DEF TradesType, won, made
  <2>2. CASE ~(pnl > 0)
    <3> DEFINE lost == trades.losses + 1
               given == trades.loss - pnl
    <3>1. trades' = [trades EXCEPT !.losses = lost, !.loss = given]
      BY <1>3, <2>2 DEF Counted
    <3>2. lost \in Nat /\ given \in Nat
      BY <1>2, <1>3, <2>2 DEF TradesType
    <3> HIDE DEF lost, given
    <3>3. /\ trades' \in TradesType
          /\ trades'.losses = lost /\ trades'.loss = given
          /\ trades'.buys = trades.buys /\ trades'.wins = trades.wins
          /\ trades'.profit = trades.profit
          /\ trades'.forced = trades.forced /\ trades'.forcedPnl = trades.forcedPnl
      BY <1>2, <3>1, <3>2 DEF TradesType
    <3> QED
      BY <1>2, <1>3, <3>3 DEF TradesType, lost, given
  <2> QED
    BY <2>1, <2>2
<1>5. Realised' = Realised + pnl /\ Roundings' = Roundings + 1
  BY <1>2, <1>3, <1>4 DEF TradesType, Realised, Roundings
<1> QED
  BY <1>1, <1>4, <1>5 DEF pnl

LEMMA ForcedCounts ==
  ASSUME BacktestInv, holding.qty > 0, NEW p \in Nat,
         trades' = [trades EXCEPT !.forced = @ + 1, !.forcedPnl = Pnl(p)]
  PROVE  /\ trades' \in TradesType
         /\ Realised' = Realised + Pnl(p) /\ Roundings' = Roundings + 1
         /\ trades'.forced = 1
<1>1. Pnl(p) \in Int
  <2>1. holding.qty \in Nat /\ holding.cost \in Nat
    BY HeldTypes
  <2> QED
    BY <2>1, NetNat, FeeError DEF Net, Pnl
<1>2. trades \in TradesType /\ trades.forced = 0 /\ trades.forcedPnl = 0
  BY HeldTypes DEF BacktestInv, ForcedInv, TradesType
<1> DEFINE pnl == Pnl(p)
<1>3. pnl \in Int /\ trades' = [trades EXCEPT !.forced = @ + 1, !.forcedPnl = pnl]
  BY <1>1
<1> HIDE DEF pnl
<1>4. /\ trades' \in TradesType /\ trades'.forced = 1 /\ trades'.forcedPnl = pnl
      /\ trades'.buys = trades.buys /\ trades'.wins = trades.wins
      /\ trades'.losses = trades.losses
      /\ trades'.profit = trades.profit /\ trades'.loss = trades.loss
  <2> DEFINE one == trades.forced + 1
  <2>1. one = 1 /\ one \in 0 .. 1
    BY <1>2
  <2>2. trades' = [trades EXCEPT !.forced = one, !.forcedPnl = pnl]
    BY <1>3
  <2> HIDE DEF one
  <2>3. trades \in TradesType
    BY <1>2
  <2> QED
    BY <1>3, <2>1, <2>2, <2>3 DEF TradesType
<1>5. Realised' = Realised + pnl /\ Roundings' = Roundings + 1
  BY <1>2, <1>3, <1>4 DEF TradesType, Realised, Roundings
<1> QED
  BY <1>4, <1>5 DEF pnl

-------------------------------------------------------------------------------
\* The steps.

LEMMA CandleHolds ==
  ASSUME BacktestInv, Candle
  PROVE  BacktestInv'
<1>1. /\ candle < NumCandles /\ candle' = candle + 1 /\ price' \in Prices
      /\ kind' = kind /\ metric' = metric /\ ratio' = ratio /\ limit' = limit
      /\ initial' = initial /\ scores' = scores /\ best' = best /\ total' = total
  BY DEF Candle, jobVars, resultVars
<1>2. candle' \in 0 .. NumCandles
  BY <1>1, Constants DEF BacktestInv, TypeOK
<1>3. trades.forced = 0 /\ trades.forcedPnl = 0
  <2>1. candle # NumCandles
    BY <1>1, Constants DEF BacktestInv, TypeOK
  <2> QED
    BY <2>1, HeldTypes DEF BacktestInv, ForcedInv, TradesType
<1>4. BestIsFirstHighest' /\ ScoresInv'
  BY <1>1 DEF BacktestInv, ScoresInv, BestIsFirstHighest
<1>5. ASSUME balance' \in Int, trades' \in TradesType,
             holding' \in [qty : Nat, cost : Nat], holding'.qty = 0 <=> holding'.cost = 0,
             OverdraftBounded', GainInv',
             trades'.forced = trades.forced, trades'.forcedPnl = trades.forcedPnl
      PROVE  BacktestInv'
  <2>1. TypeOK'
    BY <1>1, <1>2, <1>5 DEF BacktestInv, TypeOK, TradesType
  <2>2. ForcedInv'
    BY <1>3, <1>5 DEF ForcedInv
  <2> QED
    BY <1>4, <1>5, <2>1, <2>2 DEF BacktestInv
<1>6. CASE UNCHANGED <<balance, holding, trades>>
  <2>1. OverdraftBounded' /\ GainInv'
    BY <1>1, <1>6
       DEF BacktestInv, OverdraftBounded, GainInv, Unexplained, Realised, Roundings
  <2>2. trades' \in TradesType
    BY <1>6, HeldTypes
  <2> QED
    BY <1>5, <1>6, <2>1, <2>2 DEF BacktestInv, TypeOK
<1>7. ASSUME CanBuy(price'), Buy(price') PROVE BacktestInv'
  <2>1. PICK p \in Prices : p = price' /\ CanBuy(p) /\ Buy(p)
    BY <1>1, <1>7
  <2> QED
    BY <1>1, <1>5, <2>1, BuyHolds
<1>8. ASSUME Sell(price') PROVE BacktestInv'
  <2>1. PICK p \in Prices : p = price' /\ Sell(p)
    BY <1>1, <1>8
  <2>2. p \in Nat
    BY Constants
  <2>3. balance' = balance + Net(p) /\ holding' = Nothing /\ trades' = Counted(Pnl(p))
    BY <2>1 DEF Sell
  <2> QED
    BY <1>1, <1>5, <2>2, <2>3, SellCounts, SoldHolds
<1> QED
  BY <1>6, <1>7, <1>8 DEF Candle

LEMMA ForceCloseHolds ==
  ASSUME BacktestInv, ForceClose
  PROVE  BacktestInv'
<1>1. /\ candle = NumCandles /\ holding.qty > 0
      /\ balance' = balance + Net(price) /\ holding' = Nothing
      /\ trades' = [trades EXCEPT !.forced = @ + 1, !.forcedPnl = Pnl(price)]
      /\ kind' = kind /\ metric' = metric /\ ratio' = ratio /\ limit' = limit
      /\ candle' = candle /\ price' = price
      /\ initial' = initial /\ scores' = scores /\ best' = best /\ total' = total
  BY DEF ForceClose, jobVars, resultVars
<1>2. price \in Nat
  BY Constants DEF BacktestInv, TypeOK
<1>3. /\ trades' \in TradesType /\ Realised' = Realised + Pnl(price)
      /\ Roundings' = Roundings + 1 /\ trades'.forced = 1
  BY <1>1, <1>2, ForcedCounts
<1>4. /\ balance' \in Int /\ holding' \in [qty : Nat, cost : Nat]
      /\ (holding'.qty = 0 <=> holding'.cost = 0) /\ holding'.qty = 0
      /\ OverdraftBounded' /\ GainInv'
  BY <1>1, <1>2, <1>3, SoldHolds
<1>5. TypeOK'
  BY <1>1, <1>3, <1>4 DEF BacktestInv, TypeOK, TradesType
<1>6. ForcedInv' /\ BestIsFirstHighest' /\ ScoresInv'
  BY <1>1, <1>3, <1>4 DEF BacktestInv, ForcedInv, ScoresInv, BestIsFirstHighest
<1> QED
  BY <1>4, <1>5, <1>6 DEF BacktestInv

LEMMA ScoreIsFraction == BacktestInv => Score \in Int \X (Nat \ {0})
<1> SUFFICES ASSUME BacktestInv PROVE Score \in Int \X (Nat \ {0})
  OBVIOUS
<1>1. balance \in Int /\ initial \in Nat /\ trades \in TradesType /\ metric \in Metrics
  BY HeldTypes DEF BacktestInv, TypeOK
<1>2. CASE metric = "total_return_pct"
  BY <1>1, <1>2 DEF Score
<1>3. CASE metric = "win_rate"
  BY <1>1, <1>3 DEF Score, TradesType
<1>4. CASE metric = "profit_factor"
  BY <1>1, <1>4 DEF Score, TradesType
<1> QED
  BY <1>1, <1>2, <1>3, <1>4 DEF Metrics

\* The first of the highest scores, when one more is known.
LEMMA BestHolds ==
  ASSUME BacktestInv, scores' = Append(scores, Score),
         best' = IF IsBest THEN Len(scores') ELSE best
  PROVE  BestIsFirstHighest' /\ ScoresInv' /\ Len(scores') = Len(scores) + 1
<1> DEFINE F == Int \X (Nat \ {0})
           n == Len(scores) + 1
<1>1. scores \in Seq(F) /\ best \in 0 .. Len(scores) /\ Score \in F
  BY ScoreIsFraction DEF BacktestInv, ScoresInv
<1> HIDE DEF F
<1>2. /\ scores' \in Seq(F) /\ Len(scores') = n /\ scores'[n] = Score
      /\ Len(scores) \in Nat /\ DOMAIN scores = 1 .. Len(scores) /\ DOMAIN scores' = 1 .. n
      /\ \A r \in 1 .. Len(scores) : scores'[r] = scores[r]
  BY <1>1
<1>3. \A r \in 1 .. Len(scores) : scores[r] \in F
  BY <1>1, ElementOfSeq
<1>4. /\ best = 0 <=> scores = <<>>
      /\ \A r \in 1 .. Len(scores) :
           ~Above(scores[r], scores[best]) /\ (r < best => Above(scores[best], scores[r]))
  BY <1>2 DEF BacktestInv, BestIsFirstHighest
<1>5. best # 0 => best \in 1 .. Len(scores)
  BY <1>1, <1>2
<1>6. scores' # <<>> /\ n \in Nat \ {0} /\ best' \in 0 .. n /\ best' # 0
  <2>1. n \in Nat \ {0} /\ scores' # <<>>
    BY <1>2
  <2>2. CASE IsBest
    BY <1>2, <2>1, <2>2
  <2>3. CASE ~IsBest
    BY <1>2, <1>5, <2>1, <2>3 DEF IsBest
  <2> QED
    BY <2>1, <2>2, <2>3
<1>7. \A r \in 1 .. n : r = n \/ r \in 1 .. Len(scores)
  BY <1>2
<1>8. ASSUME NEW r \in 1 .. n
      PROVE  /\ ~Above(scores'[r], scores'[best'])
             /\ r < best' => Above(scores'[best'], scores'[r])
  <2>1. CASE IsBest
    <3>1. best' = n /\ scores'[best'] = Score
      BY <1>2, <2>1
    <3>2. ~Above(Score, Score)
      BY <1>1, AboveIrreflexive DEF F
    <3>3. ASSUME r \in 1 .. Len(scores)
          PROVE  Above(Score, scores[r]) /\ ~Above(scores[r], Score)
      <4>1. best # 0
        BY <1>2, <1>4, <3>3
      <4>2. best \in 1 .. Len(scores) /\ Above(Score, scores[best])
        BY <1>5, <2>1, <4>1 DEF IsBest
      <4>3. Score \in F /\ scores[best] \in F /\ scores[r] \in F /\ ~Above(scores[r], scores[best])
        BY <1>1, <1>3, <1>4, <3>3, <4>2
      <4>4. Above(Score, scores[r])
        BY <4>2, <4>3, AboveTrans DEF F
      <4>5. ASSUME Above(scores[r], Score) PROVE FALSE
        <5>1. ~Above(scores[r], scores[r])
          BY <4>3, AboveIrreflexive DEF F
        <5>2. Above(Score, Score)
          BY <4>3, <4>4, <5>1, AboveTrans, <4>5 DEF F, Above
        <5> QED
          BY <3>2, <5>2
      <4> QED
        BY <4>4, <4>5
    <3>4. CASE r = n
      BY <3>1, <3>2, <3>4, <1>2
    <3>5. CASE r \in 1 .. Len(scores)
      BY <1>2, <3>1, <3>3, <3>5
    <3> QED
      BY <1>7, <3>4, <3>5
  <2>2. CASE ~IsBest
    <3>1. best' = best /\ best \in 1 .. Len(scores) /\ ~Above(Score, scores[best])
      BY <1>5, <2>2 DEF IsBest
    <3>2. scores'[best'] = scores[best]
      BY <1>2, <3>1
    <3>3. CASE r = n
      BY <1>2, <3>1, <3>2, <3>3
    <3>4. CASE r \in 1 .. Len(scores)
      BY <1>2, <1>4, <3>1, <3>2, <3>4
    <3> QED
      BY <1>7, <3>3, <3>4
  <2> QED
    BY <2>1, <2>2
<1>9. BestIsFirstHighest'
  BY <1>2, <1>6, <1>8 DEF BestIsFirstHighest
<1>10. ScoresInv'
  BY <1>2, <1>6 DEF ScoresInv, F
<1> QED
  BY <1>2, <1>9, <1>10

LEMMA RunEndsHolds ==
  ASSUME BacktestInv, RunEnds
  PROVE  BacktestInv'
<1>1. /\ Len(scores) < NumRuns /\ holding.qty = 0
      /\ scores' = Append(scores, Score) /\ best' = IF IsBest THEN Len(scores') ELSE best
      /\ total' = total + balance
      /\ candle' = 0 /\ price' = 0 /\ trades' = NoTrades /\ limit' \in Limits
      /\ balance' = initial /\ initial' = initial /\ holding' = holding
      /\ kind' = kind /\ metric' = metric /\ ratio' = ratio
  BY DEF RunEnds, jobVars
<1>2. /\ holding.cost = 0 /\ initial \in Nat /\ balance \in Int
      /\ holding \in [qty : Nat, cost : Nat]
  BY <1>1, HeldTypes DEF BacktestInv, TypeOK
<1>3. BestIsFirstHighest' /\ ScoresInv' /\ Len(scores') = Len(scores) + 1
  BY <1>1, BestHolds
<1>4. TypeOK'
  <2>1. Len(scores') <= NumRuns /\ best' \in 0 .. NumRuns
    <3>1. Len(scores) \in Nat /\ best' \in 0 .. Len(scores')
      BY <1>3 DEF BacktestInv, ScoresInv
    <3> QED
      BY <1>1, <1>3, <3>1, Constants
  <2>2. trades' \in TradesType
    BY <1>1 DEF NoTrades, TradesType
  <2>3. total' \in Int /\ 0 \in 0 .. NumCandles
    BY <1>1, <1>2, Constants DEF BacktestInv, TypeOK
  <2> QED
    BY <1>1, <1>2, <2>1, <2>2, <2>3 DEF BacktestInv, TypeOK, TradesType
<1>5. OverdraftBounded'
  <2>1. balance' \in Nat
    BY <1>1, <1>2
  <2> QED
    BY <2>1, Solvent DEF OverdraftBounded
<1>6. GainInv' /\ ForcedInv'
  <2>1. /\ Realised' = 0 /\ Roundings' = 0 /\ trades'.forced = 0 /\ trades'.forcedPnl = 0
        /\ holding'.cost = 0
    BY <1>1, <1>2 DEF NoTrades, Realised, Roundings
  <2>2. balance' - initial' - Realised' + holding'.cost = 0
    BY <1>1, <1>2, <2>1
  <2> QED
    BY <2>1, <2>2, NothingUnexplained DEF GainInv, ForcedInv, Unexplained
<1> QED
  BY <1>3, <1>4, <1>5, <1>6 DEF BacktestInv

LEMMA InitHolds == Init => BacktestInv
<1> SUFFICES ASSUME Init PROVE BacktestInv
  OBVIOUS
<1>1. initial \in Nat
  <2>1. InitialBalance \div NumRuns \in Nat
    BY Constants, DivMod
  <2> QED
    BY <2>1, Constants DEF Init, Share
<1>2. TypeOK
  <2>1. /\ kind \in {"grid", "symbols"} /\ metric \in Metrics /\ ratio \in Ratios
        /\ limit \in Limits /\ price \in Prices \cup {0} /\ total \in Int
    BY DEF Init, Metrics
  <2>2. candle \in 0 .. NumCandles /\ best \in 0 .. NumRuns /\ Len(scores) <= NumRuns
    BY Constants DEF Init
  <2>3. /\ balance \in Int /\ holding \in [qty : Nat, cost : Nat] 
        /\ (holding.qty = 0 <=> holding.cost = 0)
    BY <1>1 DEF Init, Nothing
  <2>4. trades \in TradesType
    BY DEF Init, NoTrades, TradesType
  <2> QED
    BY <1>1, <2>1, <2>2, <2>3, <2>4 DEF TypeOK, TradesType
<1>3. OverdraftBounded
  <2>1. balance \in Nat
    BY <1>1 DEF Init
  <2> QED
    BY <2>1, Solvent DEF OverdraftBounded
<1>4. GainInv /\ ForcedInv
  <2>1. /\ Realised = 0 /\ Roundings = 0 /\ trades.forced = 0 /\ trades.forcedPnl = 0
        /\ holding.cost = 0
    BY DEF Init, NoTrades, Nothing, Realised, Roundings
  <2>2. balance - initial - Realised + holding.cost = 0
    BY <1>1, <2>1 DEF Init
  <2> QED
    BY <2>1, <2>2, NothingUnexplained DEF GainInv, ForcedInv, Unexplained
<1>5. ScoresInv /\ BestIsFirstHighest
  BY DEF Init, ScoresInv, BestIsFirstHighest
<1> QED
  BY <1>2, <1>3, <1>4, <1>5 DEF BacktestInv

LEMMA StutterHolds == BacktestInv /\ UNCHANGED vars => BacktestInv'
<1> SUFFICES ASSUME BacktestInv, UNCHANGED vars PROVE BacktestInv'
  OBVIOUS
<1> USE DEF vars, jobVars, resultVars
<1>1. TypeOK'
  BY DEF BacktestInv, TypeOK
<1>2. OverdraftBounded' /\ BestIsFirstHighest' /\ ScoresInv' /\ ForcedInv'
  BY DEF BacktestInv, OverdraftBounded, BestIsFirstHighest, ScoresInv, ForcedInv
<1>3. GainInv'
  BY DEF BacktestInv, GainInv, Unexplained, Realised, Roundings
<1> QED
  BY <1>1, <1>2, <1>3 DEF BacktestInv

LEMMA BacktestInvariant == Spec => []BacktestInv
<1>1. BacktestInv /\ [Next]_vars => BacktestInv'
  BY CandleHolds, ForceCloseHolds, RunEndsHolds, StutterHolds DEF Next
<1> QED
  BY <1>1, InitHolds, PTL DEF Spec

-------------------------------------------------------------------------------

\* Every variable keeps its type, for any prices, fee, candles and runs.
THEOREM BacktestTypes == Spec => []TypeOK
<1>1. BacktestInv => TypeOK
  BY DEF BacktestInv
<1> QED
  BY <1>1, BacktestInvariant, PTL

\* The quantity is "adjusted within the available balance" (runner.py:154), yet
\* the fee that is added and the two roundings may leave the balance below zero
\* (runner.py:190-212): never by more than they make of one order, whatever was
\* bought before and whatever share it asks for.
THEOREM OverdraftIsBounded == Spec => []OverdraftBounded
<1>1. BacktestInv => OverdraftBounded
  BY DEF BacktestInv
<1> QED
  BY <1>1, BacktestInvariant, PTL

\* However many buys a sell closes, and with the forced sell at the end, the
\* profits of the trades are the return but for half a step for each fee
\* (runner.py:229-257).
THEOREM ReturnIsExplained == Spec => []PnlExplainsReturn
<1>1. BacktestInv => PnlExplainsReturn
  <2> SUFFICES ASSUME BacktestInv, holding.qty = 0
               PROVE  PnlExplainsReturn
    BY DEF PnlExplainsReturn
  <2> DEFINE g == balance - initial - Realised
  <2>1. /\ g \in Int /\ Roundings \in Nat /\ holding.cost = 0
        /\ balance \in Int /\ initial \in Int /\ Realised \in Int
    BY HeldTypes
  <2>2. FeeDen \in Nat \ {0} /\ FeeNum \in Nat /\ FeeStep \in Nat
    BY Constants
  <2>3. Unexplained = FeeDen * g
    BY <2>1, <2>2 DEF Unexplained
  <2>4. 2 * Unexplained <= (FeeDen * FeeStep) * Roundings
        /\ 0 - 2 * Unexplained <= (FeeDen * FeeStep) * Roundings
    BY DEF BacktestInv, GainInv
  <2> HIDE DEF g
  <2>5. /\ FeeDen * (2 * g) = 2 * Unexplained /\ FeeDen * (0 - 2 * g) = 0 - 2 * Unexplained
        /\ (FeeDen * FeeStep) * Roundings = FeeDen * (Roundings * FeeStep)
        /\ Roundings * FeeStep \in Int /\ 2 * g \in Int /\ 0 - 2 * g \in Int
    BY <2>1, <2>2, <2>3
  <2>6. 2 * g <= Roundings * FeeStep
    <3>1. FeeDen * (2 * g) <= FeeDen * (Roundings * FeeStep)
      BY <2>4, <2>5
    <3> QED
      BY <2>2, <2>5, <3>1, Unscaled
  <2>7. 0 - 2 * g <= Roundings * FeeStep
    <3>1. FeeDen * (0 - 2 * g) <= FeeDen * (Roundings * FeeStep)
      BY <2>4, <2>5
    <3> QED
      BY <2>2, <2>5, <3>1, Unscaled
  <2> DEFINE error == trades.profit - trades.loss + trades.forcedPnl - (balance - initial)
             margin == (trades.buys + trades.wins + trades.losses + trades.forced) * FeeStep
  <2>8. error = 0 - g /\ margin = Roundings * FeeStep
    <3>1. error = Realised - (balance - initial)
      <4>1. trades.profit \in Int /\ trades.loss \in Int /\ trades.forcedPnl \in Int
        BY HeldTypes DEF TradesType
      <4> QED
        BY <2>1, <4>1 DEF Realised
    <3>2. margin = Roundings * FeeStep
      BY DEF Roundings
    <3> HIDE DEF error, margin
    <3> QED
      BY <2>1, <3>1, <3>2 DEF g
  <2> HIDE DEF error, margin
  <2>9. 2 * Abs(error) <= margin
    BY <2>1, <2>5, <2>6, <2>7, <2>8 DEF Abs
  <2> QED
    BY <2>9, Zenon DEF PnlExplainsReturn, error, margin
<1> QED
  BY <1>1, BacktestInvariant, PTL

\* A search over any number of combinations returns the first of those with the
\* highest score, for each of the three metrics (optimizer.py:122-147).
THEOREM BestIsFound == Spec => []BestIsFirstHighest
<1>1. BacktestInv => BestIsFirstHighest
  BY DEF BacktestInv
<1> QED
  BY <1>1, BacktestInvariant, PTL
===============================================================================
