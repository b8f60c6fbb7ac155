-------------------------------- MODULE Backtest --------------------------------
(***************************************************************************)
(* Backtests: SimulatedPortfolio, BacktestRunner and the multi-symbol      *)
(* runner of backtest/runner.py, and the grid search of                    *)
(* backtest/optimizer.py, which make one run after the other.              *)
(*                                                                         *)
(* A run feeds one candle after the other to a strategy and trades on its  *)
(* signals at the candle's close.  What a strategy that has its features   *)
(* signals is any (SignalPipeline says what it may be).  Quantities are    *)
(* counted in the smallest unit (10^-8), prices and cash in the value of   *)
(* one such unit, so only the three calls of quantize round.               *)
(***************************************************************************)
EXTENDS Integers, Sequences, FiniteSets, Decimals

CONSTANTS
  Prices,          \* closes of the candles
  NumCandles,      \* candles of a run
  NumRuns,         \* combinations of parameters, or symbols
  InitialBalance,  \* initial_balance, in cash units
  Ratios,          \* order_ratio, as pairs <<numerator, denominator>>
  FeeNum, FeeDen,  \* fee_rate
  FeeStep,         \* 0.01 KRW, in cash units
  MinOrder,        \* 1000 KRW, in cash units
  Required,        \* candles the FeatureBuilder needs
  Limits           \* candles it reads: required_candles of the strategies

ASSUME BacktestAssumption ==
  /\ Prices # {} /\ Prices \subseteq Nat \ {0}
  /\ NumCandles \in Nat \ {0} /\ NumRuns \in Nat \ {0}
  /\ InitialBalance \in Nat /\ InitialBalance % NumRuns = 0
  \* A fee is at most half of the value (0.0005 unless the caller says otherwise).
  /\ FeeNum \in Nat /\ FeeDen \in Nat \ {0} /\ 2 * FeeNum <= FeeDen
  /\ FeeStep \in Nat \ {0} /\ MinOrder \in Nat
  /\ \A r \in Ratios : r[1] \in Nat /\ r[2] \in Nat \ {0}

VARIABLES
  kind,     \* "grid" (StrategyOptimizer) or "symbols" (MultiSymbolBacktestRunner)
  metric,   \* what the grid search compares
  ratio,    \* order_ratio
  limit,    \* snapshot_limit of the FeatureBuilder
  candle,   \* candles seen by this run
  price,    \* the close of the last one
  initial, balance,
  holding,  \* the quantity held, and what it cost
  trades,   \* BacktestResult.trades, summed up
  scores,   \* all_results: one score per run that is over
  best,     \* best_params: a run, 0 at first
  total     \* total_final

jobVars == <<kind, metric, ratio>>
resultVars == <<scores, best, total>>
vars == <<jobVars, limit, candle, price, initial, balance, holding, trades, resultVars>>

Metrics == {"total_return_pct", "win_rate", "profit_factor"}
Nothing == [qty |-> 0, cost |-> 0]
NoTrades == [buys |-> 0, wins |-> 0, losses |-> 0, profit |-> 0, loss |-> 0,
             forced |-> 0, forcedPnl |-> 0]

Share(k) == IF k = "symbols" THEN InitialBalance \div NumRuns ELSE InitialBalance

Init ==
  /\ kind \in {"grid", "symbols"} /\ ratio \in Ratios
  /\ metric \in IF kind = "grid" THEN Metrics ELSE {"total_return_pct"}
  /\ limit \in Limits
  /\ candle = 0 /\ price = 0
  /\ initial = Share(kind) /\ balance = initial
  /\ holding = Nothing /\ trades = NoTrades
  /\ scores = <<>> /\ best = 0 /\ total = 0

-------------------------------------------------------------------------------
\* SimulatedPortfolio.

\* (value * fee_rate).quantize("0.01").
FeeOn(value) == RoundHalfEven(value * FeeNum, FeeDen * FeeStep) * FeeStep
CostOf(qty, p) == qty * p + FeeOn(qty * p)

\* What buy asks for: a share of the balance, or what the balance pays for with
\* the fee; either is rounded to the nearest unit.
QtyFor(p) ==
  LET wanted == RoundHalfEven(balance * ratio[1], ratio[2] * p) IN
  IF CostOf(wanted, p) <= balance THEN wanted
  ELSE RoundHalfEven(balance * FeeDen, p * (FeeDen + FeeNum))

\* An order of the minimum or less is not made, nor one of nothing.
CanBuy(p) == balance * ratio[1] > MinOrder * ratio[2] /\ QtyFor(p) > 0

\* Mutant: a further buy gives all that is held the new price.
BuyReprices(p) ==
  /\ balance' = balance - CostOf(QtyFor(p), p)
  /\ holding' = [qty |-> holding.qty + QtyFor(p), cost |-> (holding.qty + QtyFor(p)) * p]
  /\ trades' = [trades EXCEPT !.buys = @ + 1]

Buy(p) ==
  /\ balance' = balance - CostOf(QtyFor(p), p)
  /\ holding' = [qty |-> holding.qty + QtyFor(p), cost |-> holding.cost + QtyFor(p) * p]
  /\ trades' = [trades EXCEPT !.buys = @ + 1]

\* What selling all at p brings, and the profit: the fee of the buys is worked out
\* again from their cost.
Net(p) == holding.qty * p - FeeOn(holding.qty * p)
Pnl(p) == Net(p) - holding.cost - FeeOn(holding.cost)

\* BacktestResult: a sell that wins nothing has lost.
Counted(pnl) ==
  IF pnl > 0 THEN [trades EXCEPT !.wins = @ + 1, !.profit = @ + pnl]
             ELSE [trades EXCEPT !.losses = @ + 1, !.loss = @ - pnl]

\* Mutant: the cost of what was sold is kept.
SellKeepsCost(p) ==
  /\ balance' = balance + Net(p)
  /\ holding' = [holding EXCEPT !.qty = 0]
  /\ trades' = Counted(Pnl(p))

Sell(p) ==
  /\ balance' = balance + Net(p)
  /\ holding' = Nothing
  /\ trades' = Counted(Pnl(p))

-------------------------------------------------------------------------------
\* BacktestRunner.run.

\* The builder has its candles: never, if the strategy asks for too few.
HasFeatures == candle + 1 >= Required /\ limit >= Required

\* The next candle, and what the strategy makes of it.
Candle ==
  /\ Len(scores) < NumRuns /\ candle < NumCandles
  /\ candle' = candle + 1
  /\ price' \in Prices
  /\ \/ UNCHANGED <<balance, holding, trades>>
     \/ HasFeatures /\ CanBuy(price') /\ Buy(price')
     \/ HasFeatures /\ holding.qty > 0 /\ Sell(price')
  /\ UNCHANGED <<jobVars, limit, initial, resultVars>>

\* What is still held is sold at the last close, as a trade of a kind of its own.
ForceClose ==
  /\ candle = NumCandles /\ holding.qty > 0
  /\ balance' = balance + Net(price)
  /\ holding' = Nothing
  /\ trades' = [trades EXCEPT !.forced = @ + 1, !.forcedPnl = Pnl(price)]
  /\ UNCHANGED <<jobVars, limit, candle, price, initial, resultVars>>

-------------------------------------------------------------------------------
\* The result, the grid search and the symbols.

\* _score, as a fraction; a run without a losing sell has a factor of 999.
Score ==
  CASE metric = "total_return_pct" ->
         IF initial = 0 THEN <<0, 1>> ELSE <<balance - initial, initial>>
    [] metric = "win_rate" ->
         IF trades.wins + trades.losses = 0 THEN <<0, 1>>
         ELSE <<trades.wins, trades.wins + trades.losses>>
    [] metric = "profit_factor" ->
         IF trades.loss # 0 THEN <<trades.profit, trades.loss>>
         ELSE <<IF trades.profit > 0 THEN 999 ELSE 0, 1>>

Above(a, b) == a[1] * b[2] > b[1] * a[2]

\* Mutant: the last of the best wins.
IsBestLast == best = 0 \/ ~Above(scores[best], Score)

\* score > best_score.
IsBest == best = 0 \/ Above(Score, scores[best])

\* A run is over, and the next one starts from its own balance.
RunEnds ==
  /\ Len(scores) < NumRuns /\ candle = NumCandles /\ holding.qty = 0
  /\ scores' = Append(scores, Score)
  /\ best' = IF IsBest THEN Len(scores') ELSE best
  /\ total' = total + balance
  /\ candle' = 0 /\ price' = 0 /\ trades' = NoTrades /\ limit' \in Limits
  /\ balance' = initial
  /\ UNCHANGED <<jobVars, initial, holding>>

Next == Candle \/ ForceClose \/ RunEnds

Spec == Init /\ [][Next]_vars

-------------------------------------------------------------------------------
\* Properties.

\* Every variable keeps its type; what is held cost something.
TypeOK ==
  /\ kind \in {"grid", "symbols"} /\ metric \in Metrics /\ ratio \in Ratios
  /\ limit \in Limits /\ candle \in 0 .. NumCandles /\ price \in Prices \cup {0}
  /\ initial \in Nat /\ balance \in Int
  /\ holding \in [qty : Nat, cost : Nat]
  /\ holding.qty = 0 <=> holding.cost = 0
  /\ trades \in [buys : Nat, wins : Nat, losses : Nat, profit : Nat, loss : Nat,
                 forced : 0 .. 1, forcedPnl : Int]
  /\ Len(scores) <= NumRuns /\ best \in 0 .. NumRuns /\ total \in Int

\* The profits of the trades, that of the forced sell included, add up to what the
\* run gained, but for the rounding of one fee each: several buys before a sell,
\* and fees worked out twice, lose nothing (runner.py:214-257).
PnlExplainsReturn ==
  holding.qty = 0 =>
    2 * Abs(trades.profit - trades.loss + trades.forcedPnl - (balance - initial))
      <= (trades.buys + trades.wins + trades.losses + trades.forced) * FeeStep

\* The search returns the first of the combinations with the highest score
\* (optimizer.py:122-147).
BestIsFirstHighest ==
  /\ best = 0 <=> scores = <<>>
  /\ \A r \in DOMAIN scores :
       /\ ~Above(scores[r], scores[best])
       /\ r < best => Above(scores[best], scores[r])
===============================================================================
