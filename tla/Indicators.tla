------------------------------ MODULE Indicators -------------------------------
(***************************************************************************)
(* data/processor/indicators: what a list of closing prices, oldest first, *)
(* says.  A comparison of two quotients is cross-multiplied, so that all   *)
(* of it is exact.  A strategy asks an indicator only on which side of a   *)
(* level the price is: each operator below answers that.                   *)
(***************************************************************************)
EXTENDS Integers, SequencesExt

\* prices[-n:]
Newest(prices, n) ==
  IF Len(prices) <= n THEN prices
  ELSE SubSeq(prices, Len(prices) - n + 1, Len(prices))

Total(prices) == FoldSeq(LAMBDA p, sum : p + sum, 0, prices)

\* sma(prices, short) against sma(prices, long).
SmaCross(prices, short, long) ==
  LET shortAvg == Total(Newest(prices, short)) * long
      longAvg == Total(Newest(prices, long)) * short
  IN  CASE shortAvg > longAvg -> "golden"
        [] shortAvg < longAvg -> "dead"
        [] OTHER -> "none"

\* The changes from each price to the next.
Deltas(prices) ==
  [i \in 1 .. Len(prices) - 1 |-> prices[i + 1] - prices[i]]

Gains(deltas) ==
  Total([i \in DOMAIN deltas |-> IF deltas[i] > 0 THEN deltas[i] ELSE 0])
Losses(deltas) ==
  Total([i \in DOMAIN deltas |-> IF deltas[i] < 0 THEN -deltas[i] ELSE 0])

\* rsi(prices, period) against two levels in percent.  It is 100 when no price
\* in the period fell, a flat market included.
RsiZone(prices, period, low, high) ==
  LET recent == Newest(Deltas(prices), period)
      gains == Gains(recent)
      losses == Losses(recent)
      above(level) == IF losses = 0 THEN 100 > level
                      ELSE 100 * gains > level * (gains + losses)
      below(level) == losses # 0 /\ 100 * gains < level * (gains + losses)
  IN  CASE below(low) -> "oversold"
        [] above(high) -> "overbought"
        [] OTHER -> "neutral"

\* The last price against bollinger_bands(prices, window, num_std): with the
\* average m and the deviation s it is at most m - k*s, at least m + k*s, or
\* between.  In a flat market the bands meet and the price is on the lower one.
BandZone(prices, window, k) ==
  LET w == Newest(prices, window)
      p == Last(prices)
      off == window * p - Total(w)
      width2 == k * k * (window * Total([i \in 1 .. window |-> w[i] * w[i]])
                           - Total(w) * Total(w))
  IN  CASE off <= 0 /\ off * off >= width2 -> "below_lower"
        [] off >= 0 /\ off * off >= width2 -> "above_upper"
        [] OTHER -> "neutral"

\* Whether macd(prices, fast, slow, signal) has a value: it re-computes the MACD
\* for the prefixes of at least slow + signal prices and wants signal of them.
MacdDefined(prices, slow, signal) ==
  Len(prices) + 1 >= slow + 2 * signal
===============================================================================
