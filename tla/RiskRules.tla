------------------------------- MODULE RiskRules -------------------------------
(***************************************************************************)
(* The three rules of RiskManager.check (execution/risk.py) as functions   *)
(* of what the check reads: the order, the position, the cached balance    *)
(* and the loss counted so far today.                                      *)
(***************************************************************************)
EXTENDS Integers, Decimals

CONSTANTS
  MaxOrderKrw,        \* max_order_krw
  MaxDailyLossKrw,    \* max_daily_loss_krw
  RatioNum, RatioDen  \* max_position_ratio = RatioNum / RatioDen

ASSUME RiskRulesAssumption ==
  /\ MaxOrderKrw \in Nat /\ MaxDailyLossKrw \in Nat
  /\ RatioNum \in Nat /\ RatioDen \in Nat \ {0}

\* 1. An order above max_order_krw is cut down to it.
AdjustedQty(qty, price) ==
  IF qty * price > MaxOrderKrw THEN RoundHalfEven(MaxOrderKrw, price) ELSE qty

\* Mutant: the loss counted so far today is left out.
ExceedsDailyLossAlone(pos, price, loss) ==
  LET pnl == (price - pos.avgPrice) * pos.quantity IN
  /\ pos.quantity > 0
  /\ pnl < 0
  /\ -pnl > MaxDailyLossKrw

\* 2. A sell is refused when it would realise more than what is left of the
\* daily loss; the whole position counts, whatever the quantity sold.
ExceedsDailyLoss(pos, price, loss) ==
  LET pnl == (price - pos.avgPrice) * pos.quantity IN
  /\ pos.quantity > 0
  /\ pnl < 0
  /\ loss - pnl > MaxDailyLossKrw

\* 3. A buy is refused when it takes more than max_position_ratio of the
\* available balance and the order together.
ExceedsRatio(value, krw) ==
  /\ krw + value > 0
  /\ value * RatioDen > RatioNum * (krw + value)

Approves(side, qty, price, pos, krw, loss) ==
  /\ side = "sell" => ~ExceedsDailyLoss(pos, price, loss)
  /\ side = "buy" => ~ExceedsRatio(AdjustedQty(qty, price) * price, krw)
===============================================================================
