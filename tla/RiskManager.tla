------------------------------ MODULE RiskManager ------------------------------
(***************************************************************************)
(* execution/risk.py: the check every order passes before it is sent, and  *)
(* the daily loss counter behind it.  An approved check suspends nowhere;  *)
(* a refused one only awaits the subscribers of RISK_TRIGGERED, after the  *)
(* decision is taken.  So a check is one step.                             *)
(*                                                                         *)
(* The clock counts the hours that matter: a UTC day is HoursPerDay long,  *)
(* and the scheduler's cron job fires at midnight of its own time zone,    *)
(* ResetHour hours into the UTC day.                                       *)
(***************************************************************************)
EXTENDS RiskRules

CONSTANTS
  HoursPerDay,      \* 24 on the real clock
  ResetHour,        \* when the daily_loss_reset job fires: 15 for KST
  Quantities, Prices, Balances, Losses, \* inputs of the checks
  Positions,        \* positions a check may find
  MaxHour, MaxLoss  \* bounds on the clock and on the losses of a day

ASSUME RiskManagerAssumption ==
  /\ HoursPerDay \in Nat \ {0}
  /\ ResetHour \in 0 .. HoursPerDay - 1
  /\ Quantities \subseteq Nat /\ Prices \subseteq Nat \ {0}
  /\ Balances \subseteq Nat /\ Losses \subseteq Nat \ {0}
  /\ Positions \subseteq [quantity : Nat, avgPrice : Nat]
  /\ MaxHour \in Nat /\ MaxLoss \in Nat

VARIABLES
  hour,           \* hours since a UTC midnight
  dailyLoss,      \* _daily_loss
  lossResetDate,  \* _loss_reset_date, as a number of UTC days
  decision,       \* the last check: what it was asked and what it answered
  lostUtcDay      \* history: the losses recorded since midnight UTC

vars == <<hour, dailyLoss, lossResetDate, decision, lostUtcDay>>

Date(h) == h \div HoursPerDay

\* Mutant: only the midnight job restarts the counter.
LossTodayUndated == dailyLoss

\* The counter as check sees it, after _reset_daily_loss_if_needed.
LossToday == IF Date(hour) # lossResetDate THEN 0 ELSE dailyLoss

\* The state check leaves behind: the counter restarts on a new UTC date.
ResetIfNeeded ==
  /\ dailyLoss' = LossToday
  /\ lossResetDate' = Date(hour)

NoDecision == [side |-> "none", qty |-> 0, price |-> 0, approved |-> FALSE,
               position |-> [quantity |-> 0, avgPrice |-> 0], krw |-> 0, loss |-> 0]

Init ==
  /\ hour \in 0 .. HoursPerDay - 1
  /\ dailyLoss = 0 /\ lossResetDate = 0
  /\ decision = NoDecision
  /\ lostUtcDay = 0

Check(side, qty, price, pos, krw) ==
  /\ ResetIfNeeded
  /\ decision' = [side |-> side, qty |-> AdjustedQty(qty, price), price |-> price,
                  approved |-> Approves(side, qty, price, pos, krw, LossToday),
                  position |-> pos, krw |-> krw, loss |-> LossToday]
  /\ UNCHANGED <<hour, lostUtcDay>>

RecordLoss(amount) ==
  /\ lostUtcDay + amount <= MaxLoss
  /\ dailyLoss' = dailyLoss + amount
  /\ lostUtcDay' = lostUtcDay + amount
  /\ UNCHANGED <<hour, lossResetDate, decision>>

\* An hour passes; a new day has no losses yet.
NextHour ==
  /\ hour < MaxHour
  /\ hour' = hour + 1
  /\ lostUtcDay' = IF Date(hour') # Date(hour) THEN 0 ELSE lostUtcDay
  /\ UNCHANGED decision

\* The scheduler has no job at this hour, or it misses it.
Tick ==
  /\ NextHour
  /\ UNCHANGED <<dailyLoss, lossResetDate>>

\* The scheduler's job runs first thing in its hour.
ResetDailyLoss ==
  /\ NextHour
  /\ hour' % HoursPerDay = ResetHour
  /\ dailyLoss' = 0
  /\ lossResetDate' = Date(hour')

Next ==
  \/ \E side \in {"buy", "sell"}, qty \in Quantities, price \in Prices,
        pos \in Positions, krw \in Balances : Check(side, qty, price, pos, krw)
  \/ \E amount \in Losses : RecordLoss(amount)
  \/ ResetDailyLoss
  \/ Tick

Spec == Init /\ [][Next]_vars

-------------------------------------------------------------------------------

\* The counter, the clock and the last decision keep their types.
TypeOK ==
  /\ hour \in Nat /\ dailyLoss \in Nat /\ lossResetDate \in Nat
  /\ lostUtcDay \in Nat
  /\ decision \in
       [side : {"none", "buy", "sell"}, qty : Nat, price : Nat, approved : BOOLEAN,
        position : [quantity : Nat, avgPrice : Nat], krw : Nat, loss : Nat]

\* What was approved respects the three limits with the quantity that is sent,
\* not the one that was asked for: the value is at most max_order_krw plus half
\* a unit of quantity (the rounding of the reduced quantity), a losing sell
\* stays within the daily loss and a buy within its share of the balance
\* (risk.py:70-110).
ApprovedWithinLimits ==
  LET d == decision
      value == d.qty * d.price
      pnl == (d.price - d.position.avgPrice) * d.position.quantity
  IN  d.approved =>
        /\ 2 * value <= 2 * MaxOrderKrw + d.price
        /\ d.side = "sell" /\ pnl < 0 => d.loss - pnl <= MaxDailyLossKrw
        /\ d.side = "buy" /\ value > 0 =>
             value * RatioDen <= RatioNum * (d.krw + value)

\* The counter a check uses never holds a loss of an earlier UTC date, whether
\* or not the midnight job ran, so yesterday's losses refuse no order of today
\* (risk.py:118-128).
NoStaleLoss == LossToday <= lostUtcDay

===============================================================================
