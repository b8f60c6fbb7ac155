----------------------------- MODULE MCTradingCore -----------------------------
(***************************************************************************)
(* Small instances of TradingCore.  With DefaultKrw = 4, an order is for   *)
(* four units at a price of 1 and for two at a price of 2; as a buy, it    *)
(* gets four units and one.  With DefaultKrw = 2 and two splits, a split   *)
(* is for one unit at a price of 1.  The price doubles or halves, past     *)
(* both thresholds of the monitor.                                         *)
(*                                                                         *)
(* Two bounds on the environment keep the run of the properties small;     *)
(* neither touches a step with a fairness condition.  The clock and the    *)
(* cached balance move between two ticks (MCOrderManager moves its clock   *)
(* between any two steps), and a history has the cooldown pass or the      *)
(* process restart, not both.                                              *)
(***************************************************************************)
EXTENDS TradingCore

TwoPrices == {1, 2}
BetweenTicks ==
  clock' # clock \/ (availableKrw' # availableKrw /\ epoch' = epoch) =>
    TickHandled /\ pc["dca"] = "idle"

ClockOrRestart == clock' + epoch' <= 1

NoFaults == {}
AllFaults == {"broker", "db", "crash"}
===============================================================================
