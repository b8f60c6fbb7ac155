----------------------------- MODULE MCProtection ------------------------------
(***************************************************************************)
(* The two components that protect the account, in one run.  They share no *)
(* state (the monitor reads positions and prices, the jobs a clock), so    *)
(* that every property is about one of them and their interleavings tell   *)
(* nothing more: each moves only while the other is where it started.      *)
(*                                                                         *)
(* StopLossMonitor over PositionManager, with prices that are far apart    *)
(* (the weighted mean is rounded in both directions), a buy at a price of  *)
(* zero (a response without a price), fills of nothing, ticks that lose,   *)
(* gain and do neither, and thresholds met exactly.                        *)
(*                                                                         *)
(* RiskManager and the daily jobs over four days of four hours, so that a  *)
(* trade of any hour of the first day is followed for three days.  The     *)
(* quantities, prices and limits are such that the reduced quantity is     *)
(* rounded up and down, and that each limit is met, missed and exceeded.   *)
(***************************************************************************)
EXTENDS StopLossMonitor, DailyJobs

BuyPrices == {0, 4, 7}
SomeTickPrices == {3, 4, 5, 9}
SomeQtys == {0, 1, 2}

SomeQuantities == {1, 4}
SomePrices == {2, 3}
SomeBalances == {10}
SomeLosses == {2}
SomePositions == {[quantity |-> 1, avgPrice |-> 3], [quantity |-> 2, avgPrice |-> 4]}

jobsVars == <<vars, tradeVars>>

ProtectionInit == MonitorInit /\ JobsInit

ProtectionNext ==
  \/ JobsInit /\ MonitorNext /\ UNCHANGED jobsVars
  \/ MonitorInit /\ JobsNext /\ UNCHANGED monitorVars

ProtectionSpec == ProtectionInit /\ [][ProtectionNext]_<<monitorVars, jobsVars>>
===============================================================================
