---------------------------- MODULE MCOrderManager ----------------------------
(***************************************************************************)
(* Small instances of OrderManager for TLC.  Two signal handlers at once   *)
(* are what one price tick can start (the stop-loss monitor and the        *)
(* engine); a price of 1 makes an order of two units, which can be filled  *)
(* in part, and a price of 2 an order of one.                              *)
(***************************************************************************)
EXTENDS OrderManager, TLC

PartialPrices == {1}
OneExecPrice == {1}
AllFaults == {"broker", "db", "crash"}

\* The tasks are interchangeable.
TaskSymmetry == Permutations(Tasks)
===============================================================================
