------------------------------ MODULE MCBacktest ------------------------------
(***************************************************************************)
(* Small instances of Backtest: a fee of 1/20 and prices that divide       *)
(* neither the balance nor each other, so that every rounding happens;     *)
(* orders of a part and of all of the balance.                             *)
(***************************************************************************)
EXTENDS Backtest

SomePrices == {7, 10, 13}
SomeRatios == {<<3, 10>>, <<1, 1>>}
SomeLimits == {1, 4}
===============================================================================
