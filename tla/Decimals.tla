------------------------------- MODULE Decimals -------------------------------
(***************************************************************************)
(* Python's Decimal as the trading code uses it.  An amount is an integer  *)
(* count of the smallest unit in play: 10^-8 coin for a quantity, one KRW  *)
(* for a price or a value.  The only conversion that loses information is  *)
(* quantize, whose default context rounds half to even.                    *)
(***************************************************************************)
EXTENDS Integers

\* (n / d).quantize(unit): the nearest integer to n / d, ties to the even one.
RoundHalfEven(n, d) ==
  LET q == n \div d
      r == n % d
  IN  IF 2 * r < d \/ (2 * r = d /\ q % 2 = 0) THEN q ELSE q + 1

Abs(i) == IF i < 0 THEN -i ELSE i
===============================================================================
