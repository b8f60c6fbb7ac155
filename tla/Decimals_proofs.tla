---------------------------- MODULE Decimals_proofs ----------------------------
(***************************************************************************)
(* What quantize computes: the lemmas the proofs of the other modules use. *)
(***************************************************************************)
EXTENDS Decimals, TLAPS

LEMMA DivMod ==
  ASSUME NEW n \in Nat, NEW d \in Nat \ {0}
  PROVE  /\ n \div d \in Nat
         /\ n % d \in 0 .. d - 1
         /\ n = d * (n \div d) + (n % d)
  OBVIOUS

\* The rounded quotient of two amounts is an amount.
LEMMA RoundHalfEvenNat ==
  ASSUME NEW n \in Nat, NEW d \in Nat \ {0}
  PROVE  RoundHalfEven(n, d) \in Nat
  BY DivMod DEF RoundHalfEven

\* quantize is off by at most half a unit: the value of the rounded quantity
\* differs from n by at most half the price d of a unit
\* (order_manager.py:103, risk.py:74).
LEMMA RoundHalfEvenError ==
  ASSUME NEW n \in Nat, NEW d \in Nat \ {0}
  PROVE  /\ 2 * (d * RoundHalfEven(n, d)) <= 2 * n + d
         /\ 2 * n <= 2 * (d * RoundHalfEven(n, d)) + d
<1> DEFINE q == n \div d
           r == n % d
<1>1. q \in Nat /\ r \in 0 .. d - 1 /\ n = d * q + r
  BY DivMod
<1>2. RoundHalfEven(n, d) =
        IF 2 * r < d \/ (2 * r = d /\ q % 2 = 0) THEN q ELSE q + 1
  BY DEF RoundHalfEven
<1> HIDE DEF q, r
<1>3. d * q \in Nat /\ d * (q + 1) = d * q + d
  BY <1>1
<1>4. CASE RoundHalfEven(n, d) = q /\ 2 * r <= d
  BY <1>1, <1>3, <1>4
<1>5. CASE RoundHalfEven(n, d) = q + 1 /\ 2 * r >= d
  BY <1>1, <1>3, <1>5
<1> QED
  BY <1>1, <1>2, <1>4, <1>5

\* Between two bounds before the rounding, between them after it: a rounded
\* mean of prices lies among the prices (position.py:60-63).
LEMMA RoundHalfEvenBetween ==
  ASSUME NEW n \in Nat, NEW d \in Nat \ {0}, NEW low \in Nat, NEW high \in Nat,
         d * low <= n, n <= d * high
  PROVE  low <= RoundHalfEven(n, d) /\ RoundHalfEven(n, d) <= high
<1> DEFINE h == RoundHalfEven(n, d)
<1>1. h \in Nat /\ 2 * (d * h) <= 2 * n + d /\ 2 * n <= 2 * (d * h) + d
  BY RoundHalfEvenNat, RoundHalfEvenError
<1> HIDE DEF h
<1>2. low <= h
  <2>1. SUFFICES ASSUME h + 1 <= low PROVE FALSE
    BY <1>1
  <2>2. d * (h + 1) <= d * low
    BY <1>1, <2>1
  <2>3. d * (h + 1) = d * h + d /\ d * h \in Nat /\ d * low \in Nat
    BY <1>1
  <2> QED
    BY <1>1, <2>2, <2>3
<1>3. h <= high
  <2>1. SUFFICES ASSUME high + 1 <= h PROVE FALSE
    BY <1>1
  <2>2. d * (high + 1) <= d * h
    BY <1>1, <2>1
  <2>3. d * (high + 1) = d * high + d /\ d * high \in Nat /\ d * h \in Nat
    BY <1>1
  <2> QED
    BY <1>1, <2>2, <2>3
<1> QED
  BY <1>2, <1>3 DEF h
===============================================================================
