--------------------------- MODULE PositionManager ---------------------------
(***************************************************************************)
(* portfolio/position.py: the position the process believes it holds in    *)
(* each symbol, kept in memory and moved by the ORDER_FILLED events alone. *)
(* on_order_filled changes the position before its only await (the row it  *)
(* appends to the positions table, whose failure is ignored), so a fill is *)
(* one step.                                                               *)
(***************************************************************************)
EXTENDS Integers, Decimals

CONSTANTS
  Symbols,
  FillPrices,  \* prices a fill may report
  FillQtys,    \* quantities a fill may report; a response may report none
  MaxQty,      \* bound on the quantity held
  MaxDrift     \* bound on what the history of an entry adds up

ASSUME PositionManagerAssumption ==
  /\ FillPrices \subseteq Nat /\ FillQtys \subseteq Nat
  /\ MaxQty \in Nat /\ MaxDrift \in Nat

VARIABLES
  positions,  \* _positions; a symbol without an entry is Closed
  entries     \* history: what was paid for the position that is open

Position == [quantity : Nat, avgPrice : Nat]

Closed == [quantity |-> 0, avgPrice |-> 0]

IsOpen(p) == p.quantity > 0

UnrealizedPnl(p, price) == (price - p.avgPrice) * p.quantity

\* Mutant: the cost is divided by the quantity held before.
BuyIntoOldQuantity(p, qty, price) ==
  [quantity |-> p.quantity + qty,
   avgPrice |-> IF p.quantity > 0
                THEN RoundHalfEven(p.avgPrice * p.quantity + price * qty, p.quantity)
                ELSE IF qty > 0 THEN price ELSE 0]

\* Mutant: the average price is the last one paid.
BuyIntoLastPrice(p, qty, price) ==
  [quantity |-> p.quantity + qty,
   avgPrice |-> IF qty > 0 THEN price ELSE p.avgPrice]

\* A buy moves the average price to the weighted mean, zero when nothing was
\* executed on an empty position.
BuyInto(p, qty, price) ==
  LET held == p.quantity + qty IN
  [quantity |-> held,
   avgPrice |-> IF held > 0
                THEN RoundHalfEven(p.avgPrice * p.quantity + price * qty, held)
                ELSE 0]

\* Mutant: selling more than is held leaves a short position.
SellFromGoesShort(p, qty) == [p EXCEPT !.quantity = @ - qty]

\* A sell leaves the average price alone; selling more than is held closes.
SellFrom(p, qty) ==
  IF p.quantity > qty THEN [p EXCEPT !.quantity = @ - qty] ELSE Closed

OnOrderFilled(s, side, qty, price) ==
  positions' = [positions EXCEPT ![s] =
                  IF side = "buy" THEN BuyInto(@, qty, price) ELSE SellFrom(@, qty)]

-------------------------------------------------------------------------------
\* The history: the prices the buys of the entry paid; their exact cost, less
\* what was sold of it at the average price of the moment; and the quantities
\* held after each of those buys, which is what the means may have rounded.

Entry == [prices : SUBSET FillPrices, cost : Int, drift : Nat]

NoEntry == [prices |-> {}, cost |-> 0, drift |-> 0]

Paid(e, qty, price, held) ==
  [prices |-> e.prices \cup {price}, cost |-> e.cost + price * qty, drift |-> e.drift + held]

EntryAfter(e, before, after, side, qty, price) ==
  CASE ~IsOpen(after) -> NoEntry
    [] IsOpen(after) /\ side = "sell" -> [e EXCEPT !.cost = @ - before.avgPrice * qty]
    [] IsOpen(after) /\ side = "buy" /\ qty > 0 -> Paid(e, qty, price, after.quantity)
    [] OTHER -> e

RecordEntry(s, side, qty, price) ==
  entries' = [entries EXCEPT ![s] =
                EntryAfter(@, positions[s], positions'[s], side, qty, price)]

-------------------------------------------------------------------------------

PositionInit ==
  /\ positions = [s \in Symbols |-> Closed]
  /\ entries = [s \in Symbols |-> NoEntry]

PositionNext ==
  \E s \in Symbols, side \in {"buy", "sell"}, qty \in FillQtys, price \in FillPrices :
    /\ positions[s].quantity + qty <= MaxQty
    /\ side = "buy" => entries[s].drift + positions[s].quantity + qty <= MaxDrift
    /\ OnOrderFilled(s, side, qty, price)
    /\ RecordEntry(s, side, qty, price)

PositionSpec == PositionInit /\ [][PositionNext]_<<positions, entries>>

-------------------------------------------------------------------------------

\* A position has a non-negative quantity and average price.
PositionTypeOK == positions \in [Symbols -> Position]

\* The average price of what is held lies between two prices that this entry's
\* own buys paid, after any mix of buys, partial sells, fills of nothing and an
\* earlier entry that was sold or oversold; and nothing held has no price
\* (position.py:60-68).
AveragePriceAmongPrices ==
  \A s \in Symbols :
    LET p == positions[s] IN
    /\ IsOpen(p) => /\ \E low \in entries[s].prices : low <= p.avgPrice
                    /\ \E high \in entries[s].prices : p.avgPrice <= high
    /\ ~IsOpen(p) => p = Closed

\* The quantity held at its average price is what the entry's buys cost, parts
\* sold taken out at the average of that moment, but for the rounding of the
\* means: half a unit of price for each unit held at each buy, which adds up
\* and is never made good (position.py:61-68).
AverageExplainsCost ==
  \A s \in Symbols :
    LET p == positions[s] IN
    IsOpen(p) => 2 * Abs(p.avgPrice * p.quantity - entries[s].cost) <= entries[s].drift
===============================================================================
