---------------------------- MODULE StopLossMonitor ----------------------------
(***************************************************************************)
(* execution/stop_loss.py over the positions of PositionManager: a price   *)
(* tick far enough from the average price publishes one SELL signal, and   *)
(* the symbol stays in _triggered until a tick finds its position closed.  *)
(* _triggered is updated before the handler first suspends, so a tick is   *)
(* one step.  The positions move between ticks, by PositionManager's fills *)
(* (its PositionNext).                                                     *)
(***************************************************************************)
EXTENDS PositionManager

CONSTANTS
  TickPrices,                \* prices a tick may carry
  StopNum, TakeNum, PctDen   \* stop_loss_pct and take_profit_pct, over PctDen

ASSUME StopLossMonitorAssumption ==
  /\ TickPrices \subseteq Nat
  /\ StopNum \in Nat /\ TakeNum \in Nat /\ PctDen \in Nat \ {0}

VARIABLES
  triggered,  \* _triggered
  fired       \* history: SELL signals published for the current entry

monitorVars == <<positions, entries, triggered, fired>>

\* The profit rate reaches -stop_loss_pct or take_profit_pct; a position that
\* cost nothing has no rate.
Breaches(p, price) ==
  LET pnl == UnrealizedPnl(p, price)
      cost == p.avgPrice * p.quantity
  IN  /\ cost # 0
      /\ pnl * PctDen <= -StopNum * cost \/ pnl * PctDen >= TakeNum * cost

\* A tick of a symbol without a position arms the monitor again.
Rearm(s) ==
  /\ ~IsOpen(positions[s])
  /\ triggered' = triggered \ {s}
  /\ UNCHANGED fired

\* A tick that calls for nothing.
Hold(s, price) ==
  /\ IsOpen(positions[s])
  /\ s \in triggered \/ ~Breaches(positions[s], price)
  /\ UNCHANGED <<triggered, fired>>

\* Mutant: the symbol is not remembered.
TriggerForgets(s, price) ==
  /\ IsOpen(positions[s])
  /\ s \notin triggered
  /\ Breaches(positions[s], price)
  /\ triggered' = triggered
  /\ fired' = [fired EXCEPT ![s] = @ + 1]

\* A tick that publishes a SELL signal.
Trigger(s, price) ==
  /\ IsOpen(positions[s])
  /\ s \notin triggered
  /\ Breaches(positions[s], price)
  /\ triggered' = triggered \cup {s}
  /\ fired' = [fired EXCEPT ![s] = @ + 1]

-------------------------------------------------------------------------------

MonitorInit ==
  /\ PositionInit
  /\ triggered = {}
  /\ fired = [s \in Symbols |-> 0]

OnPriceUpdated ==
  \E s \in Symbols, price \in TickPrices :
    /\ Rearm(s) \/ Hold(s, price) \/ Trigger(s, price)
    /\ UNCHANGED <<positions, entries>>

\* A position that opens is a new entry, for which nothing fired yet.
CountEntries ==
  fired' = [s \in Symbols |->
              IF ~IsOpen(positions[s]) /\ IsOpen(positions'[s])
              THEN 0 ELSE fired[s]]

Fill ==
  /\ PositionNext
  /\ CountEntries
  /\ UNCHANGED triggered

MonitorNext == OnPriceUpdated \/ Fill

MonitorSpec == MonitorInit /\ [][MonitorNext]_monitorVars

-------------------------------------------------------------------------------

\* Positions, their histories, triggered symbols and signal counts keep their types.
MonitorTypeOK ==
  /\ PositionTypeOK
  /\ entries \in [Symbols -> Entry]
  /\ triggered \subseteq Symbols
  /\ fired \in [Symbols -> Nat]

\* "no second trigger until the position is closed" (stop_loss.py:11): an
\* entry is sold at most once by the monitor, whatever fills and ticks
\* interleave, partial sells and further buys included.
OneSellPerEntry == \A s \in Symbols : IsOpen(positions[s]) => fired[s] <= 1

===============================================================================
