\* One symbol, two handlers at once, buys split in two by background tasks,
\* orders filled in part, every fault.
SPECIFICATION Spec
CONSTANTS
  Symbols = {s1}
  Tasks = {t1, t2}
  Prices <- PartialPrices
  ExecPrices <- OneExecPrice
  DefaultKrw = 2
  Cooldown = 2
  DcaSplits = 2
  Faults <- AllFaults
  MaxClock = 2
  MaxSignals = 2
  MaxEpoch = 1
SYMMETRY TaskSymmetry
INVARIANTS
  TypeOK
  CooldownSpacing
  SplitsBounded
  LedgerAtomic
  EventsFollowLedger
  TradesBacked
