\* Buys split in two by the background task, lost responses, failing commits
\* and a restart in the middle of a batch, sells once the cooldown has passed.
SPECIFICATION FairSpec
CONSTANTS
  Symbols = {s1}
  Prices <- TwoPrices
  DefaultKrw = 2
  Cooldown = 1
  DcaSplits = 2
  Faults <- AllFaults
  MaxClock = 1
  MaxSignals = 3
  MaxEpoch = 1
  StopNum = 1
  TakeNum = 1
  PctDen = 4
  Strategies = 1
  InitialKrw = 2
  MaxOrderKrw = 2
  MaxDailyLossKrw = 100
  RatioNum = 1
  RatioDen = 2
INVARIANT PositionFollowsTrades
PROPERTIES
  ImplementsOrderManager
  FeedGoesOn
  TasksFinish
ACTION_CONSTRAINTS
  BetweenTicks
  ClockOrRestart
