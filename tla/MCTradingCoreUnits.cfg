\* No fault: the quantity of a buy is a number of coins.
SPECIFICATION Spec
CONSTANTS
  Symbols = {s1}
  Prices <- TwoPrices
  DefaultKrw = 4
  Cooldown = 1
  DcaSplits = 1
  Faults <- NoFaults
  MaxClock = 2
  MaxSignals = 4
  MaxEpoch = 0
  StopNum = 1
  TakeNum = 1
  PctDen = 4
  Strategies = 1
  InitialKrw = 8
  MaxOrderKrw = 4
  MaxDailyLossKrw = 100
  RatioNum = 1
  RatioDen = 2
PROPERTY BuysForAmount
