\* One symbol; stop at -25 %, take at +25 %.  The jobs fire at midnight and
\* 09:00 of a host in KST, and may be missed.
SPECIFICATION ProtectionSpec
CONSTANTS
  Symbols = {s1}
  FillPrices <- BuyPrices
  FillQtys <- SomeQtys
  MaxQty = 4
  MaxDrift = 12
  TickPrices <- SomeTickPrices
  StopNum = 1
  TakeNum = 1
  PctDen = 4
  MaxOrderKrw = 5
  MaxDailyLossKrw = 3
  RatioNum = 3
  RatioDen = 10
  HoursPerDay = 4
  ResetHour = 3
  KstOffset = 1
  ReportHour = 0
  Quantities <- SomeQuantities
  Prices <- SomePrices
  Balances <- SomeBalances
  Losses <- SomeLosses
  Positions <- SomePositions
  MaxHour = 15
  MaxLoss = 4
INVARIANTS
  MonitorTypeOK
  AveragePriceAmongPrices
  AverageExplainsCost
  OneSellPerEntry
  ApprovedWithinLimits
  NoStaleLoss
  CountedOnce
  NoneForgotten
