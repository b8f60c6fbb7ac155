\* Two runs of five candles each, as a grid search and over two symbols.
SPECIFICATION Spec
CONSTANTS
  Prices <- SomePrices
  NumCandles = 5
  NumRuns = 2
  InitialBalance = 398
  Ratios <- SomeRatios
  FeeNum = 1
  FeeDen = 20
  FeeStep = 2
  MinOrder = 20
  Required = 2
  Limits <- SomeLimits
CHECK_DEADLOCK FALSE
INVARIANTS
  TypeOK
  PnlExplainsReturn
  BestIsFirstHighest
