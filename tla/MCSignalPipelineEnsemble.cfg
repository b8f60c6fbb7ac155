\* The ensemble of main.py.
SPECIFICATION Spec
CONSTANTS
  Closes <- TwoCloses
  Count = 4
  MaxCandles = 5
  MaxBatches = 2
  DbFails = TRUE
  Engine <- MainEngine
  Ensembles <- MainEnsemble
  ThresholdPct = 60
  MaWindows = {2, 3}
  ShortWindow = 1
  RsiPeriod = 2
  RsiLow = 30
  RsiHigh = 70
  BandWindow = 3
  NumStd = 1
  MacdSlow = 1
  MacdSignal = 1
  Margin = 1
  TrainingSizes = {6}
  LookAhead = 1
  MinSamples = 1
INVARIANT CrossIsHeard
