\* The documented shutdown, which the code does not do.
SPECIFICATION FairSpec
CONSTANTS
  MaxUpdates = 0
PROPERTY ShutsDown
