\* Both modes, two clients that come and go, a stream shorter than the history.
SPECIFICATION FairSpec
CONSTANTS
  Clients = {c1, c2}
  Slots = 3
  MaxEvents = 3
  MaxCalling = 2
  MaxLen = 2
  BatchSize = 2
  MaxOutages = 1
INVARIANTS
  TypeOK
  EffectsFirst
PROPERTIES
  ReaderSkipsNothing
  ReaderKeepsUp
  PublicationsEnd
