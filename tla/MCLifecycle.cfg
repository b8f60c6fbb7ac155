\* Any order of start-up, lost connections, signals, restarts and two updates.
SPECIFICATION FairSpec
CONSTANTS
  MaxUpdates = 2
INVARIANTS
  TypeOK
  TickFindsHandlers
  LastMessageWins
  HashFollowsParams
PROPERTIES
  FeedReconnects
  CleansUp
