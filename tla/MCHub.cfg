CONSTANTS
  b = b  w = w  r = r  k = k
  Clients = {b}
  Sockets = {w}
  Throwing = {b}
  Emitters = {r}
  Consumer = k
  MaxBatch = 2
  MaxBroadcasts = 4
SPECIFICATION FairSpec
INVARIANTS TypeOK HearsItsBroadcasts
PROPERTIES BatchesWhole BroadcastsEnd
CHECK_DEADLOCK FALSE
