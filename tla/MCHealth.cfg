CONSTANTS
  r1 = r1  r2 = r2  d1 = d1  d2 = d2  d3 = d3
  Receivers = {r1, r2}
  Devices = {d1, d2, d3}
  Reports <- TwoThreads
  Configs <- ShortAndLong
  MaxPackets = 3
  MaxTime = 4
SPECIFICATION FairSpec
INVARIANTS TypeOK LedgerAccounts EventAccounting
PROPERTIES NoFalseOffline StalestGoesFirst SilentGoesOffline
CHECK_DEADLOCK FALSE
