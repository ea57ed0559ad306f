CONSTANTS
  r1 = r1  d1 = d1  d2 = d2
  Receivers = {r1}
  Devices = {d1, d2}
  Reports <- OneThread
  Configs <- ShortOnly
  StatsInterval = 1
  MaxPackets = 2
  MaxTime = 3
SPECIFICATION StatsSpec
INVARIANTS StatsClockBounded
CHECK_DEADLOCK FALSE
