CONSTANTS
  r1 = r1  d1 = d1  d2 = d2
  Receivers = {r1}
  Devices = {d1, d2}
  Reports <- OneThread
  Configs <- ShortOnly
  MaxPackets = 3
  MaxTime = 3
SPECIFICATION SinkSpec
INVARIANTS SinkAgrees
CHECK_DEADLOCK FALSE
