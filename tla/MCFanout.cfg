CONSTANTS
  r1 = r1  d1 = d1  d2 = d2
  Receivers = {r1}
  Devices = {d1, d2}
  NoDevice = NoDevice
  EventName = EventName
  Limits = {0, 2}
  MaxReports = 2
  MaxTotal = 3
SPECIFICATION FairSpec
INVARIANTS TypeOK QueueBounded NothingUncounted PipeOrdered LastPerKeyInFirstOrder OnlyLateIsLeft
PROPERTIES Delivers EveryReportSettles StopReturns
CHECK_DEADLOCK FALSE
