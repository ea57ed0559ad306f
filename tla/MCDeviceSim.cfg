CONSTANTS
  totalTicks = 13
  MaxWindow = 1
SPECIFICATION SimSpec
INVARIANTS InjectedIsMeasured
CHECK_DEADLOCK FALSE
