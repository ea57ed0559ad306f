CONSTANTS
  MaxSeq = 5
  MaxLag = 1
  MaxDuplicates = 1
  MaxRestarts = 1
  MaxWindow = 1
SPECIFICATION Spec
INVARIANTS TypeOK FiguresConsistent FiguresExact
PROPERTIES FallingBackAddsNoLoss
CHECK_DEADLOCK FALSE
