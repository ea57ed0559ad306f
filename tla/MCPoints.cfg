CONSTANTS
  p1 = p1  p2 = p2  i1 = i1  q1 = q1  q2 = q2
  Ids = {p1, p2}
  Objs = {1, 2, 3}
  Injectors = {i1}
  Queriers = {q1, q2}
  Packets <- Kinds
  Wrap = 16
  MaxOps = 4
  MaxTime = 3
SPECIFICATION Spec
INVARIANTS PacketsAccounted InjectAnswers EveryPointListed CreditedOnce
SYMMETRY Either
CHECK_DEADLOCK FALSE
