CONSTANTS
  c1 = c1  c2 = c2  a = a  b = b
  Clients = {c1}
  Owners = {c1}
  Ids = {a, b}
  PointConfigs <- SwapPoints
  Configs <- SwapConfigs
  Registered = {"json"}
  Taken = {2}
  Objs = {1, 2, 3, 4, 5}
SPECIFICATION Spec
INVARIANTS ConfiguredPointsUp
