CONSTANTS
  c1 = c1  c2 = c2  a = a  b = b
  Clients = {c1, c2}
  Owners = {c1}
  Ids = {a, b}
  PointConfigs <- MixedPoints
  Configs <- MixedConfigs
  Registered = {"json"}
  Taken = {2}
  Objs = {1, 2, 3, 4, 5}
SPECIFICATION FairSpec
INVARIANTS TypeOK PortExclusive NoPointLeaks ConfigListsPoints
PROPERTIES Undisturbed CallsReturn
