CONSTANTS
  EmptyText = EmptyText  NotAddresses = {colon1}  NoArray = NoArray
  LegacyId = LegacyId  LegacyGroup = LegacyGroup  LegacyParser = LegacyParser
  LegacyPort = 4
  Defaults <- TestDefaults
  MaxPort = 9
  Word32 = 32
  Word64 = 64
  id1 = id1  id2 = id2  parser1 = parser1  group1 = group1  group2 = group2  colon1 = colon1
  RootValues <- TestRootValues
  EnvValues <- TestEnvValues
  PointValues <- TestPointValues
  MaxKeys = 1
  MaxPoints = 3
  MaxEnv = 2
SPECIFICATION ConfigSpec
INVARIANTS AcceptedIffSound StartsThePoints
CHECK_DEADLOCK FALSE
