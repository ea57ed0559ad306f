CONSTANTS
  UavPos = UavPos  LinkQuality = LinkQuality
  TargetState = TargetState  NodeState = NodeState
  Raw = Raw
  Server = Server  Device = Device  Unknown = Unknown  NoText = NoText
  Digest = Digest  Malformed = Malformed  Source = Source
  n1 = n1  n2 = n2  topic1 = topic1
  RecvAt = 18
  Wide = 4096
  Values <- TestValues
  Peers <- TestPeers
  Topics <- TestTopics
  Kinds <- TestKinds
  Ids <- TestIds
  deviceType = n2
  MaxFields = 3
SPECIFICATION Spec
INVARIANTS NothingInvented OnlyTheFieldIsLost DataAsPromised PeerIsLastResort
CHECK_DEADLOCK FALSE
