CONSTANTS
  Keys = {1, 2, 3, 4, 5, 6, 7}
  Values = {"m1", "m2", "good"}
  WriteBatches <- VersionBatch
  Namespaces = {"n1", "n2"}
  Hosts = {"h1", "h2"}
  MapIds = {"m1", "m2"}
  Scripts = {"s1"}
  Meaning <- SmallMeaning
  Decodable = {"s1", "good"}
  MaxSeq = 5
  MaxFile = 4
  LiveBrowser = FALSE
SPECIFICATION SsSpec
INVARIANTS
  SsTypeOK
  HostRight
  CurrentVisible
CHECK_DEADLOCK FALSE
