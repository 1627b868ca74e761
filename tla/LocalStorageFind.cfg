CONSTANTS
  Keys = {1, 2, 3, 4, 5, 6}
  Hosts = {"h1", "h2"}
  NoHost = "none"
  Scripts = {"s1", "s2"}
  Meaning <- SmallMeaning
  Values = {"good", "bad", "huge"}
  Decodable = {"good"}
  Overflowing = {"huge"}
  WriteBatches <- SmallBatches
  MaxSeq = 4
  MaxFile = 4
  LiveBrowser = FALSE
SPECIFICATION LsSpec
INVARIANT FindsCovering
CHECK_DEADLOCK FALSE
