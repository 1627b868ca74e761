CONSTANTS
  Primitives = {"true", "one", "wide", "lone"}
  Leaves = {"regexp", "errorc", "host"}
  Containers = {"object", "sparse", "dense", "map", "set"}
  Depth = 4
  Memory = 2
  MaxValues = 4
  MaxLength = 3
SPECIFICATION Spec
INVARIANTS
  TypeOK
  Recovered
  RightOrNothing
  V8ErrorOnly
PROPERTY Ends
CHECK_DEADLOCK FALSE
