CONSTANTS
  UserKeys <- SomeKeys
  Values = {2}
  Interval = 2
  MaxEntries = 3
  Readers = {r1, r2}
SPECIFICATION Spec
INVARIANTS
  TypeOK
  NoError
  Complete
  OffsetsIdentify
PROPERTY
  ImplementsTableScan
CHECK_DEADLOCK FALSE
