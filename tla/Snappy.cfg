CONSTANTS
  Bytes = {1, 2}
  MaxText = 9
  MaxOffset = 10
SPECIFICATION Spec
INVARIANTS
  TypeOK
  RoundTrip
  CutDetected
CHECK_DEADLOCK FALSE
