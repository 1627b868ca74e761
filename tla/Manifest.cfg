CONSTANTS
  MaxFile = 5
  MaxEdits = 4
  MaxLevel = 2
SPECIFICATION Spec
INVARIANTS
  TypeOK
  EditsRight
  LevelsRight
CHECK_DEADLOCK FALSE
