SPECIFICATION Spec
CONSTANTS
  World = 2
  MAX_TRIES = 2
  UidBytes = 2
  FAULTS = {"flush"}
INVARIANTS NeverPartial
CHECK_DEADLOCK FALSE
