SPECIFICATION Spec
CONSTANTS
  Processes = {a, b}
  MaxStarts = 3
  MaxInputs = 2
  MaxCrashes = 1
INVARIANTS
  SessionInv
PROPERTIES
  OverlapShares
  AnsweredIsOpen
  Restored
CHECK_DEADLOCK FALSE
