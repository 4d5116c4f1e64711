SPECIFICATION FairSpec
CONSTANTS
  MaxTime = 2
  Recent = 2
  MaxInputs = 3
INVARIANTS
  WindowInv
PROPERTIES
  AskedIsShown
  Settles
CHECK_DEADLOCK FALSE
