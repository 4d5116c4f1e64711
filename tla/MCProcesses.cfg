SPECIFICATION ProcessesSpec
CONSTANTS
  Pids = {1}
  Own = 1
  MaxStarts = 2
  MaxTime = 3
  MaxBehind = 2
  MaxQueue = 1
  MaxInputs = 1
INVARIANTS
  CountsInv
  ViewInv
PROPERTIES
  Follows
