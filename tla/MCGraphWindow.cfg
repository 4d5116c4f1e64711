SPECIFICATION Spec
CONSTANTS
  Kinds = {"memory", "disk", "network", "sensors", "cpu"}
  Devices = {"a", "b"}
  MaxTotal = 2
  Samples = 2
  MaxQueue = 2
  MaxChanges = 3
INVARIANTS
  GraphInv
PROPERTIES
  MisuseExplained
  Follows
