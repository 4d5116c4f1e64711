SPECIFICATION ColumnsSpec
CONSTANTS
  N = 4
  Items = {1}
  CacheSize = 1
  Keep = 0
  Batch = 1
  MaxInputs = 3
INVARIANTS
  ColumnsInv
PROPERTIES
  DropsWhereShown
  Settles
