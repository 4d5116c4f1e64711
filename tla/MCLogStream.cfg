SPECIFICATION Spec
CONSTANTS
  Order <- MCOrder
  Fields <- MCFields
  Value <- MCValue
  Key = {a}
  MaxLog = 4
INVARIANTS
  TypeOK
  PoolMatchesCaches
  ClientSound
  ClientComplete
  ToldComplete
