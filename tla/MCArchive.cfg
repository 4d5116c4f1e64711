SPECIFICATION FairSpec
CONSTANTS
  Slots = 2
  PerSlot = 1
  MaxTime = 3
  MaxFaults = 1
  MaxReads = 1
INVARIANTS
  ArchiveInv
PROPERTIES
  DeathExplained
  KeepsSaved
  RotationEnds
CHECK_DEADLOCK FALSE
