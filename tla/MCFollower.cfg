SPECIFICATION FairSpec
CONSTANTS
  Sizes = {1, 2}
  Torn = TRUE
  SeekMin = 4
  MaxGen = 2
  MaxFrames = 3
INVARIANTS
  FollowerInv
PROPERTIES
  FollowsTail
  CatchesUp
CHECK_DEADLOCK FALSE
