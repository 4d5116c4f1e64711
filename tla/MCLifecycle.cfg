SPECIFICATION FairSpec
CONSTANTS
  None = None
  Pid = {p1, p2, p3}
  Inode = {i1, i2, i3}
  Starter = {s1, s2}
  Stopper = {t1}
  Tries = 1
  MaxCrash = 1
  MaxOther = 1
INVARIANTS
  LifecycleInv
PROPERTIES
  StartsAfterCrash
CHECK_DEADLOCK FALSE
