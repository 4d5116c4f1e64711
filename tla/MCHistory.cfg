SPECIFICATION FairSpec
CONSTANTS
  Worker = {w1}
  Client = {c1, c2}
  Live = Live
  None = None
  MaxTime = 2
  MaxChanges = 2
INVARIANTS
  HistoryInv
PROPERTIES
  ShowsTimeAsked
  CallsEnd
CHECK_DEADLOCK FALSE
