SPECIFICATION FairSignalSpec
CONSTANTS
  Window = {w1}
  Poller = Poller
  None = None
  Slow = TRUE
  Leaves = TRUE
  MaxCount = 3
INVARIANTS
  SignalTyped
  NoSpuriousUpdate
  FreedOnlyByOrphaning
PROPERTIES
  ThreadsProgress
CHECK_DEADLOCK FALSE
