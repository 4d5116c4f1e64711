SPECIFICATION ScalarsSpec
CONSTANTS
  Kinds = {"memory", "video", "power", "core"}
  Page = 2
  Wide = 256
  Half <- Widths
  Bytes = {0, 1, 11}
  Ticks <- TickCounts
  Intervals = {1, 3}
  MaxCards = 2
  MaxLog = 3
INVARIANTS
  ScalarsInv
  PercentFair
