SPECIFICATION ReadingSpec
CONSTANTS
  Length <- OneFrame
  Boundary <- FrameEnds
  KeepOpen <- KeepBoth
  HalfOpenTimeout = TRUE
  SwallowsCancel = FALSE
  BadRules = {"up"}
  MaxTerminates = 2
  MaxSwaps = 0
  Injecting = {}
CHECK_DEADLOCK FALSE
PROPERTY SessionsEnd
