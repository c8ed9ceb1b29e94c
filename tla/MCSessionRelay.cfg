SPECIFICATION Spec
CONSTANTS
  Length <- Rest
  Boundary <- RestEnds
  KeepOpen <- KeepNone
  HalfOpenTimeout = TRUE
  SwallowsCancel = TRUE
  BadRules = {"up"}
  MaxTerminates = 1
  MaxSwaps = 1
  Injecting = {"up"}
CHECK_DEADLOCK FALSE
INVARIANT StreamIntact
INVARIANT VerdictGoverns
INVARIANT ClosedIsQuiet
PROPERTY StatesAgree
