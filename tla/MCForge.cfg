CONSTANTS
    MaxConns = 2
    MaxClicks = 2
    Setups <- MCSetups
SPECIFICATION Spec
CHECK_DEADLOCK FALSE
INVARIANT ChunksInOrder
INVARIANT StatusIsTrue
PROPERTY WritesAreOpen
 
