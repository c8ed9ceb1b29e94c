SPECIFICATION Spec
CONSTANTS
    MaxLength = 4
    MinLength = 2
    MaxFound = 2
CHECK_DEADLOCK FALSE
PROPERTY ScanEnds
