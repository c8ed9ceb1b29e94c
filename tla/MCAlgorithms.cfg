SPECIFICATION Spec
CONSTANTS
    Bytes = {0, 1, 2}
    Framers <- MCFramers
    MaxStream = 5
    MaxRead = 3
CHECK_DEADLOCK FALSE
INVARIANT StreamsAreWhole
INVARIANT FieldsAreFaithful
INVARIANT GeneratedDataFits
INVARIANT ConversionsInvert
INVARIANT AnalysisIsExact
