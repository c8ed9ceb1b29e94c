SPECIFICATION Spec
CONSTANTS
    Entries = {e1}
    Texts = {t1, t2}
    Statuses = {"hypothesis", "maybe"}
    ValidStatuses = {"hypothesis"}
    MaxWork = 3
    Paths = {"a", "b"}
    Damage = {0, 4}
    McpAvailable = FALSE
    MaxEdits = 1
    MaxSaves = 2
    MaxOpens = 2
ACTION_CONSTRAINT MCBound
CHECK_DEADLOCK FALSE
INVARIANT NoStarMeansSaved
PROPERTY LockedWordIsFinal
PROPERTY ReopenedIsWhatWasSaved
