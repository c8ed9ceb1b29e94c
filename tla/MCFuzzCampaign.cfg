CONSTANTS
    Iterations = 2
    Mutators = 2
    Templates <- MCTemplates
    MaxSize = 1
SPECIFICATION Spec
CHECK_DEADLOCK FALSE
INVARIANT ReplaysAreSound
INVARIANT TurnsAreKept
PROPERTY CampaignEnds
