SPECIFICATION TrackSpec
CONSTANTS
    Forms <- MCForms
    Starts <- MCStarts
    BitsOf <- MCBitsOf
    MaxSteps = 3
    Unknown = Unknown
INVARIANTS
    TrackTypeOK
    KnowledgeHolds
    PredictionsHold
    NothingForgotten
CHECK_DEADLOCK FALSE
