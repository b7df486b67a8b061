SPECIFICATION ExploreSpec
CONSTANTS
    I32Max = 100000
    Entry = 4096
    Codes <- MCCodes
INVARIANTS
    ExploreTypeOK
    ExplorerCovers
    NothingInvented
    PredicatesHold
    StatesAccepted
CHECK_DEADLOCK FALSE
