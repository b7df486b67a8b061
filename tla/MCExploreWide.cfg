SPECIFICATION ExploreSpec
CONSTANTS
    I32Max = 100000
    Entry = 4096
    Codes <- Wide
INVARIANT PredicatesHold
CHECK_DEADLOCK FALSE
