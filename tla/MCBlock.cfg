SPECIFICATION BlockSpec
CONSTANTS
    I32Max = 127
    Origin = 1000
    MaxBlock = 3
    Programs <- MCPrograms
    Needs <- MCNeeds
INVARIANTS
    DecodeTypeOK
    BlockTiles
PROPERTIES
    ImplementsOracle
    DecodeReturns
CHECK_DEADLOCK FALSE
