SPECIFICATION FairSpec
CONSTANTS
    I32Max = 100000
    Origin = 8192
    MaxBlock = 3
    Programs <- MCPrograms
    Needs <- MCNeeds
    Placements <- MCPlacements
    Continuations <- MCContinuations
    Capacities <- MCCapacities
    Grants <- MCGrants
INVARIANTS
    TypeOK
    LayoutSound
    RecordsMapPrologue
    ClobbersAccounted
    TargetsKept
PROPERTIES
    Returns
CHECK_DEADLOCK FALSE
