SPECIFICATION RunSpec
CONSTANTS
    I32Max = 100000
    Origin = 8192
    MaxBlock = 3
    Programs <- FarCalls
    Needs <- MCNeeds
    Placements <- MCPlacements
    Continuations <- MCContinuations
    Capacities <- MCCapacities
    Grants <- MCGrants
    Exempt = {"target in patch"}
INVARIANT NeverDerails
CHECK_DEADLOCK FALSE
