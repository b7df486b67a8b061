SPECIFICATION RunSpec
CONSTANTS
    I32Max = 100000
    Origin = 8192
    MaxBlock = 3
    Programs <- MCPrograms
    Needs <- MCNeeds
    Placements <- MCPlacements
    Continuations <- MCContinuations
    Capacities <- MCCapacities
    Grants <- MCGrants
    Exempt = {"absolute call", "a32 condition", "16-bit jcc", "unflagged reference", "misread displacement", "target in patch"}
INVARIANT NeverDerails
PROPERTIES
    RunsAsOriginal
    Leaves
CHECK_DEADLOCK FALSE
