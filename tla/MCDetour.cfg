SPECIFICATION DetourSpec
CONSTANTS
    I32Max = 100000
    Origin = 8192
    MaxBlock = 4
    Programs <- MCPrograms
    Needs <- MCNeeds
    Placements <- MCPlacements
    Continuations <- MCContinuations
    Capacities <- MCCapacities
    Grants <- MCGrants
    Replacements <- MCReplacements
    Overrides <- MCOverrides
INVARIANTS
    DetourTypeOK
    PlannedSizeSuffices
    PlanHonoured
    PatchCovers
    NearEnough
CHECK_DEADLOCK FALSE
