SPECIFICATION FairSpec
CONSTANTS
    p1 = p1
    p2 = p2
    t1 = t1
    t2 = t2
    q1 = q1
    q2 = q2
    NoProc = NoProc
    NoName = NoName
    Proc <- MCProc
    Rocto = {p2}
    Table <- MCTable
    Plan <- MCPlan
    Uses <- MCUses
    MaxOid = 2
    MaxFault = 1
INVARIANTS DefinitionCurrent PlanFresh OnlyCrashesLeave
PROPERTY StatementEnds
