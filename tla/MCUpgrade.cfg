SPECIFICATION FairSpec
CONSTANTS
    p1 = p1  p2 = p2
    f1 = f1  f2 = f2  t1 = t1  v1 = v1  v2 = v2  w = w
    Proc = {p1, p2}
    Rocto = {p2}
    BinFmt = 20  PlanFmt = 30  SeedFmt = 8  Seed929 = 7
    Functions <- MCFunctions
    Names <- MCNames
    Views <- MCViews
    Refs <- MCRefs
    Databases <- MCDatabases
    MaxFaults = 2
INVARIANTS
    FormatNodesTruthful
    DefinitionsKept
    RightsRestored
PROPERTIES
    ReadsUpgraded
    StartEnds
