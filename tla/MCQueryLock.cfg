CONSTANTS
    r1 = r1
    r2 = r2
    NoProc = NoProc
    Proc = {r1, r2}
    Rocto = {r1, r2}
    Stmts = {"plan", "parse", "set", "truncate", "create", "drop"}
    MaxHold = 2
SPECIFICATION FairSpec
INVARIANTS
    DDLExclusion
    LocksBalanced
    NoMutualWait
PROPERTIES
    StatementReturns
    ImplementsGuard
