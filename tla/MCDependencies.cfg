SPECIFICATION Spec
CONSTANTS
    p1 = p1
    p2 = p2
    t1 = t1
    v1 = v1
    v2 = v2
    k1 = k1
    f1 = f1
    NoDef = NoDef
    Proc = {p1, p2}
    Table = {t1}
    View = {v1, v2}
    Func = {1, 2}
    NameOf <- MCNameOf
    Constraint = {1, 2}
    Extract = {2}
    PKey = {k1}
    ViewDefs <- MCViewDefs
    TableDefs <- MCTableDefs
INVARIANT IndexesAgree
PROPERTY DropKeepsDependents
CONSTRAINT LvnBound
SYMMETRY Symm
