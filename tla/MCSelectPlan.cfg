SPECIFICATION Spec
CONSTANTS
    NULL = NULL
    LikeMatches = {2}
    Queries <- MCQueries
    Databases <- MCDatabases
INVARIANTS
    MeaningKept
    RowsCorrect
    OrderKept
    BoundReads
CHECK_DEADLOCK FALSE
