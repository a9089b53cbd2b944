SPECIFICATION Spec
CONSTANTS
    NULL = NULL
    LikeMatches = {2}
    Queries <- NotQueries
    Databases <- MCDatabases
INVARIANT
    MeaningKept
CHECK_DEADLOCK FALSE
