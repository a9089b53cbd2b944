SPECIFICATION FairSpec
CONSTANTS
    s1 = s1  p1 = p1  p2 = p2  q1 = q1  q2 = q2  q3 = q3  q4 = q4  q5 = q5
    Stmt = {s1}
    Portal = {p1, p2}
    NoPortal = NoPortal
    Query = {q1, q2, q3, q4, q5}
    NoQuery = NoQuery
    Kind <- MCKind
    Clients <- MCClients
    MaxRows = 3
    MaxCursor = 1
    MaxInbox = 1
CHECK_DEADLOCK FALSE
INVARIANTS CompletionTrue CursorsReleased
PROPERTIES SyncAnswered NoRowSkipped
