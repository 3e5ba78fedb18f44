SPECIFICATION FairSpec
CONSTANTS
    Tickets = {t1}
    Conns = {c1, c2}
    Sessions = {s1, s2}
    NoTicket = NoTicket
    NoSession = NoSession
    Cap = 1
    FirstSession = s1
CONSTRAINT InOrder
CONSTRAINT Quiet
CONSTRAINT Over
INVARIANT TableIsKept
INVARIANT ForceCloseIsThorough
INVARIANT RowsAreTrue
PROPERTY ImplementsShellTable
PROPERTY RevokeReturns
PROPERTY AttachedAreTold
PROPERTY EndedIsCleared
\* Connections are used once: everything may be over.
CHECK_DEADLOCK FALSE
