SPECIFICATION Spec
CONSTANTS
    Users = {root, u1}
    Root = root
    Tickets = {t1}
    Logins = {l1, l2}
    NoUser = NoUser
    MaxFailures = 2
    LockTime = 1
    AccessTTL = 2
    RefreshTTL = 3
    Window = 1
    MaxTime = 3
    MaxTokens = 2
    MaxLost = 1
SYMMETRY Symmetry
CONSTRAINT Few
INVARIANT GuessesAreBounded
INVARIANT ActsAreBacked
INVARIANT InactiveRunsOut
PROPERTY LockHolds
\* The clock is bounded: everything may be over.
CHECK_DEADLOCK FALSE
