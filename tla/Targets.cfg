SPECIFICATION Spec
CONSTANTS
    Projects = {p1, p2}
    Tickets = {t1, t2}
    NoProject = NoProject
    NoTicket = NoTicket
    MaxAssets = 2
    MaxFaults = 2
SYMMETRY Symmetry
CONSTRAINT Few
INVARIANT AccessIsFrozen
INVARIANT ShellIsOnRecord
\* Tickets are used once: everything may be over.
CHECK_DEADLOCK FALSE
