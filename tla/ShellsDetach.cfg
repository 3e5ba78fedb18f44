SPECIFICATION Spec
CONSTANTS
    Tickets = {t1}
    Conns = {c1}
    Sessions = {s1}
    NoTicket = NoTicket
    NoSession = NoSession
    Cap = 1
INVARIANT DetachIsHarmless
\* Connections are used once: everything may be over.
CHECK_DEADLOCK FALSE
