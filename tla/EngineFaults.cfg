SPECIFICATION Spec

CONSTANTS
    Tickets = {t1}
    Users = {u1, u2}
    Agents = {a1}
    Addrs = {n1, n2}
    Handlers = {h1, h2}
    Watchers = {w1}
    Scheduler = sched
    NoTicket = NoTicket
    NoUser = NoUser
    NoAgent = NoAgent
    NoAddr = NoAddr
    TheAgent = a1
    AgentOf <- OneProject
    Duration = 2
    MaxTime = 3
    MaxFaults = 2

SYMMETRY Symmetry

CONSTRAINT Calm

INVARIANT Ownership
INVARIANT WindowIsKept
INVARIANT ClosedIsUnreachable
INVARIANT StaleAddressIsRepaired
PROPERTY DecisionStands
PROPERTY ImplementsLifecycle
