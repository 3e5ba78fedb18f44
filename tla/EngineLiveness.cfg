SPECIFICATION FairSpec

CONSTANTS
    Tickets = {t1}
    Users = {u1, u2}
    Agents = {a1}
    Addrs = {n1}
    Handlers = {h1}
    Watchers = {w1}
    Scheduler = sched
    NoTicket = NoTicket
    NoUser = NoUser
    NoAgent = NoAgent
    NoAddr = NoAddr
    TheAgent = a1
    AgentOf <- OneProject
    Duration = 1
    MaxTime = 1
    MaxFaults = 1

CONSTRAINT NoShells

PROPERTY ExpiredIsRevoked
PROPERTY ForwardIsRebuilt
