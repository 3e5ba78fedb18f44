SPECIFICATION FairSpec
CONSTANTS
    Rules = {r1}
    Listeners = {l1, l2, l3}
    Clients = {k1}
    Allowed = {k1}
    Loop = loop
    NoRule = NoRule
    NoListener = NoListener
CONSTRAINT Deaf
INVARIANT ListenerIsKept
PROPERTY ImplementsRuleTable
PROPERTY ExpiredIsClosed
PROPERTY ClosedIsCut
