SPECIFICATION FairSpec
CONSTANTS
    Streams = {s1, s2}
    Callers = {c1, c2}
    One = c1
    Many = c2
    HowMany = 2
    Targets <- CallTargets
    NoStream = NoStream
    SendCap = 1
    WireCap = 1
INVARIANT SuccessIsEarned
INVARIANT HandledInOrder
INVARIANT ReceiveNeverBlocks
INVARIANT ConnsIsRight
PROPERTY ImplementsGateway
PROPERTY ReachableUnlessRobbed
\* Streams and calls are used once: everything may be over.
CHECK_DEADLOCK FALSE
