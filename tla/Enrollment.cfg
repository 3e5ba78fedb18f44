SPECIFICATION FairSpec
CONSTANTS
    Daemons = {d1, d2}
    Hosts = {edge, core}
    Edge = edge
    Host <- DaemonHost
    MaxFaults = 2
INVARIANT StreamIsApproved
INVARIANT RolesInOrder
INVARIANT HostKeepsItsRow
PROPERTY ApprovedConnects
