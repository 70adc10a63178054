\* Two datagrams of one source address, traffic statistics on, fair scheduling.
CONSTANTS
    p1 = p1
    p2 = p2
    k1 = k1
    None = None
    Packets = {p1, p2}
    Keys = {k1}
    NatKey <- OneKey
    TrafficStats = TRUE
SPECIFICATION FairSpec
INVARIANTS
    EntryIsServed
    SoleSessionReachable
    HandedOverOnce
PROPERTIES
    ImplementsCreateOnce
    WaitersReleased
    ClosedSessionLeavesTable
CHECK_DEADLOCK FALSE
