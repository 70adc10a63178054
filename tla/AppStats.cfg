\* A TCP connection and a UDP session of one app, one reset, one walk and one reader.
CONSTANTS
    c1 = c1
    c2 = c2
    u1 = u1
    r1 = r1
    None = None
    Conns = {c1, c2}
    Tcp = {c1}
    Uids = {u1}
    UidOf <- OneApp
    MaxResets = 1
    MaxCloses = 1
    Readers = {r1}
    MaxTraffic = 2
SPECIFICATION TrafficSpec
INVARIANTS
    QuiescentIsStamped
    CountersExact
    WalkClosesAll
    NobodyStuck
    TrafficConserved
CHECK_DEADLOCK FALSE
