\* A TCP connection and a UDP session of one app, and one ResetAppTraffics.
CONSTANTS
    c1 = c1
    c2 = c2
    u1 = u1
    r1 = r1
    None = None
    Conns = {c1, c2}
    Tcp = {c1}
    Uids = {u1}
    UidOf <- OneApp
    MaxResets = 1
    MaxCloses = 0
    Readers = {}
    MaxTraffic = 0
SPECIFICATION TrafficSpec
INVARIANT SyncReadSucceeds
CHECK_DEADLOCK FALSE
