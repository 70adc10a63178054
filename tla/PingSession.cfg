\* Two echo requests to one host and one to another.
CONSTANTS
    r1 = r1
    r2 = r2
    r3 = r3
    k1 = k1
    k2 = k2
    None = None
    Requests = {r1, r2, r3}
    Keys = {k1, k2}
    NatKey <- TwoKeys
SPECIFICATION Spec
INVARIANTS
    LoopNeverWaits
    EntryIffReader
    CloserOwnership
    MessageOwnership
CHECK_DEADLOCK FALSE
