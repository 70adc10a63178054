\* An IPv4 and an IPv6 flow, a first buffer and two more blocks, an MTU at and above
\* the size of a buffer; a row of a small and a larger view, two of each place.
CONSTANTS
    f4 = f4
    f6 = f6
    b0 = b0
    b1 = b1
    b2 = b2
    Flows = {f4, f6}
    V6Flows = {f6}
    NoFlow = NoFlow
    First = b0
    Bufs = {b1, b2}
    Mtus = {1, 2}
    BufSize = 1
    MaxSessions = 1
    Sizes <- MCSizes
    MaxViews = 2
    MaxAttach = 2
    Requests = {8, 36, 56}
    HeaderLens = {20, 40}
SPECIFICATION Spec
INVARIANTS
    QuietWhenDetached
    HeldIntact
    PanicNeedsCutPacket
    RepliesTrue
PROPERTY ImplementsHandoff
CHECK_DEADLOCK FALSE
