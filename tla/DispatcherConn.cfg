\* One datagram out and two replies in, a channel of one packet, fair scheduling.
CONSTANTS
    w1 = w1
    Writers = {w1}
    Capacity = 1
    MaxBatch = 2
    MaxPackets = 2
SPECIFICATION ConnFairSpec
INVARIANTS
    ClosePanicNeedsRace
PROPERTIES
    ImplementsReplyChannel
    CloseEndsBoth
    IdleConnectionCloses
CHECK_DEADLOCK FALSE
