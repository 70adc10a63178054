\* Two goroutines that dial, one of them domains with answers of up to two lines, three descriptors.
CONSTANTS
    s1 = s1
    s2 = s2
    Dialers = {s1, s2}
    Queries = {s1}
    MaxIps = 2
    MaxFd = 3
SPECIFICATION Spec
INVARIANTS
    FdsAccounted
    DialIsProtected
    AnswerIsWhole
    PanicNeedsBadLine
CHECK_DEADLOCK FALSE
