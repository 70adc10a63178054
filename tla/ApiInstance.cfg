\* Three starts and one query of each kind, fair scheduling.
CONSTANTS
    q1 = q1
    q2 = q2
    q3 = q3
    Queries = {q1, q2, q3}
    Kind <- EachKind
    MaxStarts = 3
    NoQuery = NoQuery
SPECIFICATION ApiFairSpec
INVARIANTS
    NoSocketLeak
PROPERTIES
    CloseEndsLoops
CHECK_DEADLOCK FALSE
