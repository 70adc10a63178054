\* Three connections of one key, two of them alike.
CONSTANTS
    f1 = f1
    f2 = f2
    f3 = f3
    k1 = k1
    e1 = e1
    e2 = e2
    None = None
    Flows = {f1, f2, f3}
    Keys = {k1}
    Ends = {e1, e2}
    KeyOf <- KeyOfFlow
    EndOf <- EndOfFlow
SPECIFICATION FairSpec
INVARIANTS
    RoutedRight
PROPERTY QueueMoves
CHECK_DEADLOCK FALSE
