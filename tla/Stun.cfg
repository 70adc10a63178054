\* All NATs and servers are initial states.
CONSTANT Nothing = Nothing
SPECIFICATION StunFairSpec
INVARIANTS
    ResultRight
PROPERTY ListenersEnd
CHECK_DEADLOCK FALSE
