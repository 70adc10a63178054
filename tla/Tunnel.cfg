\* Two tuns and two cores of one instance, two goroutines that dial through it.
CONSTANTS
    t1 = t1
    t2 = t2
    d1 = d1
    d2 = d2
    NoTun = NoTun
    Tuns = {t1, t2}
    Dials = {d1, d2}
    MaxCores = 2
SPECIFICATION Spec
INVARIANTS
    DialOnRunningCore
    RunningCoreKept
    DialersOfOpenTun
CHECK_DEADLOCK FALSE
