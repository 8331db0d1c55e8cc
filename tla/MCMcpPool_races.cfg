SPECIFICATION FairSpec
CONSTANTS
    Callers = {c1, c2, c3}
    Procs = {p1, p2, p3}
    None = None
    SpawnsFail = FALSE
    KillMayFail = FALSE
    MaxDowns = 0
    MayShutdown = FALSE
INVARIANTS
    OneResident
PROPERTIES
    IdlePoolDies
CHECK_DEADLOCK FALSE
