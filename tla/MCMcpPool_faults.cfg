SPECIFICATION FairSpec
CONSTANTS
    Callers = {c1, c2, c3}
    Procs = {p1, p2}
    None = None
    SpawnsFail = TRUE
    KillMayFail = TRUE
    MaxDowns = 1
    MayShutdown = TRUE
INVARIANTS
    OpenMeansReady
    TeardownIsExclusive
PROPERTIES
    AttachSettles
CHECK_DEADLOCK FALSE
