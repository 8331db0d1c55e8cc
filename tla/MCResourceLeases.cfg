SPECIFICATION FairSpec
CONSTANTS
    w1 = w1
    w2 = w2
    cto = cto
    Leases = {l1, l2}
    Resources = {git}
    Policies <- MCPolicies
    Principals <- MCPrincipals
    Workers <- MCWorkers
    Runs = {s1}
    RunOwner <- MCRunOwner
    MaxTtl = 1
    Free = Free
    NoPolicy = NoPolicy
    NoRun = NoRun
INVARIANTS
    SamePolicy
    WithinLimit
    HeldByOpenRun
PROPERTIES
    NoRevival
    LossIsAccountedFor
    ImplementsArbiter
    DeadHolderIsSwept
