SPECIFICATION Spec
CONSTANTS
    Callers = {c1, c2}
    MaxCalls = 2
    MaxClaims = 2
    MaxCrashes = 1
    Keys = {"click"}
    TaskType = "bug"
    Workers <- MCWorkers
    Harness <- MCHarness
    Principals = {"agent", "owner"}
    Role <- MCRole
    Acts = {"none", "main"}
    MaxApprovals = 1
    Branches = {"task", "main"}
    PROTECTED = {"main"}
    Targets = {"none", "main", "refs/heads/main"}
    RefOf <- MCRefOf
    TaskBranch = "task"
    MaxCommits = 1
SYMMETRY MCSymmetry
INVARIANTS RowMatchesDisk OneGitPerSlot ProtectedPushesSigned NoStrandedStart
CHECK_DEADLOCK FALSE
