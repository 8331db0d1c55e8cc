SPECIFICATION LiveSpec
CONSTANTS
    Workers = {"ada", "lead"}
    SlotOf <- MCSlotOf
    Dimensions = {"correctness", "style"}
    Team = "core"
    Paths = {"payments"}
    Files <- MCFiles
    Events <- MCEvents
    Drains = {boot, timer}
    MaxFaults = 1
    Commits = {1, 2}
    MaxRound = 2
    MaxVerdicts = 2
    MaxAttempts = 1
    ReviewedIn = {"awaiting-review", "fixing", "approved"}
    Votes = {"approved", "changes-requested"}
    Tokens <- MCTokens
INVARIANTS ApprovalStands QuorumIsOfPeople PostedOnce
CHECK_DEADLOCK FALSE
PROPERTIES ToldInTheEnd
