CONSTANTS
    Processes  = {p1, p2}
    Grants     = {g1, g2}
    Operations = {"execute-task", "submit-result"}
    Execute    = "execute-task"
    Files      = {report, data}
    Absent     = Absent
    Lifetime   = 1
    MaxTime    = 1
    MaxAttempt = 2
    NoOne      = NoOne
SPECIFICATION RunnerSpec
SYMMETRY Exchanges
INVARIANTS RunnerTypeOK OneUse CheckedStaysTrue AgentsPaid AgentsWatched ResultsStand
PROPERTY GrantsOnlyEnd
