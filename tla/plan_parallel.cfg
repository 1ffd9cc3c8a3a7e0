SPECIFICATION FairSpec
CONSTANTS
    Repos = {1, 2, 3}
    AgentRepos = {}
    Stop = {1}
    Parallel = TRUE
    MaxParallel = 2
    Availability = TRUE
    PreHooks = TRUE
    RunOn = "always"
    Faults = FALSE
    MaxRuns = 1
    MaxRestarts = 1
    MaxCancels = 2
INVARIANTS HooksAccounted CancelledStoppable
PROPERTIES CancelFinal RunsEnd
CHECK_DEADLOCK FALSE
