SPECIFICATION Spec
CONSTANTS
    Repos = {1, 2}
    AgentRepos = {2}
    Stop = {}
    Parallel = FALSE
    MaxParallel = 1
    Availability = FALSE
    PreHooks = TRUE
    RunOn = "always"
    Faults = TRUE
    MaxRuns = 2
    MaxRestarts = 2
    MaxCancels = 1
INVARIANTS HooksOnce PostAfterBackups VerdictHolds RunsAlone
CHECK_DEADLOCK FALSE
