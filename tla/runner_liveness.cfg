SPECIFICATION FairSpec
CONSTANTS
    r1 = r1
    NoRepo = NoRepo
    Repos = {r1}
    AgentRepos = {}
    Bypass = {}
    NoHistory = {}
    PausedStages = {}
    Submissions <- PlanBackup
    IndexMode <- ModeArchives
    Available = {"backup", "check", "prune", "compact", "archive_sync", "stats", "history_index", "prune_compare"}
    AutoPreview = FALSE
    MaxBackups = 1
    MaxScheduledBackups = 1
    MaxScheduledChecks = 1
    IndexWorkers = 2
    MaxDeferrals = 1
    MaxRequeues = 1
    InlineKinds = {"prune"}
    Words = {"completed", "failed"}
    MaxOps = 6
    MaxSubmits = 1
    MaxFaults = 1
    MaxCrashes = 0
    Env = {"busy", "import", "reconcile"}
INVARIANT IndexSerial
PROPERTIES
    QueuedEnds
    ChangesGetListed
