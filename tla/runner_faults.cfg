SPECIFICATION Spec
CONSTANTS
    r1 = r1
    NoRepo = NoRepo
    Repos = {r1}
    AgentRepos = {}
    Bypass = {}
    NoHistory = {}
    PausedStages = {}
    Submissions <- BackupAndCheck
    IndexMode <- ModeOff
    Available = {"backup", "check", "prune", "compact", "archive_sync", "stats", "history_index", "prune_compare"}
    AutoPreview = FALSE
    MaxBackups = 1
    MaxScheduledBackups = 1
    MaxScheduledChecks = 1
    IndexWorkers = 1
    MaxDeferrals = 1
    MaxRequeues = 1
    InlineKinds = {"compact"}
    Words = {"completed", "failed"}
    MaxOps = 3
    MaxSubmits = 2
    MaxFaults = 1
    MaxCrashes = 1
    Env = {"plan_cancel", "cancel_route", "claim_lost", "db_broken", "crash", "stop"}
INVARIANTS
    LaneExclusion
    StepAfterBackup
CHECK_DEADLOCK FALSE
