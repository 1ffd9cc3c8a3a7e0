SPECIFICATION FairSpec
CONSTANTS
    o1 = o1
    o2 = o2
    p1 = p1
    p2 = p2
    None = None
    IndexOps <- MCIndexOps
    Ops = {o1, o2}
    Procs = {p1, p2}
    Lease = 3
    Gap = 1
    DrainAfter = 1
    KillAfter = 2
CHECK_DEADLOCK FALSE
INVARIANTS OneRunner TasksKeepRows
PROPERTY LeaseReturns
