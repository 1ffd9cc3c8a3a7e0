SPECIFICATION Spec
CONSTANTS
    b1 = b1
    rt = rt
    pl = pl
    pr = pr
    ls = ls
    A = A
    B = B
    None = None
    Reqs = {b1, rt, pl, pr, ls}
    Repos = {A, B}
    Kind <- MCKind
    Repo <- TwoRepos
    Roaming = {A, B}
    Limit = 1
    MaxDeferrals = 1
    MaxPolls = 1
CHECK_DEADLOCK FALSE
INVARIANTS WritersAlone WithinLimit ScopesGivenBack
