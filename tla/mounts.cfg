SPECIFICATION Spec
CONSTANTS
    Reqs = {1, 2, 3}
    Name <- MCName
    Explicit = {2, 3}
    Callers = {1}
    Overlap = FALSE
    MaxPolls = 2
    MaxRestarts = 2
INVARIANTS OwnMount NothingLeft
CHECK_DEADLOCK FALSE
