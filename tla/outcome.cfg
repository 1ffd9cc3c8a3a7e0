SPECIFICATION FairSpec
CONSTANTS
    Jobs = {1}
    SelfCancelling = {1}
    Cancelled = {1}
    Colliding = {1}
    RetryLimit = 1
    MaxFaults = 3
INVARIANTS Listed RealOutcome
PROPERTIES OutcomeArrives CancelEnds
CHECK_DEADLOCK FALSE
