SPECIFICATION FairSpec
CONSTANTS
    Agents = {1, 2, 3}
    Routes = {"r1", "r2"}
    Asks <- TwoCalls
    Cap = 2
    Timeout = 1
    MaxVersion = 2
    MaxFaults = 1
    Current = {2}
    Alive = {2}
    Working = {2}
    Roaming = {2}
INVARIANTS CapHolds SlotsTimed ClaimAlone
PROPERTY UpgradeEnds
CHECK_DEADLOCK FALSE
