SPECIFICATION FairSpec
CONSTANTS
    None = None
    Runs = {r1}
    Jobs = {j1, j2}
    Restores = {p1}
    MaxFaults = 1
INVARIANTS
    CopyFollowsRow
PROPERTIES
    CopiesReturn
CHECK_DEADLOCK FALSE
