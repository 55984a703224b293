SPECIFICATION LossFairSpec
CONSTANTS
    Runs = {r1}
    Threads = {t1}
    t1 = t1
    ThreadOf <- OneThread
    MaxFaults = 3
    Choices = {approve, reject}
    NoRun = NoRun
    NoJob = NoJob
    OrphanLock = OrphanLock
INVARIANTS LedgerFollowsHuman ExclusionUntilTorn
PROPERTIES RunsArrive DecisionsSurvive
CHECK_DEADLOCK FALSE
