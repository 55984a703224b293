SPECIFICATION Spec
CONSTANTS
    Runs = {r1}
    Threads = {t1}
    t1 = t1
    ThreadOf <- OneThread
    MaxFaults = 1
    Choices = {approve}
    NoRun = NoRun
    NoJob = NoJob
    OrphanLock = OrphanLock
INVARIANTS PausedRunsStayListed
CHECK_DEADLOCK FALSE
