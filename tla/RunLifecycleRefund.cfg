SPECIFICATION Spec
CONSTANTS
    Runs = {r1, r2}
    Threads = {t1}
    t1 = t1
    ThreadOf <- OneThread
    MaxFaults = 1
    Choices = {approve}
    NoRun = NoRun
    NoJob = NoJob
    OrphanLock = OrphanLock
SYMMETRY Symmetry
PROPERTIES RefundRunsRecover
CHECK_DEADLOCK FALSE
