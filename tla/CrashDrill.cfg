SPECIFICATION DrillFairSpec
CONSTANTS
    Runs <- DrillRuns
    Threads <- DrillThreads
    ThreadOf <- DrillThreadOf
    Choices = {"approve", "reject"}
    NoRun = NoRun
    NoJob = NoJob
    OrphanLock = OrphanLock
    NoOutcome = NoOutcome
    MaxFaults = 0
    MaxScans = 1
CHECK_DEADLOCK FALSE
INVARIANTS
    KilledInWindow
    ChecksHold
PROPERTIES
    DrillEnds
