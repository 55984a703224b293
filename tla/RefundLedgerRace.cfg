SPECIFICATION MCFairSpec
CONSTANTS
    OrderNumbers = {o1}
    Requests = {r1, r2}
    Sessions = {s1, s2}
    Products = {p1}
    Quantities = {1, 2}
    PriceCents = {1}
    MaxInteger = 1
    MaxEdits = 2
    Legacy = Legacy
    NoRequest = NoRequest
    NoDecision = NoDecision
    NoOrder = NoOrder
    NoProduct = NoProduct
INVARIANTS
    LedgerAgreement
    CommitNeverConflicts
PROPERTIES
    HistoryImmutable
    DecisionsKeepApproval
    ImplementsContract
    SessionsEnd
CHECK_DEADLOCK FALSE
