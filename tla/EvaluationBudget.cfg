SPECIFICATION Spec
CONSTANTS
    c1 = c1
    c2 = c2
    e1 = e1
    e2 = e2
    barrier = barrier
    a1 = a1
    a2 = a2
    NoMarker = NoMarker
    NoApproval = NoApproval
    Unloaded = Unloaded
    Absent = Absent
    Calls = {c1, c2, e1, e2}
    Chats = {c1, c2}
    Oversized = {}
    Approvals = {a1, a2}
    Price <- MCPrice
    Size <- MCSize
    Marker <- MCMarker
    Allowance <- MCAllowance
    MaxChats = 2
    MaxTokens = 3
    MaxFaults = 2
INVARIANTS
    TypeOK
    ReservedBeforeSpent
    ChargesHaveReceipts
    BarrierHoldsOnce
PROPERTIES
    StopIsFinal
    ImplementsContract
CHECK_DEADLOCK FALSE
