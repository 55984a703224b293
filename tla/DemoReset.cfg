SPECIFICATION MCSpec
CONSTANTS
    o1 = o1
    p1 = p1
    p2 = p2
    OrderNumbers = {o1, o2}
    Requests = {r1}
    Sessions = {s1}
    Products = {p1, p2}
    Quantities = {1, 2}
    PriceCents = {1, 2}
    SeedOrders <- MCSeedOrders
    SeedPrices <- MCSeedPrices
    MaxInteger = 3
    MaxEdits = 2
    Legacy = Legacy
    NoRequest = NoRequest
    NoDecision = NoDecision
    NoOrder = NoOrder
    NoProduct = NoProduct
INVARIANTS
    TypeOK
    StableUnderLock
    ActionsHaveDecisions
PROPERTIES
    OldDecisionsStayOld
    ApprovedAsReviewed
CHECK_DEADLOCK FALSE
