SPECIFICATION Spec
CONSTANTS
    Requests = {r1, r2}
    Customers = {c1, c2}
    Identities = {i1, i2}
    Orders = {o1}
    Anonymous = Anonymous
    None = None
    Blank = Blank
    Limits = {0, 1}
    Default = 1
    LastDay = 1
SYMMETRY Symmetry
INVARIANTS
    TypeOK
    ThreadsAreNotShared
    CapHolds
CHECK_DEADLOCK FALSE
