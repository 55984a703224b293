SPECIFICATION PromotionFairSpec
CONSTANTS
    v1 = v1
    v2 = v2
    None = None
    base = base
    A = A
    B = B
    Inits = {1, 2}
    Documents = {1, 2}
    Versions = {v1, v2}
    Length <- MCLength
    Blanks <- MCBlanks
    ChunkSize = 3
    Overlap = 1
    Images = {base, A, B}
    Baseline = base
    Docs <- MCDocs
    Down = Down
INVARIANTS
    PromotionTypes
    WholeDocuments
    TextsCovered
    EndsWhole
    RollbackIsVerified
    BootstrappedFirst
    ServesItsDocuments
PROPERTIES
    PromotionEnds
CHECK_DEADLOCK FALSE
