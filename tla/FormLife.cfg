SPECIFICATION Spec
CONSTANTS
    Events = {1, 2}
    TokenOf <- MCTokenOf
    NameOf <- MCNameOf
    MaxTime = 1
    TicksPerDay = 1
    Past = 1
    Future = 1
    BatchSize = 1
    DrainAttempts = 2
    MaxFaults = 1
    Experiments = {x1, x2}
    Variants = {v1, v2}
    NoVariant = NoVariant
    Visitors = {1}
    Visits = {h1, h2}
    Whole = 3
    MaxPatches = 1
    BucketOf <- MCBucketOf
    Forms = {1, 2}
    Templates = {11}
    Slugs = {s1, s2}
    NoSlug = NoSlug
    Specs = {p, q}
    NoSpec = NoSpec
    Requests = {r1, r2}
    Files = {f1, f2}
    MaxBytes = 2
    BrowserBytes = {1, 2, 3}
    Confirmations = {c1}
    LinkTargets = {b1}
    Inputs <- LogicInputs
SYMMETRY LifeSymmetry
CONSTRAINT InOrder
INVARIANTS
    LifeTypeOK
    DeletedIsStored
    DrainComplete
    CopiesCounted
    ReadersAgree
    Sticky
    ConfirmedWasStored
    WalkFollowsActions
    ScoreIsDeclared
    CalcsInOrderEvaluate
    SkippedAreStripped
PROPERTIES
    UsedTemplateStays
CHECK_DEADLOCK FALSE
