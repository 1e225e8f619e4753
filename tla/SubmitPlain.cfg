SPECIFICATION Spec
CONSTANTS
    Submissions = {s1, s2, s3}
    Intents = {}
    Handlers = {}
    NoSubmission = NoSubmission
    NoIntent = NoIntent
    Identities = {a1, a2}
    PaymentRequired = FALSE
    ReplaceMode = TRUE
    Quota = 1
    MaxBusy = 2
    Faults = {"insert", "update", "delete", "fill", "background", "crash"}
    AdminActs = {"delete", "restore"}
SYMMETRY RequestSymmetry
INVARIANTS
    DownstreamSeesVisible
    CounterNotAhead
    QuotaOvershootBounded
CHECK_DEADLOCK FALSE
