SPECIFICATION Spec
CONSTANTS
    Submissions = {s1, s2}
    Intents = {i1}
    Handlers = {h1}
    NoSubmission = NoSubmission
    NoIntent = NoIntent
    Identities = {a1}
    PaymentRequired = TRUE
    ReplaceMode = TRUE
    Quota = 1
    MaxBusy = 2
    Faults = {"update", "crash"}
    AdminActs = {"delete"}
SYMMETRY RequestSymmetry
INVARIANTS
    AcceptedIsPaid
    NothingDangles
    RefusedLeavesNoRow
CHECK_DEADLOCK FALSE
