SPECIFICATION Spec
CONSTANTS
    Submissions = {s1, s2}
    Intents = {i1, i2}
    Handlers = {}
    NoSubmission = NoSubmission
    NoIntent = NoIntent
    Identities = {a1}
    PaymentRequired = TRUE
    ReplaceMode = TRUE
    Quota = 2
    MaxBusy = 1
    Faults = {}
    AdminActs = {}
INVARIANT
    RefusedResubmitKeepsPrior
CHECK_DEADLOCK FALSE
