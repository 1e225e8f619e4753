SPECIFICATION PaySpec
CONSTANTS
    Submissions = {s1, s2}
    Intents = {i1}
    Handlers = {h1, h2}
    NoSubmission = NoSubmission
    NoIntent = NoIntent
INVARIANTS
    StatusJustified
    WebhookAppliesOnce
PROPERTIES
    OwnerAndStampKept
