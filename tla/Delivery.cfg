SPECIFICATION Spec
CONSTANTS
    Webhooks = {h1, h2}
    Broken = {h2}
    Submits = {s1}
    Replays = {r1}
    Deliveries = {d1, d2}
    Workers = {w1, w2}
    NoDelivery = NoDelivery
    NoWebhook = NoWebhook
    NoWorker = NoWorker
    MaxAttempts = 2
    MaxStalled = 1
    Faults = {"enqueue", "database", "crash"}
SYMMETRY DeliverySymmetry
INVARIANTS
    EndedHasOutcome
CHECK_DEADLOCK FALSE
