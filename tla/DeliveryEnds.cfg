SPECIFICATION FairSpec
CONSTANTS
    Webhooks = {h1, h2}
    Broken = {h2}
    Submits = {s1}
    Replays = {}
    Deliveries = {d1}
    Workers = {w1, w2}
    NoDelivery = NoDelivery
    NoWebhook = NoWebhook
    NoWorker = NoWorker
    MaxAttempts = 3
    MaxStalled = 1
    Faults = {"enqueue", "database", "crash", "lock"}
INVARIANTS
    PostsBounded
PROPERTIES
    ContractImplemented
    JobsEnd
    DeliveriesSettle
CHECK_DEADLOCK FALSE
