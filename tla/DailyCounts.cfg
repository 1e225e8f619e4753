SPECIFICATION DrainSpec
CONSTANTS
    Events = {1, 2}
    TokenOf <- MCTokenOf
    NameOf <- MCNameOf
    MaxTime = 1
    TicksPerDay = 1
    Past = 1
    Future = 1
    BatchSize = 1
    DrainAttempts = 2
    MaxFaults = 1
INVARIANT
    DailyCountsAgree
CHECK_DEADLOCK FALSE
