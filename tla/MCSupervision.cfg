CONSTANTS
    MaxRetries = 5
    Cooldown = 24
    ReadyTimeout = 4
    CliTimeout = 18
    HbEvery = 2
    HbLimit = 8
    AliveLimit = 12
    GcEvery = 12
    IdleLimit = 100
    Backoff <- BackoffTicks
    CliTime = {1, 10, 18}
    Outage = {0, 6, 9}
    LeftBehind <- Budgets
    MaxFaults = 2
SPECIFICATION FairSpec
INVARIANTS EachFailureCountedOnce
PROPERTIES NoSpawnStorm ShortBreakHarmless SlowStartServed HopelessSessionCloses
CHECK_DEADLOCK FALSE
