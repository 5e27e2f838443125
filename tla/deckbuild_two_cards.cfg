SPECIFICATION Spec
CONSTANTS
    NumItems = 2
    Workers = {w1, c1}
    CliWorkers = {c1}
    Pinned = {}
    BatchSize = 2
    MaxItemAttempts = 2
    FailureStreak = 2
    Overruns = TRUE
    MaxRuns = 2
    MaxCrashes = 0
    MaxCancels = 0
    MaxRetries = 0
    MaxOverrides = 0
INVARIANTS NoSecondCard
CHECK_DEADLOCK FALSE
