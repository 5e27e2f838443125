SPECIFICATION Spec
CONSTANTS
    NumItems = 1
    Workers = {w1}
    CliWorkers = {}
    Pinned = {1}
    BatchSize = 2
    MaxItemAttempts = 2
    FailureStreak = 2
    Overruns = FALSE
    MaxRuns = 1
    MaxCrashes = 1
    MaxCancels = 0
    MaxRetries = 0
    MaxOverrides = 0
INVARIANTS EnrichmentPaidOnce
CHECK_DEADLOCK FALSE
