SPECIFICATION Spec
CONSTANTS
    NumItems = 2
    Workers = {w1, c1}
    CliWorkers = {c1}
    Pinned = {}
    BatchSize = 2
    MaxItemAttempts = 1
    FailureStreak = 3
    Overruns = TRUE
    MaxRuns = 2
    MaxCrashes = 0
    MaxCancels = 0
    MaxRetries = 1
    MaxOverrides = 1
INVARIANTS NeverUnderReports
CHECK_DEADLOCK FALSE
