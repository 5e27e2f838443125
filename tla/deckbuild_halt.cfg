SPECIFICATION Spec
CONSTANTS
    NumItems = 3
    Workers = {w1}
    CliWorkers = {}
    Pinned = {}
    BatchSize = 2
    MaxItemAttempts = 2
    FailureStreak = 2
    Overruns = FALSE
    MaxRuns = 1
    MaxCrashes = 0
    MaxCancels = 0
    MaxRetries = 0
    MaxOverrides = 0
INVARIANTS HaltIsResumable
CHECK_DEADLOCK FALSE
