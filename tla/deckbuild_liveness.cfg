SPECIFICATION FairSpec
CONSTANTS
    NumItems = 2
    Workers = {w1, w2}
    CliWorkers = {}
    Pinned = {}
    BatchSize = 1
    MaxItemAttempts = 2
    FailureStreak = 3
    Overruns = FALSE
    MaxRuns = 1
    MaxCrashes = 1
    MaxCancels = 1
    MaxRetries = 0
    MaxOverrides = 0
PROPERTIES BuildSettles
CHECK_DEADLOCK FALSE
