SPECIFICATION Spec
CONSTANTS
    NumItems = 2
    Workers = {w1}
    CliWorkers = {}
    Pinned = {}
    BatchSize = 2
    MaxItemAttempts = 2
    FailureStreak = 2
    Overruns = FALSE
    MaxRuns = 1
    MaxCrashes = 0
    MaxCancels = 0
    MaxRetries = 0
    MaxOverrides = 1
PROPERTIES ManualChoiceKept
CHECK_DEADLOCK FALSE
