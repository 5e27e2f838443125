SPECIFICATION Spec
SYMMETRY Symmetry
CONSTANTS
    NumItems = 3
    Workers = {w1, w2}
    CliWorkers = {}
    Pinned = {}
    BatchSize = 2
    MaxItemAttempts = 2
    FailureStreak = 2
    Overruns = FALSE
    MaxRuns = 2
    MaxCrashes = 1
    MaxCancels = 0
    MaxRetries = 1
    MaxOverrides = 0
INVARIANTS TypeOK OneOwner CountersExact CompletedMeansBuilt OneCardPerItem AttemptsBounded
PROPERTIES ImplementsLedger
CHECK_DEADLOCK FALSE
