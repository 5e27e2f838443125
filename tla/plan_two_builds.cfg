CONSTANTS
    Commands = {c1, c2}
    Versions = {1, 2}
    MaxJobs = 2
    MaxCommands = 3
SPECIFICATION Spec
CHECK_DEADLOCK FALSE
INVARIANT OneBuildAtATime
