\* One session of calls, the others of its process Elsewhere; two lookups;
\* five suggestions for three places; three translations of two candidates;
\* two terms, one to a batch, and two faults of the worker.
CONSTANTS
    Sessions = {s1}
    Last = 2
    Threshold = 2
    Cooldown = 2
    Deadline = 2
    Timeout = 1
    MaxAttempts = 2
    Retries = 1
    Lookups = {p1, p2}
    MaxLookups = 2
    Keys = {k1, k2}
    MaxUpsets = 1
    MaxIds = 2
    MaxSenses = 2
    Inputs = {word, typo}
    Headword = word
    Langs = {fa}
    None = none
    MaxStored = 3
    MaxAnswered = 3
    MaxEnriched = 2
    Candidates = 2
    MaxCards = 2
    Terms = {run, ran}
    Workers = {w1}
    BatchSize = 1
    MaxFaults = 2
SPECIFICATION MCSpec
CHECK_DEADLOCK FALSE
INVARIANTS AliasResolves HeadlinesKeepTheirSense SpokenAsCovered
PROPERTIES LatchStands GatewaysServe LexiconHolds AnswersArrive SenseRulesHold
