SPECIFICATION FairSpec
CONSTANTS
    d1 = d1
    d2 = d2
    w1 = w1
    w2 = w2
    Devices = {p1, p2}
    Words = {w1}
    Decks = {d1}
    Home <- HomeOne
    SelfPaced = {}
    Added <- AddedBefore
    Goal = 1
    TicksPerDay = 1
    Offset = 0
    FirstTick = 3
    LastTick = 4
    Histories <- LongAgo
    Ops = {"grade", "finish", "overview", "profile", "celebrate"}
    Grades = {"good"}
    Boxes = {}
    MaxRequests = 4
    MaxEdits = 0
    MaxAborts = 1
INVARIANTS StreakEarned CelebratedOnce
PROPERTIES RequestsEnd
CHECK_DEADLOCK FALSE
