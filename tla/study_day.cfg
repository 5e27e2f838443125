SPECIFICATION Spec
SYMMETRY Symmetry
CONSTANTS
    d1 = d1
    d2 = d2
    w1 = w1
    w2 = w2
    Devices = {p1, p2}
    Words = {w1, w2}
    Decks = {d1, d2}
    Home <- HomeTwo
    SelfPaced = {}
    Added <- AddedNow
    Goal = 3
    TicksPerDay = 1
    Offset = 0
    FirstTick = 2
    LastTick = 3
    Histories <- Yesterday
    Ops = {"grade", "finish"}
    Grades = {"good"}
    Boxes = {}
    MaxRequests = 4
    MaxEdits = 0
    MaxAborts = 1
INVARIANTS XpAgrees GoalPaidOnce GoalNeverMissed
PROPERTIES ImplementsLedger
CHECK_DEADLOCK FALSE
