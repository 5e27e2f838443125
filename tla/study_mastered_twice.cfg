SPECIFICATION Spec
SYMMETRY Symmetry
CONSTANTS
    d1 = d1
    d2 = d2
    w1 = w1
    w2 = w2
    Devices = {p1, p2}
    Words = {w1}
    Decks = {d1}
    Home <- HomeOne
    SelfPaced = {}
    Added <- AddedBefore
    Goal = 9
    TicksPerDay = 1
    Offset = 0
    FirstTick = 2
    LastTick = 2
    Histories <- NoHistories
    Ops = {"grade"}
    Grades = {"easy"}
    Boxes = {}
    MaxRequests = 3
    MaxEdits = 0
    MaxAborts = 0
INVARIANTS MasteredCountedOnce
CHECK_DEADLOCK FALSE
