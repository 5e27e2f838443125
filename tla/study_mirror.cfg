SPECIFICATION Spec
SYMMETRY Symmetry
CONSTANTS
    d1 = d1
    d2 = d2
    w1 = w1
    w2 = w2
    Devices = {p1, p2}
    Words = {w1}
    Decks = {d1, d2}
    Home <- HomeOne
    SelfPaced = {}
    Added <- AddedBefore
    Goal = 9
    TicksPerDay = 1
    Offset = 0
    FirstTick = 2
    LastTick = 2
    Histories <- NoHistories
    Ops = {"grade"}
    Grades = {"good"}
    Boxes = {}
    MaxRequests = 2
    MaxEdits = 1
    MaxAborts = 0
INVARIANTS MirrorAgrees
CHECK_DEADLOCK FALSE
