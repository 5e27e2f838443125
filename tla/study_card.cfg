SPECIFICATION Spec
SYMMETRY Symmetry
CONSTANTS
    d1 = d1
    d2 = d2
    w1 = w1
    w2 = w2
    Devices = {p1, p2}
    Words = {w1}
    Decks = {d1, d2}
    Home <- HomeOne
    SelfPaced = {d1}
    Added <- AddedBefore
    Goal = 3
    TicksPerDay = 1
    Offset = 0
    FirstTick = 2
    LastTick = 3
    Histories <- NoHistories
    Ops = {"grade", "box"}
    Grades = {"again", "easy"}
    Boxes = {5}
    MaxRequests = 4
    MaxEdits = 2
    MaxAborts = 1
INVARIANTS LogAgrees
PROPERTIES FirstsStand
CHECK_DEADLOCK FALSE
