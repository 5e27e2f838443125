SPECIFICATION Spec
SYMMETRY Symmetry
CONSTANTS
    d1 = d1
    d2 = d2
    w1 = w1
    w2 = w2
    Devices = {p1, p2}
    Words = {w1}
    Decks = {d1}
    Home <- HomeOne
    SelfPaced = {}
    Added <- AddedToday
    Goal = 2
    TicksPerDay = 2
    Offset = 1
    FirstTick = 10
    LastTick = 11
    Histories <- NoHistories
    Ops = {"grade"}
    Grades = {"good"}
    Boxes = {}
    MaxRequests = 2
    MaxEdits = 0
    MaxAborts = 0
INVARIANTS NewCardsWinNothing
CHECK_DEADLOCK FALSE
