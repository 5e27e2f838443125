\* Two decks to move a card between and a third to copy one into; two cards
\* over two of a learner's days in each of two time zones; two commands and
\* two jobs; six months with a window of two and a retention of two.
CONSTANTS
    u1 = u1
    w1 = w1
    run = run
    Decks = {d1, d2, d3}
    FirstDecks = {d1, d2}
    Units = {u1, u2, u3}
    Words = {w1, w2, w3}
    Terms = {run, ran}
    Requests = {r1, r2}
    MaxRequests = 3
    None = none
    TicksPerDay = 2
    Zones = {0, 1}
    LastTick = 5
    MaxWrites = 3
    SessionLimit = 1
    Commands = {c1, c2}
    Versions = {1, 2}
    MaxJobs = 2
    MaxCommands = 3
    Ahead = 1
    Initial = 2
    Retention = 2
    LastMonth = 5
    MaxRows = 3
SPECIFICATION MCSpec
SYMMETRY Symmetric
CHECK_DEADLOCK FALSE
INVARIANTS CardsCohere
PROPERTIES WritersKeepApart ScreensTell OnlyAdminsPublish HistoryStands
