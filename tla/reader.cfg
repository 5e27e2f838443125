\* Two editions of one book and a learner's own text; one tap at a time; two
\* workers with a budget of two in a window of two ticks.
CONSTANTS
    e1 = e1
    e2 = e2
    OwnTexts = {own}
    Editions <- MCEditions
    Lemmas <- MCLemmas
    Batch = 1
    Tasks = {t1, t2}
    Learners = {ann}
    Slots = {s1, s2}
    MaxTries = 1
    MaxRequests = 3
    MaxFaults = 1
    None = none
    Taps = {p1}
    MaxTaps = 3
    Workers = {w1, w2}
    Budget = 2
    Window = 2
    MaxExceptions = 1
SPECIFICATION MCSpec
CHECK_DEADLOCK FALSE
INVARIANTS TextCoheres TapsAgree BudgetHolds
PROPERTIES ReadingGoesOn
