\* Two requests at a time: on one account and an id for a second one, or by
\* two people on three decks; two learners and a card,
\* migrated; two requests of a learner about one looked-up word.
CONSTANTS
    a1 = a1
    p1 = p1
    e1 = e1
    g1 = g1
    d1 = d1
    ann = ann
    bob = bob
    Requests = {r1, r2}
    Identities = {a1, a2}
    Phones = {p1, p2}
    Emails = {e1}
    Subs = {g1}
    Names = {h1}
    MaxTries = 2
    MaxCodes = 2
    MaxRequests = 4
    Users = {ann, bob}
    Decks = {d1, d2, d3}
    MaxOffers = 2
    Cards = {"c1"}
    TopBox = 2
    PointCap = 1
    MaxWrites = 4
    Raters = {carol}
    Models = {m1, m2}
    MaxRated = 3
    None = none
SPECIFICATION MCSpec
SYMMETRY Symmetric
CHECK_DEADLOCK FALSE
INVARIANTS RowsAgree
PROPERTIES AccountsHold ConsentKept TermKept MigrationsKeepRows
