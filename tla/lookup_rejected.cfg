CONSTANTS
    Lookups = {p1, p2}
    MaxLookups = 2
    Keys = {k1, k2}
    MaxUpsets = 1
    MaxIds = 2
    MaxSenses = 2
    Inputs = {word, typo}
    Headword = word
    Langs = {fa}
    None = none
SPECIFICATION Spec
CHECK_DEADLOCK FALSE
PROPERTY RejectedNotServed
