CONSTANTS
    None = None
    Mine = published
    Named = unpublished
    Adding = draft
    Holder = {d1, d2, relay}
    Server = relay
    Person = {p1, p2, p3, p4}
    Edge = {e1, e2, e3}
    Fact = {f1}
    MaxOps = 3
SYMMETRY Swaps
SPECIFICATION PeopleSpec
INVARIANTS NothingDangles OneAnchor CopiesCoincide
PROPERTIES FactsKept
CHECK_DEADLOCK FALSE
