CONSTANTS
    Person = {p1, p2, p3, p4}
    Pet = {}
    Offered <- MCOffered
    MaxOps = 3
SYMMETRY Symmetry
SPECIFICATION Spec
INVARIANTS MutualKin DismissedStays
CHECK_DEADLOCK FALSE
