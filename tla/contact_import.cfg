CONSTANTS
    a1 = a1
    a2 = a2
    a3 = a3
    a4 = a4
    f1 = f1
    f2 = f2
    f3 = f3
    f4 = f4
    r = r
    n = n
    w = w
    None = None
    LeftOut = LeftOut
    Contact = {a1, a2, a3, a4}
    FileCard = {f1, f2, f3, f4}
    Says <- MCSays
    Slot = {1, 2, 3, 4}
    Known <- MCKnown
    MaxImports = 3
    MaxEdits = 2
    MaxFaults = 2
SPECIFICATION Spec
INVARIANTS RecordsKept GraphOnce
CHECK_DEADLOCK FALSE
