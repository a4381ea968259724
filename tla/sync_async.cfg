CONSTANTS
    d1 = d1
    d2 = d2
    k1 = k1
    k2 = k2
    None = None
    Table = {1, 2}
    Key = {k1, k2}
    TableOf <- TwoTables
    Device = {d1, d2}
    Minted = {k2}
    Async = {d1}
    Skew <- OneAhead
    Dated = {}
    MaxNow = 1
    MaxBody = 0
    MaxEdits = 2
    MaxFaults = 1
SPECIFICATION Spec
INVARIANTS PushedOrAhead CursorCovered
CHECK_DEADLOCK FALSE
