CONSTANTS
    d1 = d1
    d2 = d2
    k1 = k1
    k2 = k2
    None = None
    Table = {1, 2}
    Key = {k1, k2}
    TableOf <- TwoTables
    Device = {d1, d2}
    Minted = {k2}
    Async = {}
    Skew <- InStep
    Dated = {d2}
    MaxNow = 2
    MaxBody = 1
    MaxEdits = 2
    MaxFaults = 0
SPECIFICATION FairSpec
INVARIANTS QuietAgree
PROPERTIES SyncDriverNeverRegresses EventuallyAgree
CHECK_DEADLOCK FALSE
