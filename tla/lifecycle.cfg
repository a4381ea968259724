CONSTANTS
    Fresh = {a1}
    Synced = {s1}
    Plain = Plain
    None = None
    MaxKeys = 3
    MaxRows = 1
    MaxEra = 1
SPECIFICATION Spec
INVARIANTS AuthenticatedOpens OneMasterKey PhraseHolds RewindOwed
PROPERTIES HomeKept
CHECK_DEADLOCK FALSE
