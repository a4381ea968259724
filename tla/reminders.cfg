CONSTANTS
    None = None
    Device = {d1, d2}
    Shipped = 1
    Dues = {0, 1}
    RunUp = 0
    Display = 1
    LastDay = 1
    MaxDay = 1
    Zones = {0, 1}
    Runs = 1
    MaxClock = 4
    MaxMoves = 2
    Saves = 1
SYMMETRY Devices
SPECIFICATION Spec
INVARIANTS OneActStands QuietAgree NotLost
CHECK_DEADLOCK FALSE
