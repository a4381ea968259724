SPECIFICATION FairSpec
CONSTANTS
    d1 = d1
    d2 = d2
    h1 = h1
    h2 = h2
    Device <- MCDevice
    Owner = d1
    Handle <- MCHandle
    Taken <- MCTaken
    NoHandle = NoHandle
    TTL = 2
    Early = 1
    Lives <- MCLives
    Window = 2
    Budget = 2
    MaxResets = 2
    MaxFaults = 1
INVARIANTS SessionsAge GuessesBounded DoorPaired
PROPERTIES EventuallyCurrent
