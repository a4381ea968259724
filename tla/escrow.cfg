CONSTANTS
    Device = {d1, d2}
    None = None
    MaxKeys = 1
    MaxFaults = 2
    MaxExits = 1
SPECIFICATION FairSpec
INVARIANTS RotationKept DoorFollowsKeychain
PROPERTIES EscrowFlushed
CHECK_DEADLOCK FALSE
