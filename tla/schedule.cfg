CONSTANTS
    MaxWrites = 3
    MaxFailures = 2
SPECIFICATION SchedulerFairSpec
INVARIANTS NoKickLost
PROPERTIES WritesReachRelay
