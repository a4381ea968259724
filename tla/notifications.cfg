CONSTANTS
    Tripwire = tripwire
    wish = wish
    note = note
    Reminder = {wish, note}
    Remembrance = {note}
    From <- Wishes
    Leaves <- Tails
    Minutes = {1, 2}
    Slots = 3
    Window = 2
    Lead = 1
    Budget = 3
    Limit = 4
    Run = {r1, r2}
    MaxNow = 8
    MaxKicks = 2
    MaxFaults = 1
SYMMETRY Runs
SPECIFICATION NotificationsSpec
INVARIANTS BurstRepairs SilentWhenSteady EveryDayHeard SilenceForewarned
CHECK_DEADLOCK FALSE
