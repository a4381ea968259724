CONSTANTS
    Kind = "birthday"
    Days <- MCDays
    LearnedDays <- MCLearned
    Redates <- MCRedates
    Picked <- MCPicked
    Leads = {20}
    MaxActs = 2
    MaxYears = 1
SPECIFICATION Spec
INVARIANTS NothingLost OrderKept NotBornLate AnsweredStays
PROPERTIES InPersonStands
CHECK_DEADLOCK FALSE
