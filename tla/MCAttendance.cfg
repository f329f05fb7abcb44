CONSTANTS
    Last = 2
    Holidays <- DaysOff
    Desks = {w1}
    Jobs = {j1, j2}
    Threshold = 2
    ApprovalRequired = TRUE
    MaxCopies = 2
    MaxSessions = 1
    MaxUpsets = 1
    w1 = w1
    j1 = j1
    j2 = j2
SPECIFICATION Spec
INVARIANTS TypeOK AbsentOnce ThresholdLocks
PROPERTIES OwnEntryStands DayIsRecorded
CHECK_DEADLOCK FALSE
