CONSTANTS
    Rows = {r1}
    Passes = {q1, q2}
    Ahead = 1
    Tail = 1
    Floor = 0
    Batch = 2
    Last = 2
    MaxCuts = 1
    MaxRefusals = 1
    r1 = r1
    q1 = q1
    q2 = q2
SPECIFICATION ReminderSpec
INVARIANTS ReminderTypeOK RemindedOnce
PROPERTY DueIsReminded
CHECK_DEADLOCK FALSE
