CONSTANTS
    Rows = {r1, r2}
    Passes = {q1}
    Ahead = 1
    Tail = 1
    Floor = 0
    Batch = 1
    Last = 1
    MaxCuts = 0
    MaxRefusals = 0
    r1 = r1
    r2 = r2
    q1 = q1
SPECIFICATION ReminderSpec
PROPERTY DueIsReminded
CHECK_DEADLOCK FALSE
