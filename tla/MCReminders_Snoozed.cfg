CONSTANTS
    Rows = {r1}
    Passes = {q1}
    Ahead = 2
    Tail = 2
    Floor = 1
    Batch = 2
    Last = 5
    MaxCuts = 1
    MaxRefusals = 1
    r1 = r1
    q1 = q1
SPECIFICATION ReminderSpec
PROPERTY SnoozedIsReminded
CHECK_DEADLOCK FALSE
