CONSTANTS
    Stages = {s1, s2}
    MaxOrder = 3
    Days = {d1}
    WorkingDays = 1
    Desks = {w1, w2}
    MaxLives = 2
    MaxEdits = 1
    s1 = s1
    s2 = s2
    d1 = d1
    w1 = w1
    w2 = w2
SYMMETRY Symmetry
SPECIFICATION Spec
INVARIANTS TypeOK NoStageSkipped NoDayPaidTwice
CHECK_DEADLOCK FALSE
