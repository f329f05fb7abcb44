CONSTANTS
    Files = {f1, f2}
    NoFile = NoFile
    MaxSessions = 2
    Desks = {w1, w2}
    Window = 2
    MaxNamed = 1
    MaxEntries = 3
    f1 = f1
    f2 = f2
    w1 = w1
    w2 = w2
SYMMETRY Symmetry
SPECIFICATION Spec
INVARIANTS TypeOK OneRecordingPerFile AnsweredIsStored
CHECK_DEADLOCK FALSE
