\* What tests of the code promise and the code does not keep: TLC finds a
\* counterexample to each of the three.  Uncomment one at a time.
SPECIFICATION Spec
CONSTANTS
    Files = {f1, f2}
    NoFile = NoFile
    MaxSessions = 2
    Desks = {w1, w2}
    Window = 1
    MaxEntries = 3
    MaxNamed = 1
    f1 = f1
    f2 = f2
    w1 = w1
    w2 = w2
INVARIANT RecordingsApart
\* INVARIANT OneSessionPerFile
\* INVARIANT OneActivityPerFile
SYMMETRY Symmetry
CHECK_DEADLOCK FALSE
