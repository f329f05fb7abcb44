CONSTANTS
    Tokens = {t1, t2, t3}
    Tabs = {b, c}
    Links = {l1}
    Desks = {w1}
    MaxErrors = 0
    None = None
    t1 = t1
    t2 = t2
    t3 = t3
    l1 = l1
    w1 = w1
    b = b
    c = c
SPECIFICATION Spec
INVARIANT ParallelCallersAnswered
CHECK_DEADLOCK FALSE
