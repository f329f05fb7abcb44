\* Three tokens, so that the browser refreshes twice; two requests about two links.
CONSTANTS
    Tokens = {t1, t2, t3}
    Tabs = {b}
    Links = {l1, l2}
    Desks = {w1, w2}
    MaxErrors = 1
    None = None
    t1 = t1
    t2 = t2
    t3 = t3
    l1 = l1
    l2 = l2
    w1 = w1
    w2 = w2
    b = b
SPECIFICATION Spec
SYMMETRY Symmetry
INVARIANTS TypeOK KeepsSession LinksEndWithReset
CHECK_DEADLOCK FALSE
