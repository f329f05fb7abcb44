\* Expects a counterexample to PaidOnce.
SPECIFICATION Spec
CONSTANTS
    Requests = {r1}
    Graces = {g1}
    Procs = {p1, p2}
    MaxTime = 1
    MaxSubs = 2
    MaxPayments = 2
INVARIANT PaidOnce
CHECK_DEADLOCK FALSE
