CONSTANTS
    Rows = {f1}
    Users = {u1, u2}
    Callers = {u1}
    Requests = {w}
    Doors = {q}
    PerDay = 1
    Last = 2
    MarksMissed = TRUE
    None = None
    f1 = f1
    u1 = u1
    u2 = u2
    w = w
    q = q
SPECIFICATION FollowUpSpec
INVARIANT FutureIsNotOverdue
