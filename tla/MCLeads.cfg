\* Three stages, the won one needs an approval; two requests, two handlers.
SPECIFICATION Spec
CONSTANTS
    Stages = {open, won, lost}
    Closing = {won}
    Lost = {lost}
    Gated = {won}
    Requests = {q1, q2}
    Procs = {p1, p2}
    Null = Null
INVARIANTS
    TypeOK
    PendingBacked
    ApprovalGate
SYMMETRY Symmetry
