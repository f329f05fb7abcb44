\* Expects a counterexample to OpenUntilApproved.
SPECIFICATION Spec
CONSTANTS
    Stages = {open, won, lost}
    Closing = {won}
    Lost = {lost}
    Gated = {won}
    Requests = {q1, q2}
    Procs = {p1, p2}
    Null = Null
INVARIANT OpenUntilApproved
