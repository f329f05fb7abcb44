\* What the code promises and does not keep, beside MCBilling_PaidOnce.cfg: TLC
\* finds a counterexample to each of the four.  Uncomment one at a time.
SPECIFICATION Spec
CONSTANTS
    Requests = {r1, r2}
    Graces = {g1}
    Procs = {p1, p2, p3}
    MaxTime = 1
    MaxSubs = 1
    MaxPayments = 2
INVARIANT PaidComesFirst
\* INVARIANT DeletionShutsOut
\* INVARIANT DeletingIsOwned
\* INVARIANT ApprovedIsVerified
SYMMETRY Symmetry
CHECK_DEADLOCK FALSE
