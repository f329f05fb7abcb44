\* What the code promises and does not keep: TLC finds a counterexample to each
\* of the three.  Uncomment one at a time.
SPECIFICATION Spec
CONSTANTS
    Users = {u1, u2}
    Procs = {p1, p2}
    Limits = {1}
    Null = Null
    Ttl = 1
    MaxTime = 1
    MaxInvites = 1
    MaxLinks = 2
PROPERTY LinkAcceptedOnce
\* PROPERTY ReactivationIsCounted
\* PROPERTY DeactivatedStaysOut
SYMMETRY Symmetry
CHECK_DEADLOCK FALSE
