\* Two users compete for one seat, and for one link, which expires and is issued anew.
SPECIFICATION Spec
CONSTANTS
    Users = {u1, u2}
    Procs = {p1, p2}
    Limits = {1}
    Null = Null
    Ttl = 1
    MaxTime = 1
    MaxInvites = 1
    MaxLinks = 2
INVARIANTS
    TypeOK
    CountedSeatIsFree
    IssueAcceptedOnce
SYMMETRY Symmetry
CHECK_DEADLOCK FALSE
