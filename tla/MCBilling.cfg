\* One company, two overlapping handlers: a first payment and a renewal request,
\* with two proofs between them and one payment.
SPECIFICATION Spec
CONSTANTS
    Requests = {r1, r2}
    Graces = {g1}
    Procs = {p1, p2}
    MaxTime = 1
    MaxSubs = 2
    MaxPayments = 1
INVARIANTS
    TypeOK
    AccessHasBasis
    ReviewBacked
PROPERTIES
    MarkedByDeletion
    BlockLiftedByOperator
    ProofKeepsAccess
SYMMETRY Symmetry
CHECK_DEADLOCK FALSE
