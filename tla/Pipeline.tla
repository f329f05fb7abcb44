------------------------------ MODULE Pipeline ------------------------------
(* What the execution of a workflow promises, whatever happens to queues,  *)
(* workers and rows: its actions are begun one after another, each once,   *)
(* and none once it is over.                                               *)
EXTENDS Naturals, Sequences

CONSTANT Lengths       \* how many actions a workflow has

VARIABLES
    begun,     \* for each execution, how often each of its actions was begun
    over       \* the executions that have ended

New(n) ==
    /\ begun' = Append(begun, [p \in 1 .. n |-> 0])
    /\ UNCHANGED over

Begin(r, p) ==
    /\ r \notin over
    /\ begun[r][p] = 0 /\ \A q \in 1 .. (p - 1) : begun[r][q] = 1
    /\ begun' = [begun EXCEPT ![r][p] = 1]
    /\ UNCHANGED over

End(r) ==
    /\ r \notin over
    /\ over' = over \cup {r}
    /\ UNCHANGED begun

Init == begun = <<>> /\ over = {}

Next ==
    \/ \E n \in Lengths : New(n)
    \/ \E r \in DOMAIN begun : End(r) \/ \E p \in DOMAIN begun[r] : Begin(r, p)

Spec == Init /\ [][Next]_<<begun, over>>
=============================================================================
