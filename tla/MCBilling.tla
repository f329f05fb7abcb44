------------------------------ MODULE MCBilling ------------------------------
(* Billing on a small instance: one company, its payment requests and      *)
(* grace records as model values, two handlers in flight.                  *)
EXTENDS Billing, TLC

Symmetry == Permutations(Requests) \cup Permutations(Graces) \cup Permutations(Procs)
=============================================================================
