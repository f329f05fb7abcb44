------------------------------- MODULE MCLeads -------------------------------
(* Leads on a small instance: an open stage, a won one and a lost one.     *)
EXTENDS Leads, TLC

Symmetry == Permutations(Requests) \cup Permutations(Procs)
=============================================================================
