------------------------------- MODULE MCSeats -------------------------------
(* Seats on a small instance: users and handlers as model values.          *)
EXTENDS Seats, TLC

Symmetry == Permutations(Users) \cup Permutations(Procs)
=============================================================================
