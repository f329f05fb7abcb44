------------------------------ MODULE MCSalary ------------------------------
(* Salary on a small instance: two stages in three places, a month of one day. *)
EXTENDS Salary, TLC
Symmetry == Permutations(Stages) \cup Permutations(Desks)
=============================================================================
