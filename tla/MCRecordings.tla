---------------------------- MODULE MCRecordings ----------------------------
(* Recordings on a small instance: two files, two sessions, three activities.              *)
EXTENDS Recordings, TLC
Symmetry == Permutations(Files) \cup Permutations(Desks)
=============================================================================
