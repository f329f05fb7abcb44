----------------------------- MODULE MCSessions -----------------------------
(* Sessions on a small instance.  Tokens, links and desks are alike, and   *)
(* only invariants are checked, so they may be permuted.                   *)
EXTENDS Sessions, TLC
Symmetry == Permutations(Tokens) \cup Permutations(Links) \cup Permutations(Desks)
=============================================================================
