------------------------------ MODULE MCAccount ------------------------------
(* A small instance of Account. *)
EXTENDS Account, TLC

CONSTANTS r1, r2, r3

Reqs3 == {r1, r2, r3}

Symmetry == Permutations(Reqs3)
=============================================================================
