---------------------------- MODULE MCEmailChange ----------------------------
(* A small instance of EmailChange. *)
EXTENDS EmailChange, TLC

CONSTANTS r1, r2, r3, a1, a2, a3

Reqs3 == {r1, r2, r3}
Addresses3 == {a1, a2, a3}

Symmetry == Permutations(Reqs3) \cup Permutations(Addresses3)
=============================================================================
