--------------------------- MODULE MCTokenExchange ---------------------------
(* A small instance of TokenExchange. *)
EXTENDS TokenExchange, TLC

CONSTANTS r1, r2

Reqs2 == {r1, r2}

Symmetry == Permutations(Req)
=============================================================================
