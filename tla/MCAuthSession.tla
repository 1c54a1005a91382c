---------------------------- MODULE MCAuthSession ----------------------------
(* Small instances of AuthSession. *)
EXTENDS AuthSession, TLC

CONSTANTS r1, r2

Reqs2 == {r1, r2}

Symmetry == Permutations(Req)
=============================================================================
