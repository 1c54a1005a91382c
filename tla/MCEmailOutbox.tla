---------------------------- MODULE MCEmailOutbox ----------------------------
(* Small instances of EmailOutbox. *)
EXTENDS EmailOutbox, TLC

CONSTANTS a1, a2, n1

Mails2 == 1..2
Admins2 == {a1, a2}
Notices0 == {}
Notices1 == {n1}

Symmetry == Permutations(Admin)
=============================================================================
