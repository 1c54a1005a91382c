----------------------------- MODULE MCListing -----------------------------
(* A small instance of Listing: two or three pages of two rows. *)
EXTENDS Listing

CONSTANTS i1, i2, i3, i4

Ids4 == {i1, i2, i3, i4}

Symmetry == Permutations(Ids4)
=============================================================================
