---------------------------- MODULE OneTimeSecret ----------------------------
(***************************************************************************)
(* What a refresh token, an invite, a password-reset token and the code of *)
(* an email change have in common: one column of a row holds the secret    *)
(* that is live, or NULL.  A secret is either live now or of no use for    *)
(* ever; only one that was never issued before can take its place.         *)
(* Everything here is atomic.                                              *)
(***************************************************************************)
EXTENDS Naturals

CONSTANT None       \* no secret is live

VARIABLES
    live,       \* the secret that is accepted, by its number
    issued      \* secrets issued so far, here or in a column that shares the
                \* numbers; they are numbered 1..issued

vars == <<live, issued>>

Init ==
    /\ issued \in Nat
    /\ live = None \/ live = issued

Issue ==
    /\ issued' = issued + 1
    /\ live' = issued + 1

\* Used, called off or revoked.
Withdraw ==
    /\ live # None
    /\ live' = None
    /\ UNCHANGED issued

\* A secret that shares the numbers is issued.
IssueElsewhere ==
    /\ issued' = issued + 1
    /\ UNCHANGED live

Next == Issue \/ Withdraw \/ IssueElsewhere

Spec == Init /\ [][Next]_vars
=============================================================================
