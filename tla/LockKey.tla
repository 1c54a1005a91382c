------------------------------- MODULE LockKey -------------------------------
(***************************************************************************)
(* The key of an advisory lock.  pg_advisory_xact_lock takes two signed    *)
(* integers of 32 bits; the second is made of the first four bytes of a    *)
(* digest, read as an unsigned number.  The operators take any width:       *)
(* half is 2^31 in the code.                                               *)
(***************************************************************************)
EXTENDS Integers

\* What four bytes can hold, and what PostgreSQL accepts.
Unsigned(half) == 0..(2 * half - 1)
Signed(half) == (-half)..(half - 1)

\* _compute_lock_key, after the hash.
LockKeyOf(u, half) == IF u >= half THEN u - 2 * half ELSE u

=============================================================================
