---------------------------- MODULE SharedProofs ----------------------------
(***************************************************************************)
(* Proofs about what the components share: the keys of advisory locks, the *)
(* age of a student, and one-time secrets.                                 *)
(***************************************************************************)
EXTENDS LockKey, DateOfBirth, OneTimeSecret, TLAPS

\* Every key that _compute_lock_key returns is one that PostgreSQL accepts: no
\* digest, not even one at the boundary, makes acquire_student_contact_lock fail.
THEOREM KeyInRange ==
    ASSUME NEW half \in Nat, NEW u \in Unsigned(half)
    PROVE  LockKeyOf(u, half) \in Signed(half)
BY SMT DEF Unsigned, Signed, LockKeyOf

\* Two contacts share a lock only when the four bytes of their digests agree:
\* the conversion of _compute_lock_key adds no collision of its own.
THEOREM KeyIsInjective ==
    ASSUME NEW half \in Nat, NEW u \in Unsigned(half), NEW v \in Unsigned(half),
           LockKeyOf(u, half) = LockKeyOf(v, half)
    PROVE  u = v
BY SMT DEF Unsigned, LockKeyOf

-----------------------------------------------------------------------------
\* The subtraction counts birthdays: a student is at least n years old exactly
\* when the n-th birthday is not to come, also on the day itself.
THEOREM AgeCountsBirthdays ==
    ASSUME NEW today \in Date, NEW birth \in Date, NEW n \in Int
    PROVE  Age(today, birth) >= n <=> ~Before(today, Birthday(birth, n))
<1>1. CASE BirthdayToCome(today, birth)
  BY <1>1, SMT DEF Date, Age, Before, Birthday, BirthdayToCome
<1>2. CASE ~BirthdayToCome(today, birth)
  BY <1>2, SMT DEF Date, Age, Before, Birthday, BirthdayToCome
<1>3. QED
  BY <1>1, <1>2

\* validate_date_of_birth lets a date through from the sixth birthday until the
\* day before the twenty-second; that the date is past follows from the rest.
THEOREM AcceptedFromSixToTwentyOne ==
    ASSUME NEW today \in Date, NEW birth \in Date
    PROVE  Accepted(today, birth) <=>
               /\ ~Before(today, Birthday(birth, 6))
               /\ Before(today, Birthday(birth, 22))
<1>1. /\ Age(today, birth) \in Int
      /\ Age(today, birth) >= 6 => Before(birth, today)
  BY SMT DEF Date, Age, Before, BirthdayToCome
<1>2. /\ Age(today, birth) >= 6 <=> ~Before(today, Birthday(birth, 6))
      /\ Age(today, birth) >= 22 <=> ~Before(today, Birthday(birth, 22))
  BY AgeCountsBirthdays
<1>3. QED
  BY <1>1, <1>2, SMT DEF Accepted

-----------------------------------------------------------------------------
\* A refresh token, an invite, a reset token or an email-change code that was
\* issued and is not live now is never live again; each of them refines
\* OneTimeSecret.
THEOREM DeadForever ==
    ASSUME NEW t \in Nat \ {None}
    PROVE  Spec => [](t <= issued /\ live # t => [](live # t))
<1> DEFINE Dead == t <= issued /\ live # t
<1>1. Spec => [](issued \in Nat)
  <2>1. Init => issued \in Nat
    BY DEF Init
  <2>2. issued \in Nat /\ [Next]_vars => (issued \in Nat)'
    BY DEF Next, Issue, Withdraw, IssueElsewhere, vars
  <2>3. QED
    BY <2>1, <2>2, PTL DEF Spec
<1>2. issued \in Nat /\ Dead /\ [Next]_vars => Dead'
  BY DEF Next, Issue, Withdraw, IssueElsewhere, vars
<1>3. Dead => live # t
  OBVIOUS
<1>4. QED
  BY <1>1, <1>2, <1>3, PTL DEF Spec

=============================================================================
