----------------------------- MODULE DateOfBirth -----------------------------
(***************************************************************************)
(* The age check of a student's date of birth: years are subtracted, and   *)
(* one more is taken off while this year's birthday is still to come.      *)
(***************************************************************************)
EXTENDS Integers

Date == [year: Int, month: 1..12, day: 1..31]

\* The order of (month, day) pairs.
BirthdayToCome(today, birth) ==
    \/ today.month < birth.month
    \/ today.month = birth.month /\ today.day < birth.day

Age(today, birth) ==
    today.year - birth.year - (IF BirthdayToCome(today, birth) THEN 1 ELSE 0)

Before(d, e) ==
    \/ d.year < e.year
    \/ d.year = e.year /\ BirthdayToCome(d, e)

\* validate_date_of_birth lets the date through.
Accepted(today, birth) ==
    /\ Before(birth, today)
    /\ Age(today, birth) >= 6
    /\ Age(today, birth) <= 21

\* The n-th birthday; that of a 29 February is over on 1 March of other years.
Birthday(birth, n) == [birth EXCEPT !.year = birth.year + n]

=============================================================================
