--------------------------- MODULE ContactRegistry ---------------------------
(***************************************************************************)
(* What the contact checks promise, with no transaction, lock or index in  *)
(* sight: contacts change one user at a time, and a user only ever takes a *)
(* contact that fewer than MaxAllowed users of the same class have at that *)
(* very moment.                                                            *)
(***************************************************************************)
EXTENDS Naturals, FiniteSets

CONSTANTS User, Student, Value, MaxShared, None

VARIABLE contact    \* the phone number and the email address of every user

Kind == {"phone", "email"}

NoRow == [k \in Kind |-> None]

Peers(u) == IF u \in Student THEN Student ELSE User \ Student

MaxAllowed(u) == IF u \in Student THEN MaxShared ELSE 1

Sharing(u, k, v) == {w \in Peers(u) \ {u} : contact[w][k] = v}

Init == contact = [u \in User |-> NoRow]

\* Give u the contacts of row, at once.  An existing user keeps both contacts.
Assign(u, row) ==
    /\ \A k \in Kind : row[k] # contact[u][k] =>
           Cardinality(Sharing(u, k, row[k])) < MaxAllowed(u)
    /\ contact' = [contact EXCEPT ![u] = row]

Next == \E u \in User, row \in [Kind -> Value] : Assign(u, row)

Spec == Init /\ [][Next]_contact
=============================================================================
