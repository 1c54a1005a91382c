--------------------------- MODULE MCContactLimit ---------------------------
(* Small instances of ContactLimit.  Distinct values have distinct keys in  *)
(* KeyDistinct; in KeyCollide all values share one key of each namespace.   *)
EXTENDS ContactLimit, TLC

CONSTANTS s1, s2, s3, e1, e2, a, b, t1, t2

Students1 == {s1}
Students2 == {s1, s2}
Students3 == {s1, s2, s3}
WithStaff == {s1, e1, e2}
Values2 == {a, b}
Txns2 == {t1, t2}

KeyDistinct == a :> 1 @@ b :> 2
KeyCollide == [v \in Values2 |-> 1]

Symmetry3 == Permutations(Students3) \cup Permutations(Txns2)
SymmetryStaff == Permutations({e1, e2}) \cup Permutations(Txns2)
=============================================================================
