---------------------------- MODULE MCEntityCache ----------------------------
(* Small instances of EntityCache: every kind of row with every audience.     *)
EXTENDS EntityCache

CONSTANTS r1, w1, w2, v1, v2

Reader1 == {r1}
Writer2 == {w1, w2}
Values2 == {v1, v2}

AllEntities == {e \in [kind: Kind, aud: {"admin", "staff", "self"}] :
                   e.aud \in Keys(e.kind)}

OwnProfile == {[kind |-> "student", aud |-> "self"]}
=============================================================================
