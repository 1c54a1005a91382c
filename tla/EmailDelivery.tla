---------------------------- MODULE EmailDelivery ----------------------------
(* What the outbox promises about its emails: delivery at least once before  *)
(* an email counts as SENT, and none that is not PENDING.  Everything here   *)
(* is atomic.                                                                *)
EXTENDS Naturals

CONSTANT Mail

VARIABLES
    status,     \* of each email
    delivered   \* deliveries of each email since it last became PENDING

vars == <<status, delivered>>

Init ==
    /\ status = [m \in Mail |-> "ABSENT"]
    /\ delivered = [m \in Mail |-> 0]

\* An operation, or the retry of an email that is not pending, wants it sent.
Request(m) ==
    /\ status[m] # "PENDING"
    /\ status' = [status EXCEPT ![m] = "PENDING"]
    /\ delivered' = [delivered EXCEPT ![m] = 0]

Deliver(m) ==
    /\ status[m] = "PENDING"
    /\ delivered' = [delivered EXCEPT ![m] = @ + 1]
    /\ UNCHANGED status

MarkSent(m) ==
    /\ status[m] = "PENDING"
    /\ delivered[m] > 0
    /\ status' = [status EXCEPT ![m] = "SENT"]
    /\ UNCHANGED delivered

GiveUp(m) ==
    /\ status[m] = "PENDING"
    /\ status' = [status EXCEPT ![m] = "FAILED"]
    /\ UNCHANGED delivered

Next == \E m \in Mail : Request(m) \/ Deliver(m) \/ MarkSent(m) \/ GiveUp(m)

Spec == Init /\ [][Next]_vars
=============================================================================
