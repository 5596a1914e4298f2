-------------------------- MODULE DeliveryPromise --------------------------
(***************************************************************************)
(* What an outbox of the service promises, whoever delivers and whatever   *)
(* fails: what was accepted stays pending until it is settled exactly      *)
(* once, and it is recorded as delivered only when its destination has     *)
(* received it.  Both outboxes keep this (SafeSpec); of the                *)
(* support-submission outbox it is also promised that everything accepted  *)
(* is settled eventually (Spec).                                           *)
(***************************************************************************)
CONSTANT Id

VARIABLES status, received

vars == <<status, received>>

TypeOK ==
    /\ status \in [Id -> {"none", "pending", "delivered", "failed"}]
    /\ received \subseteq Id

Init ==
    /\ status = [i \in Id |-> "none"]
    /\ received = {}

Accept(i) ==
    /\ status[i] = "none"
    /\ status' = [status EXCEPT ![i] = "pending"]
    /\ UNCHANGED received

\* A copy of it reaches its destination, perhaps not the first.
Arrive(i) ==
    /\ status[i] # "none"
    /\ received' = received \cup {i}
    /\ UNCHANGED status

Deliver(i) ==
    /\ status[i] = "pending"
    /\ i \in received
    /\ status' = [status EXCEPT ![i] = "delivered"]
    /\ UNCHANGED received

Fail(i) ==
    /\ status[i] = "pending"
    /\ status' = [status EXCEPT ![i] = "failed"]
    /\ UNCHANGED received

Next == \E i \in Id : Accept(i) \/ Arrive(i) \/ Deliver(i) \/ Fail(i)

SafeSpec == Init /\ [][Next]_vars

Spec == SafeSpec /\ \A i \in Id : WF_vars(Deliver(i) \/ Fail(i))
=============================================================================
