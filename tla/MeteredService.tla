---------------------------- MODULE MeteredService ----------------------------
(***************************************************************************)
(* What the chat endpoint promises, whatever fails inside it: a request is *)
(* answered once, it is charged at most once, and a request that is        *)
(* refused is never charged, neither before nor after the refusal.         *)
(***************************************************************************)
EXTENDS Naturals

CONSTANT Requests

VARIABLES
    outcome,    \* what the client was told
    charges     \* usage rows the request left

vars == <<outcome, charges>>

Init ==
    /\ outcome = [r \in Requests |-> "open"]
    /\ charges = [r \in Requests |-> 0]

Serve(r) ==
    /\ outcome[r] = "open"
    /\ outcome' = [outcome EXCEPT ![r] = "served"]
    /\ UNCHANGED charges

Refuse(r) ==
    /\ outcome[r] = "open" /\ charges[r] = 0
    /\ outcome' = [outcome EXCEPT ![r] = "refused"]
    /\ UNCHANGED charges

\* A JSON request is charged before it is answered, a stream after; the last
\* write of a JSON request may be the charge itself, which then answers it.
Charge(r) ==
    /\ outcome[r] # "refused" /\ charges[r] = 0
    /\ charges' = [charges EXCEPT ![r] = 1]
    /\ \/ UNCHANGED outcome
       \/ outcome' = [outcome EXCEPT ![r] = "served"]

Next == \E r \in Requests : Serve(r) \/ Refuse(r) \/ Charge(r)

Spec == Init /\ [][Next]_vars
=============================================================================
