----------------------------- MODULE OneTimeToken -----------------------------
(***************************************************************************)
(* What a one-time credential promises, whatever table it is kept in: it   *)
(* is issued once, it is honoured at most once, and a token that has been  *)
(* voided (used, locked, expired and swept) is never honoured afterwards.  *)
(***************************************************************************)
EXTENDS Naturals

CONSTANT Tokens

VARIABLES
    issued,     \* tokens handed out
    void,       \* tokens that can no longer be honoured
    honoured    \* how many times each token was honoured

vars == <<issued, void, honoured>>

Init ==
    /\ issued = {}
    /\ void = {}
    /\ honoured = [t \in Tokens |-> 0]

Issue(t) ==
    /\ t \notin issued
    /\ issued' = issued \cup {t}
    /\ UNCHANGED <<void, honoured>>

Honour(t) ==
    /\ t \in issued \ void
    /\ void' = void \cup {t}
    /\ honoured' = [honoured EXCEPT ![t] = @ + 1]
    /\ UNCHANGED issued

Void(dead) ==
    /\ void' = void \cup dead
    /\ UNCHANGED <<issued, honoured>>

Next ==
    \/ \E t \in Tokens : Issue(t) \/ Honour(t)
    \/ \E dead \in SUBSET issued : Void(dead)

Spec == Init /\ [][Next]_vars
=============================================================================
