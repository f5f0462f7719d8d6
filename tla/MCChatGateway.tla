---------------------------- MODULE MCChatGateway ----------------------------
(* Instances of ChatGateway for TLC. *)
EXTENDS ChatGateway, TLC

CONSTANTS r1, r2, r3, u1, u2, k1, k2, m1, m2, m3, m4, hostA, hostB

\* k1 belongs to u1, k2 is a legacy key without a user.
MCOwner == k1 :> u1 @@ k2 :> NoUser
MCHost == m1 :> hostA @@ m2 :> hostA @@ m3 :> hostB @@ m4 :> hostB

\* A chain whose head has no key and whose third model shares the host of the
\* second, so that the fallback is its last, and none at all.
MCChains == {<<m4, m1, m2, m3>>, <<>>}

\* One path through the router, for the runs about the ledger.
OneChain == {<<m1>>}

Perms == Permutations(Requests)
=============================================================================
