------------------------- MODULE MCVerificationCodes -------------------------
(***************************************************************************)
(* VerificationCodes with at most two codes and their digests.             *)
(***************************************************************************)
EXTENDS VerificationCodes, TLC

CONSTANTS c1, c2, h1, h2

MCCodes == {c1, c2}
MCDigests == {h1, h2}
MCHash == [c \in Codes |-> IF c = c1 THEN h1 ELSE h2]

\* Bound: two senders overlap only while nothing is verified.
OneSideAtATime ==
    \/ \A v \in Verifiers : checkPc[v] = "idle"
    \/ Cardinality({s \in Senders : sendPc[s] # "idle"}) <= 1

\* The two codes change places together with their digests.
CodeSwap == (c1 :> c2) @@ (c2 :> c1) @@ (h1 :> h2) @@ (h2 :> h1)

\* Slots of one kind are interchangeable, and so are the codes.
Symmetry == Permutations(Senders) \cup Permutations(Verifiers) \cup {CodeSwap}
=============================================================================
