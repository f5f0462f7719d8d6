---------------------------- MODULE MCOAuthLinks ----------------------------
(* OAuthLinks for TLC: the bounds are in OAuthCheck.cfg.                   *)
EXTENDS OAuthLinks, TLC

\* Slots, identities and addresses are interchangeable.
Symmetry == Permutations(Slots) \cup Permutations(Emails)
                \cup Permutations(Subs)
=============================================================================
