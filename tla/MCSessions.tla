------------------------------ MODULE MCSessions ------------------------------
(* Sessions for TLC: the bounds are in the .cfg files.                      *)
EXTENDS Sessions, TLC

\* Slots and passwords are interchangeable.
Symmetry == Permutations(Slots) \cup Permutations(Passwords)
=============================================================================
