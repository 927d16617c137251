----------------------------- MODULE MCSigningKeys -----------------------------
(* Instance of SigningKeys for TLC: keys and call slots are interchangeable.   *)
EXTENDS SigningKeys, TLC

Symmetry == Permutations(Kids) \cup Permutations(Calls)

===============================================================================
