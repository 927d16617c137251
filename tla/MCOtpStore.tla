------------------------------ MODULE MCOtpStore ------------------------------
(* Instance of OtpStore for TLC: codes and call slots are interchangeable.     *)
EXTENDS OtpStore, TLC

Symmetry == Permutations(Codes) \cup Permutations(Calls)

===============================================================================
