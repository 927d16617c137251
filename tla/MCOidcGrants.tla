----------------------------- MODULE MCOidcGrants -----------------------------
(* Instance of OidcGrants for TLC: the rows and the request slots are          *)
(* interchangeable.                                                            *)
EXTENDS OidcGrants, TLC

Symmetry == Permutations(Codes) \cup Permutations(Grants) \cup Permutations(Reqs)
              \cup Permutations(Clients)

===============================================================================
