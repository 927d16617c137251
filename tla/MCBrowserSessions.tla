--------------------------- MODULE MCBrowserSessions ---------------------------
(* Instance of BrowserSessions for TLC: sessions, tokens and request slots     *)
(* are interchangeable.                                                        *)
EXTENDS BrowserSessions, TLC

Symmetry == Permutations(Sids) \cup Permutations(Tokens) \cup Permutations(Reqs)

===============================================================================
