------------------------- MODULE MCSessionManager -------------------------
(* SessionManager for TLC.  Users, session ids and requests are            *)
(* interchangeable.                                                        *)
EXTENDS SessionManager

Symmetry ==
  Permutations(Users) \union Permutations(Ids) \union Permutations(Requests)
===========================================================================
