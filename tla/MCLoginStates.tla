--------------------------- MODULE MCLoginStates ---------------------------
(* LoginStates for TLC: browsers, logins and requests are interchangeable.  *)
EXTENDS LoginStates, TLC

Symmetry ==
  Permutations(Browsers) \union Permutations(Logins) \union Permutations(Requests)
============================================================================
