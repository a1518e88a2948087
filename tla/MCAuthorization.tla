-------------------------- MODULE MCAuthorization --------------------------
(* Authorization for TLC: names that a pattern of each form matches, misses *)
(* and almost matches.                                                      *)
EXTENDS Authorization

MCNames == {<<"E">>, <<"E", "/", "A">>, <<"A", "E">>}

MCPatterns ==
  {<<"E">>, <<"*", "E", "*">>, <<"E", "/", "*">>, <<"*", "/", "A">>, <<"*">>, <<"A", "*">>}
============================================================================
