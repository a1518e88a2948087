------------------------------ MODULE MCProxy ------------------------------
(* Proxy for TLC: lists with an exact entry and the subtree below it, with *)
(* two exact entries, with an entry Gin completes, with a named catch-all  *)
(* and with parameters; four that do not register; and pages at and under  *)
(* the entries, with and without a query.                                  *)
EXTENDS Proxy

MCTokens == {"/", "*", "?", ":", "a", "b"}

A == <<"/", "a">>
AB == <<"/", "a", "/", "b">>
NamedCatchAll == <<"/", "a", "/", "*", "b">>   \* as /OA_HTML/*.jsp
Parameter(x) == <<"/", "a", "/", ":", x>>
MCFiles ==
  {{A, A \o wild}, {A, AB}, {<<"a", "/", "/", "b">>}, {NamedCatchAll}, {A, Parameter("a")},
   {A \o wild, AB}, {wild}, {<<"*", "b">>}, {Parameter("a"), Parameter("b")}}
MCPages == {[path |-> A, query |-> <<"b">>], [path |-> A \o <<"/">>, query |-> <<>>],
            [path |-> AB, query |-> <<"b">>]}

Symmetry == Permutations(Ids) \union Permutations(Requests) \union Permutations(Browsers)
============================================================================
