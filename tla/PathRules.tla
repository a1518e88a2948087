----------------------------- MODULE PathRules -----------------------------
(***************************************************************************)
(* The rules about paths.  ebs.allowed_paths is read three times over:     *)
(* main.go makes routes of it, ProxyRequest asks isPathAllowed, and        *)
(* Callback asks isValidReturnURL about the link that ProxyRequest made.   *)
(*                                                                         *)
(* A path, a query and a pattern are sequences of tokens; the tests of the *)
(* code are on prefixes and suffixes, which a string such as "/a" has in   *)
(* "/ab" as <<"/", "a">> has in <<"/", "a", "b">>.  What Gin makes of a    *)
(* route is version 1.9.1's, which go.mod asks for.                        *)
(***************************************************************************)
EXTENDS Naturals, Sequences, SequencesExt

wild == <<"/", "*">>
IsSubtree(pattern) == IsSuffix(wild, pattern)
Stem(pattern) == SubSeq(pattern, 1, Len(pattern) - Len(wild))

(* a subtree does not include its root (for a mutation run) *)
StrictlyUnder(path, pattern) ==
  IsPrefix(Stem(pattern), path) /\ Len(path) > Len(Stem(pattern)) + 1

(* strings.HasPrefix: the next character need not be a slash. *)
Under(path, pattern) == IsPrefix(Stem(pattern), path)

matchesPattern(path, pattern) ==
  \/ pattern = <<"*">>
  \/ path = pattern
  \/ IsSubtree(pattern) /\ Under(path, pattern)
  \/ /\ ~IsSubtree(pattern) /\ pattern # <<>> /\ Head(pattern) = "*"
     /\ IsSuffix(Tail(pattern), path)

---------------------------------------------------------------------------
(* convertToGinPath: the subtree /a/* is registered as /a/*filepath, every *)
(* other entry as it is.                                                   *)
convertToGinPath(pattern) ==
  IF IsSubtree(pattern) THEN Stem(pattern) \o <<"/", "*", "filepath">> ELSE pattern

(* Gin joins a route to "/": it begins with a slash, and slashes in a row  *)
(* are one.  A dot or two as a segment is not among the tokens.            *)
Clean(s) ==
  /\ s # <<>> /\ Head(s) = "/"
  /\ \A i \in 1 .. Len(s) - 1 : s[i] = "/" => s[i + 1] # "/"

Joined(s) ==
  LET Add(route, t) == IF t = "/" /\ Last(route) = "/" THEN route ELSE Append(route, t)
  IN IF Clean(s) THEN s ELSE FoldLeft(Add, <<"/">>, s)

Route(pattern) == Joined(convertToGinPath(pattern))

(* What stands between the slashes of a path that begins with one. *)
Segments(s) ==
  LET Add(parts, t) == IF t = "/" THEN Append(parts, <<>>)
                                  ELSE Append(Front(parts), Append(Last(parts), t))
  IN FoldLeft(Add, <<>>, s)

(* A segment b:x of a route is the text b with the parameter x after it,   *)
(* and a last segment *x takes the rest of a path.                         *)
Wildcards == {":", "*"}
HasParameter(part) == ":" \in ToSet(part)
Before(part) == SubSeq(part, 1, SelectInSeq(part, LAMBDA t : t = ":") - 1)

(* Gin's wildcards have a name, a segment has one of them, and only the    *)
(* last one is a catch-all of its own.                                     *)
WellFormed(route) ==
  \A k \in DOMAIN Segments(route) :
    LET part == Segments(route)[k]
    IN \A i \in DOMAIN part : part[i] \in Wildcards =>
         /\ i < Len(part) /\ \A j \in i + 1 .. Len(part) : part[j] \notin Wildcards
         /\ part[i] = "*" => i = 1 /\ k = Len(Segments(route))

(* Two routes do not fit in one tree: they are the same, one begins like   *)
(* the other's catch-all, or they name one parameter differently.          *)
Clash(route, other) ==
  LET R == Segments(route)
      O == Segments(other)
  IN \/ route = other
     \/ \E i \in DOMAIN route : route[i] = "*" /\ IsPrefix(SubSeq(route, 1, i - 1), other)
     \/ \E k \in DOMAIN R \cap DOMAIN O :
          /\ SubSeq(R, 1, k - 1) = SubSeq(O, 1, k - 1) /\ R[k] # O[k]
          /\ HasParameter(R[k]) /\ HasParameter(O[k]) /\ Before(R[k]) = Before(O[k])

OwnRoutes ==
  {<<"/">>, <<"/", "login">>, <<"/", "callback">>, <<"/", "logout">>, <<"/", "health">>}

(* Gin panics at a route it can not add, and so does main.  A list with an *)
(* entry twice does not register either: the lists here are sets.          *)
Registers(allowed) ==
  /\ \A p \in allowed : WellFormed(Route(p))
  /\ \A p \in allowed, q \in allowed : p # q => ~Clash(Route(p), Route(q))
  /\ \A p \in allowed, own \in OwnRoutes : ~Clash(Route(p), own) /\ ~Clash(own, Route(p))

(* Gin's match, segment by segment where a route has parameters: only one  *)
(* at the very end has to be of some length.                               *)
MatchesParameters(route, path) ==
  LET R == Segments(route)
      P == Segments(path)
      rest == "*" \in ToSet(route)
      n == IF rest THEN Len(R) - 1 ELSE Len(R)
  IN /\ IF rest THEN Len(P) > n ELSE Len(P) = n
     /\ \A k \in 1 .. n : IF HasParameter(R[k]) THEN IsPrefix(Before(R[k]), P[k]) ELSE P[k] = R[k]
     /\ ~rest /\ HasParameter(R[n]) => Len(P[n]) > Len(Before(R[n]))

Routes(route, path) ==
  IF HasParameter(route)
  THEN MatchesParameters(route, path)
  ELSE \/ "*" \notin ToSet(route) /\ path = route
       \/ \E i \in DOMAIN route : route[i] = "*" /\ IsPrefix(SubSeq(route, 1, i - 1), path)

(* The paths that main.go's routes lead to the proxy: none for an empty    *)
(* list.                                                                   *)
Routed(path, allowed) == \E p \in allowed : Routes(Route(p), path)

(* The entries that Gin and the gateway read alike: a path, or a subtree,  *)
(* that begins with a slash and has no other wildcard.                     *)
Plain(pattern) ==
  /\ Clean(convertToGinPath(pattern))
  /\ LET fixed == IF IsSubtree(pattern) THEN Stem(pattern) ELSE pattern
     IN ToSet(fixed) \cap Wildcards = {}

isPathAllowed(path, allowed) ==
  allowed = {} \/ \E p \in allowed : matchesPattern(path, p)

---------------------------------------------------------------------------
(* A URL is what follows the address of its host; ebs tells whether that   *)
(* is BaseURL.  A page has a path and a query, which may be empty.         *)
LinkOf(page) ==
  [ebs |-> TRUE,
   rest |-> IF page.query = <<>> THEN page.path ELSE page.path \o <<"?">> \o page.query]

(* every entry has to match (for a mutation run) *)
isValidReturnURLEvery(url, allowed) ==
  url.ebs /\ \A p \in allowed : matchesPattern(url.rest, p)

isValidReturnURL(url, allowed) ==
  /\ url.ebs
  /\ allowed # {} => \E p \in allowed : matchesPattern(url.rest, p)
============================================================================
