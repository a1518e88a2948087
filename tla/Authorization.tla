--------------------------- MODULE Authorization ---------------------------
(***************************************************************************)
(* handlers/authorization.go: what Callback does with the groups of an ID  *)
(* token.  ExtractGroups reads them from the group claim, AuthorizeUser    *)
(* decides by the settings, and a group is compared with a configured      *)
(* pattern by matchPattern.  Group names and patterns are sequences of     *)
(* characters, since what a wildcard matches is the point here.            *)
(***************************************************************************)
EXTENDS Naturals, Sequences, SequencesExt, FiniteSets

CONSTANTS
  Names,       \* group names that occur in tokens
  Patterns,    \* entries of allowed_groups and denied_groups
  MaxAllowed   \* bound on the length of allowed_groups

ASSUME AuthorizationAssumption ==
  Names \subseteq Seq(STRING) /\ Patterns \subseteq Seq(STRING) /\ MaxAllowed \in Nat

VARIABLES
  settings,   \* the authorization settings of this process
  claim,      \* the group claim of the ID token at hand
  groups,     \* what ExtractGroups made of it
  pc          \* "extract", "authorize", then "allowed" or "denied"

vars == <<settings, claim, groups, pc>>

Settings ==
  [enabled : BOOLEAN, strict : BOOLEAN, requireMatch : BOOLEAN, all : BOOLEAN,
   allowed : SeqOf(Patterns, MaxAllowed), denied : {{}} \union {{p} : p \in Patterns}]

(* The claim is absent or not configured, a string, a list that may hold   *)
(* things other than strings, or something else altogether.                *)
Claims ==
  [form : {"absent", "other"}] \union [form : {"string"}, name : Names]
    \union [form : {"list"}, names : SUBSET Names]

Init == settings \in Settings /\ claim \in Claims /\ groups = {} /\ pc = "extract"

(* strings.HasPrefix, HasSuffix, Contains and Trim(p, "*") *)
HasPrefix(s, x) == IsPrefix(x, s)
HasSuffix(s, x) == IsSuffix(x, s)
HasSubstring(s, x) == \E i \in 0 .. Len(s) : HasPrefix(SubSeq(s, i + 1, Len(s)), x)

(* deliberately faulty, for a mutation run: only the stars at the end go *)
TrimStarsRight(p) ==
  LET kept == {i \in DOMAIN p : p[i] # "*"}
  IN IF kept = {} THEN <<>> ELSE SubSeq(p, 1, Max(kept))

TrimStars(p) ==
  LET kept == {i \in DOMAIN p : p[i] # "*"}
  IN IF kept = {} THEN <<>> ELSE SubSeq(p, Min(kept), Max(kept))

(* matchPattern: exact, or one of three wildcard forms, tried in order. *)
EndForm(p) == HasSuffix(p, <<"/", "*">>)
StartForm(p) == ~EndForm(p) /\ HasPrefix(p, <<"*", "/">>)
ContainsForm(p) ==
  ~EndForm(p) /\ ~StartForm(p) /\ HasPrefix(p, <<"*">>) /\ HasSuffix(p, <<"*">>)

matchPattern(v, p) ==
  \/ v = p
  \/ EndForm(p) /\ HasPrefix(v, SubSeq(p, 1, Len(p) - 2))
  \/ StartForm(p) /\ HasSuffix(v, SubSeq(p, 3, Len(p)))
  \/ ContainsForm(p) /\ HasSubstring(v, TrimStars(p))

isGroupMatch(gs, p) == \E g \in gs : matchPattern(g, p)

---------------------------------------------------------------------------
(* Deliberately faulty variants of operators below, for mutation runs. *)

(* a claim of an unexpected form is printed into a name *)
FromClaimPrinted(c) ==
  IF c.form = "list" THEN c.names ELSE IF c.form = "string" THEN {c.name} ELSE {<<c.form>>}

(* the user's groups are collected instead of the patterns they match *)
GroupsOfUser(gs) ==
  {g \in gs : \E i \in DOMAIN settings.allowed : matchPattern(g, settings.allowed[i])}

(* an empty allowed_groups admits whatever the mode *)
NoneConfiguredAdmits == TRUE

(* denied_groups counts only for users in no allowed group *)
IsDeniedLast(gs) ==
  /\ \E p \in settings.denied : isGroupMatch(gs, p)
  /\ ~\E i \in DOMAIN settings.allowed : isGroupMatch(gs, settings.allowed[i])

---------------------------------------------------------------------------
(* The entries of allowed_groups that a group matches, by their places: an *)
(* entry that is there twice is counted twice.                             *)
getMatchedGroups(gs) ==
  {i \in DOMAIN settings.allowed : isGroupMatch(gs, settings.allowed[i])}

IsDenied(gs) == \E p \in settings.denied : isGroupMatch(gs, p)

(* No allowed group is configured: the mode decides. *)
ModeAdmits == ~settings.strict

(* authorizeUser *)
Authorized(gs) ==
  \/ ~settings.enabled
  \/ /\ ~IsDenied(gs)
     /\ IF settings.allowed = <<>> THEN ModeAdmits
        ELSE \/ ~settings.requireMatch
             \/ IF settings.all
                THEN Cardinality(getMatchedGroups(gs)) = Len(settings.allowed)
                ELSE Cardinality(getMatchedGroups(gs)) > 0

FromClaim(c) ==
  IF c.form = "list" THEN c.names ELSE IF c.form = "string" THEN {c.name} ELSE {}

ExtractGroups ==
  /\ pc = "extract"
  /\ groups' = FromClaim(claim)
  /\ pc' = "authorize"
  /\ UNCHANGED <<settings, claim>>

AuthorizeUser ==
  /\ pc = "authorize"
  /\ pc' = IF Authorized(groups) THEN "allowed" ELSE "denied"
  /\ UNCHANGED <<settings, claim, groups>>

Next == ExtractGroups \/ AuthorizeUser

Spec == Init /\ [][Next]_vars

---------------------------------------------------------------------------
(* The types of the settings, the claim and the decision. *)
TypeOK ==
  /\ settings \in Settings /\ claim \in Claims
  /\ groups \subseteq Names
  /\ pc \in {"extract", "authorize", "allowed", "denied"}

(* The names the token holds, in whatever form. *)
TokenNames ==
  {n \in Names : \/ claim.form = "string" /\ claim.name = n
                 \/ claim.form = "list" /\ n \in claim.names}

Decided == pc \in {"allowed", "denied"} /\ settings.enabled

(* denied_groups takes precedence: nobody whose token names a denied group *)
(* is let in, whatever else the token or the settings say and whichever    *)
(* form the claim has.                                                     *)
DeniedWins ==
  Decided /\ (\E n \in TokenNames, p \in settings.denied : matchPattern(n, p)) => pc = "denied"

(* One more group never costs a user the access it had, unless that group  *)
(* is a denied one; in particular "all" asks for every allowed pattern to  *)
(* be matched, not for as many groups as patterns.                         *)
AccessGrowsWithGroups ==
  Decided /\ pc = "allowed" =>
    \A n \in Names : Authorized(groups \union {n}) \/ IsDenied(groups \union {n})

(* In strict mode with require_group_match a user gets in only with a      *)
(* group that some allowed pattern matches: a token without the claim, or  *)
(* settings without allowed groups, let nobody in.                         *)
StrictAdmitsMembers ==
  Decided /\ pc = "allowed" /\ settings.strict /\ settings.requireMatch =>
    \E n \in TokenNames, i \in DOMAIN settings.allowed : matchPattern(n, settings.allowed[i])

(* What a pattern matches when each star stands for any text: cut[j] is     *)
(* how much of v the first j characters of p stand for.                    *)
Glob(v, p) ==
  \E cut \in [0 .. Len(p) -> 0 .. Len(v)] :
    /\ cut[0] = 0 /\ cut[Len(p)] = Len(v)
    /\ \A j \in 1 .. Len(p) :
         IF p[j] = "*" THEN cut[j - 1] =< cut[j]
         ELSE cut[j] = cut[j - 1] + 1 /\ v[cut[j]] = p[j]

HasStar(p) == \E i \in DOMAIN p : p[i] = "*"

(* A pattern without a star, and *text*, is the glob it looks like.  With  *)
(* text/* and */text the slash counts as part of the star: they are the    *)
(* globs text* and *text.  A star anywhere else stands for itself: such a  *)
(* pattern matches the group of that very name and no other.               *)
WildcardsAreGlobs ==
  \A n \in TokenNames, p \in settings.denied \union ToSet(settings.allowed) :
    LET front == SubSeq(p, 1, Len(p) - 2)
        back == SubSeq(p, 3, Len(p))
        middle == SubSeq(p, 2, Len(p) - 1)
    IN /\ ~HasStar(p) \/ (ContainsForm(p) /\ ~HasStar(middle)) =>
            (matchPattern(n, p) <=> Glob(n, p))
       /\ EndForm(p) /\ ~HasStar(front) =>
            (matchPattern(n, p) <=> Glob(n, Append(front, "*")))
       /\ StartForm(p) /\ ~HasStar(back) =>
            (matchPattern(n, p) <=> Glob(n, <<"*">> \o back))
       /\ ~EndForm(p) /\ ~StartForm(p) /\ ~ContainsForm(p) =>
            (matchPattern(n, p) <=> n = p)

(* DEPENDENCIES_AND_FAILURES.md on wildcards: "EBS_*" stands for "All      *)
(* groups starting with EBS_", "*_Admins" for "All admin groups".  So with *)
(* the strategy "any" a user in a group that such an entry of              *)
(* allowed_groups covers is let in, if no group is denied.                 *)
DocumentedWildcardsAdmit ==
  Decided /\ settings.requireMatch /\ ~settings.all /\ settings.denied = {} =>
    ((\E n \in TokenNames, i \in DOMAIN settings.allowed : Glob(n, settings.allowed[i]))
       => pc = "allowed")
============================================================================
