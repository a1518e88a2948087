------------------------ MODULE AuthorizationProofs ------------------------
(***************************************************************************)
(* Proofs about Authorization, for any names, any patterns and any length  *)
(* of allowed_groups.  Precedence, growth and strictness come first: they  *)
(* do not depend on what a pattern matches.  What it matches, for names    *)
(* and patterns of any length, is the second half.                         *)
(***************************************************************************)
EXTENDS Authorization, Integers, FiniteSetTheorems, SequenceTheorems, WellFoundedInduction, TLAPS

(* After ExtractGroups the groups are those of the token, and the decision *)
(* is authorizeUser's.                                                     *)
IInv ==
  /\ TypeOK
  /\ pc # "extract" => groups = FromClaim(claim)
  /\ pc = "allowed" => Authorized(groups)
  /\ pc = "denied" => ~Authorized(groups)

---------------------------------------------------------------------------
(* ExtractGroups reads the names the token holds, whatever the claim's     *)
(* form, and nothing else.                                                 *)
LEMMA FormsAgree == ASSUME TypeOK PROVE FromClaim(claim) = TokenNames
<1>1. CASE claim.form = "list" /\ claim.names \subseteq Names
  BY <1>1 DEF FromClaim, TokenNames
<1>2. CASE claim.form = "string" /\ claim.name \in Names
  BY <1>2 DEF FromClaim, TokenNames
<1>3. CASE claim.form \in {"absent", "other"}
  BY <1>3 DEF FromClaim, TokenNames
<1>4. QED BY <1>1, <1>2, <1>3 DEF TypeOK, Claims

(* The matched entries of allowed_groups are places in a finite list. *)
LEMMA MatchesCounted ==
  ASSUME TypeOK, NEW gs
  PROVE  /\ IsFiniteSet(DOMAIN settings.allowed)
         /\ Len(settings.allowed) \in Nat
         /\ Cardinality(DOMAIN settings.allowed) = Len(settings.allowed)
         /\ getMatchedGroups(gs) \subseteq DOMAIN settings.allowed
         /\ IsFiniteSet(getMatchedGroups(gs))
         /\ Cardinality(getMatchedGroups(gs)) \in 0 .. Len(settings.allowed)
<1>1. settings.allowed \in SeqOf(Patterns, MaxAllowed)
  BY DEF TypeOK, Settings
<1>2. PICK m \in 0 .. MaxAllowed : settings.allowed \in [1 .. m -> Patterns]
  BY <1>1 DEF SeqOf
<1>3. m \in Nat /\ DOMAIN settings.allowed = 1 .. m /\ Len(settings.allowed) = m
  BY <1>2, AuthorizationAssumption
<1>4. IsFiniteSet(1 .. m) /\ Cardinality(1 .. m) = m
  BY <1>3, FS_Interval
<1>5. getMatchedGroups(gs) \subseteq DOMAIN settings.allowed
  BY DEF getMatchedGroups
<1>6. /\ IsFiniteSet(getMatchedGroups(gs)) /\ Cardinality(getMatchedGroups(gs)) \in Nat
      /\ Cardinality(getMatchedGroups(gs)) =< m
  BY <1>3, <1>4, <1>5, FS_Subset, FS_CardinalityType
<1>7. QED BY <1>3, <1>4, <1>5, <1>6

---------------------------------------------------------------------------
(* Before the claim is read. *)
LEMMA InvInit == Init => IInv
BY DEF Init, IInv, TypeOK

(* One decision. *)
LEMMA InvNext == IInv /\ [Next]_vars => IInv'
<1> SUFFICES ASSUME IInv, [Next]_vars PROVE IInv'
  OBVIOUS
<1>1. CASE ExtractGroups
  <2>1. TokenNames \subseteq Names
    BY DEF TokenNames
  <2>2. FromClaim(claim) \subseteq Names
    BY <2>1, FormsAgree DEF IInv
  <2>3. TypeOK' /\ pc' = "authorize" /\ groups' = FromClaim(claim) /\ claim' = claim
    BY <1>1, <2>2 DEF IInv, TypeOK, ExtractGroups
  <2>4. FromClaim(claim)' = FromClaim(claim)
    BY <2>3 DEF FromClaim
  <2>5. QED BY <2>3, <2>4 DEF IInv
<1>2. CASE AuthorizeUser
  <2>1. TypeOK' /\ UNCHANGED <<settings, claim, groups>> /\ pc = "authorize"
        /\ pc' = IF Authorized(groups) THEN "allowed" ELSE "denied"
    BY <1>2 DEF IInv, TypeOK, AuthorizeUser
  <2>2. /\ Authorized(groups)' <=> Authorized(groups)
        /\ FromClaim(claim)' = FromClaim(claim)
    BY <2>1 DEF Authorized, IsDenied, ModeAdmits, getMatchedGroups, FromClaim
  <2>3. QED BY <2>1, <2>2 DEF IInv
<1>3. CASE UNCHANGED vars
  BY <1>3 DEF IInv, vars, TypeOK, Authorized, IsDenied, ModeAdmits, getMatchedGroups, FromClaim
<1>4. QED BY <1>1, <1>2, <1>3 DEF Next

(* The invariant holds always. *)
THEOREM Invariance == Spec => []IInv
BY InvInit, InvNext, PTL DEF Spec

(* The types of the settings, the claim and the decision. *)
THEOREM TypeCorrect == Spec => []TypeOK
<1>1. IInv => TypeOK
  BY DEF IInv
<1>2. QED BY <1>1, Invariance, PTL

(* Whoever is in a denied group is denied, whatever the other settings and *)
(* groups are.                                                             *)
THEOREM DeniedComesFirst == Spec => []DeniedWins
<1>1. IInv => DeniedWins
  <2> SUFFICES ASSUME IInv, Decided,
                      NEW n \in TokenNames, NEW p \in settings.denied, matchPattern(n, p)
               PROVE  pc = "denied"
    BY DEF DeniedWins
  <2>1. n \in groups
    BY FormsAgree DEF IInv, Decided
  <2>2. IsDenied(groups)
    BY <2>1 DEF IsDenied, isGroupMatch
  <2>3. ~Authorized(groups)
    BY <2>2 DEF Authorized, Decided
  <2>4. QED BY <2>3 DEF IInv, Decided
<1>2. QED BY <1>1, Invariance, PTL

(* One more group never takes access away, unless it is denied. *)
THEOREM GroupsOnlyHelp == Spec => []AccessGrowsWithGroups
<1>1. IInv => AccessGrowsWithGroups
  <2> SUFFICES ASSUME IInv, Decided, pc = "allowed", NEW n \in Names,
                      ~IsDenied(groups \union {n})
               PROVE  Authorized(groups \union {n})
    BY DEF AccessGrowsWithGroups
  <2> DEFINE more == groups \union {n}
  <2>1. TypeOK /\ Authorized(groups) /\ settings.enabled
    BY DEF IInv, Decided
  <2>2. getMatchedGroups(groups) \subseteq getMatchedGroups(more)
    BY DEF getMatchedGroups, isGroupMatch
  <2>3. /\ Cardinality(getMatchedGroups(groups)) \in 0 .. Len(settings.allowed)
        /\ Cardinality(getMatchedGroups(more)) \in 0 .. Len(settings.allowed)
        /\ IsFiniteSet(getMatchedGroups(more)) /\ Len(settings.allowed) \in Nat
    BY <2>1, MatchesCounted
  <2>4. Cardinality(getMatchedGroups(groups)) =< Cardinality(getMatchedGroups(more))
    BY <2>2, <2>3, FS_Subset
  <2>5. CASE settings.allowed = <<>> \/ ~settings.requireMatch
    BY <2>1, <2>5 DEF Authorized, ModeAdmits
  <2>6. CASE settings.allowed # <<>> /\ settings.requireMatch /\ settings.all
    <3>1. Cardinality(getMatchedGroups(groups)) = Len(settings.allowed)
      BY <2>1, <2>6 DEF Authorized
    <3>2. Cardinality(getMatchedGroups(more)) = Len(settings.allowed)
      BY <2>3, <2>4, <3>1
    <3>3. QED BY <2>6, <3>2 DEF Authorized
  <2>7. CASE settings.allowed # <<>> /\ settings.requireMatch /\ ~settings.all
    <3>1. Cardinality(getMatchedGroups(groups)) > 0
      BY <2>1, <2>7 DEF Authorized
    <3>2. Cardinality(getMatchedGroups(more)) > 0
      BY <2>3, <2>4, <3>1
    <3>3. QED BY <2>7, <3>2 DEF Authorized
  <2>8. QED BY <2>5, <2>6, <2>7
<1>2. QED BY <1>1, Invariance, PTL

(* Strict mode with require_group_match lets members in and nobody else. *)
THEOREM OnlyMembers == Spec => []StrictAdmitsMembers
<1>1. IInv => StrictAdmitsMembers
  <2> SUFFICES ASSUME IInv, Decided, pc = "allowed", settings.strict, settings.requireMatch
               PROVE  \E n \in TokenNames, i \in DOMAIN settings.allowed :
                        matchPattern(n, settings.allowed[i])
    BY DEF StrictAdmitsMembers
  <2>1. TypeOK /\ Authorized(groups) /\ settings.enabled /\ groups = TokenNames
    BY FormsAgree DEF IInv, Decided
  <2>2. settings.allowed # <<>>
    BY <2>1 DEF Authorized, ModeAdmits
  <2>3. /\ IsFiniteSet(getMatchedGroups(groups))
        /\ Len(settings.allowed) \in Nat
        /\ IsFiniteSet(DOMAIN settings.allowed)
        /\ Cardinality(DOMAIN settings.allowed) = Len(settings.allowed)
    BY <2>1, MatchesCounted
  <2>4. Len(settings.allowed) > 0
    BY <2>1, <2>2, AuthorizationAssumption DEF TypeOK, Settings, SeqOf
  <2>5. Cardinality(getMatchedGroups(groups)) > 0
    BY <2>1, <2>2, <2>4 DEF Authorized
  <2>6. PICK i \in getMatchedGroups(groups) : TRUE
    BY <2>3, <2>5, FS_EmptySet
  <2>7. i \in DOMAIN settings.allowed /\ isGroupMatch(groups, settings.allowed[i])
    BY <2>6 DEF getMatchedGroups
  <2>8. QED BY <2>1, <2>7 DEF isGroupMatch
<1>2. QED BY <1>1, Invariance, PTL

---------------------------------------------------------------------------
(* The least-number principle for sets, from which the inductions below go. *)
LEMMA LeastNatural ==
  ASSUME NEW T, T \subseteq Nat, T # {}
  PROVE  \E m \in T : \A k \in T : m =< k
<1>1. PICK R : R = OpToRel(<, Nat)
  OBVIOUS
<1>2. IsWellFoundedOn(R, Nat)
  BY <1>1, NatLessThanWellFounded, Zenon
<1>3. \A k, m \in Nat : <<k, m>> \in R <=> k < m
  BY <1>1 DEF OpToRel
<1>4. \E m \in T : \A k \in T : ~(<<k, m>> \in R)
  BY <1>2, WFMin
<1>5. PICK m \in T : \A k \in T : ~(<<k, m>> \in R)
  BY <1>4
<1>6. \A k \in T : m =< k
  <2> TAKE k \in T
  <2>1. ~(k < m)
    BY <1>3, <1>5
  <2>2. QED BY <2>1
<1>7. QED BY <1>6

(* Where each step adds one, many steps add up. *)
LEMMA StepsAddUp ==
  ASSUME NEW a \in Nat, NEW b \in Nat, a =< b, NEW f, f[a] \in Int,
         \A j \in a + 1 .. b : f[j] = f[j - 1] + 1
  PROVE  \A j \in a .. b : f[j] = f[a] + (j - a)
<1> DEFINE Bad == {j \in a .. b : f[j] # f[a] + (j - a)}
<1> SUFFICES ASSUME Bad # {} PROVE FALSE
  OBVIOUS
<1>1. PICK m \in Bad : \A k \in Bad : m =< k
  <2>1. Bad \subseteq Nat
    OBVIOUS
  <2> HIDE DEF Bad
  <2>2. QED BY <2>1, LeastNatural
<1>2. m # a
  BY <1>1
<1>3. m - 1 \in a .. b /\ m - 1 \notin Bad
  BY <1>1, <1>2
<1>4. f[m] = f[m - 1] + 1
  BY <1>2
<1>5. QED BY <1>1, <1>2, <1>3, <1>4

(* x stands in v after the first i characters. *)
OccursAt(v, x, i) ==
  i + Len(x) =< Len(v) /\ \A k \in 1 .. Len(x) : v[i + k] = x[k]

(* Sequences of one and of two characters. *)
LEMMA ShortSequences ==
  ASSUME NEW C, NEW a \in C, NEW b \in C
  PROVE  <<a>> \in Seq(C) /\ Len(<<a>>) = 1 /\ <<a, b>> \in Seq(C) /\ Len(<<a, b>>) = 2
OBVIOUS

(* The first n characters of a text. *)
LEMMA FrontOf ==
  ASSUME NEW C, NEW p \in Seq(C), NEW n \in Nat, n =< Len(p), NEW x, x = SubSeq(p, 1, n)
  PROVE  x \in Seq(C) /\ Len(x) = n /\ \A k \in 1 .. n : x[k] = p[k]
OBVIOUS

(* A text without its first n characters. *)
LEMMA BackOf ==
  ASSUME NEW C, NEW p \in Seq(C), NEW n \in Nat, n =< Len(p), NEW x, x = SubSeq(p, n + 1, Len(p))
  PROVE  x \in Seq(C) /\ Len(x) = Len(p) - n /\ \A k \in 1 .. Len(p) - n : x[k] = p[n + k]
OBVIOUS

(* A text from its second character to its n-th. *)
LEMMA MiddleOf ==
  ASSUME NEW C, NEW p \in Seq(C), NEW n \in Nat, 1 =< n, n =< Len(p), NEW x, x = SubSeq(p, 2, n)
  PROVE  x \in Seq(C) /\ Len(x) = n - 1 /\ \A k \in 1 .. n - 1 : x[k] = p[1 + k]
OBVIOUS

(* A text with one more character before it. *)
LEMMA OneBefore ==
  ASSUME NEW C, NEW p \in Seq(C), NEW e \in C, NEW q, q = <<e>> \o p
  PROVE  /\ q \in Seq(C) /\ Len(q) = 1 + Len(p) /\ q[1] = e
         /\ \A k \in 1 .. Len(p) : q[1 + k] = p[k]
OBVIOUS

(* A text with one more character after it. *)
LEMMA OneMore ==
  ASSUME NEW C, NEW p \in Seq(C), NEW e \in C
  PROVE  /\ Append(p, e) \in Seq(C) /\ Len(Append(p, e)) = Len(p) + 1
         /\ Append(p, e)[Len(p) + 1] = e
         /\ \A k \in 1 .. Len(p) : Append(p, e)[k] = p[k]
OBVIOUS

(* strings.HasPrefix: x stands in v at the start of it. *)
LEMMA PrefixOccurs ==
  ASSUME NEW C, NEW v \in Seq(C), NEW x \in Seq(C)
  PROVE  HasPrefix(v, x) <=> OccursAt(v, x, 0)
<1>1. CASE Len(x) =< Len(v)
  <2>1. /\ SubSeq(x, 1, Len(x)) \in Seq(C) /\ Len(SubSeq(x, 1, Len(x))) = Len(x)
        /\ SubSeq(v, 1, Len(x)) \in Seq(C) /\ Len(SubSeq(v, 1, Len(x))) = Len(x)
        /\ \A k \in 1 .. Len(x) : SubSeq(x, 1, Len(x))[k] = x[k] /\ SubSeq(v, 1, Len(x))[k] = v[k]
    BY <1>1
  <2>2. SubSeq(x, 1, Len(x)) = SubSeq(v, 1, Len(x)) <=> \A k \in 1 .. Len(x) : v[k] = x[k]
    BY <2>1
  <2>3. QED BY <1>1, <2>2 DEF HasPrefix, IsPrefix, OccursAt
<1>2. CASE ~(Len(x) =< Len(v))
  BY <1>2 DEF HasPrefix, IsPrefix, OccursAt
<1>3. QED BY <1>1, <1>2

(* strings.HasSuffix: x stands in v at the end of it. *)
LEMMA SuffixOccurs ==
  ASSUME NEW C, NEW v \in Seq(C), NEW x \in Seq(C)
  PROVE  HasSuffix(v, x) <=> Len(x) =< Len(v) /\ OccursAt(v, x, Len(v) - Len(x))
<1>1. /\ Reverse(v) \in Seq(C) /\ Len(Reverse(v)) = Len(v)
      /\ Reverse(x) \in Seq(C) /\ Len(Reverse(x)) = Len(x)
      /\ \A k \in 1 .. Len(v) : Reverse(v)[k] = v[(Len(v) - k) + 1]
      /\ \A k \in 1 .. Len(x) : Reverse(x)[k] = x[(Len(x) - k) + 1]
  BY DEF Reverse
<1>2. HasSuffix(v, x) <=> OccursAt(Reverse(v), Reverse(x), 0)
  BY <1>1, PrefixOccurs DEF HasSuffix, IsSuffix, HasPrefix
<1>3. ASSUME Len(x) =< Len(v)
      PROVE  OccursAt(Reverse(v), Reverse(x), 0) <=> OccursAt(v, x, Len(v) - Len(x))
  <2>1. ASSUME \A k \in 1 .. Len(x) : Reverse(v)[k] = Reverse(x)[k], NEW j \in 1 .. Len(x)
        PROVE  v[(Len(v) - Len(x)) + j] = x[j]
    <3>1. Len(x) - j + 1 \in 1 .. Len(x) /\ Len(x) - j + 1 \in 1 .. Len(v)
      BY <1>3
    <3>2. Reverse(v)[Len(x) - j + 1] = Reverse(x)[Len(x) - j + 1]
      BY <2>1, <3>1
    <3>3. Reverse(v)[Len(x) - j + 1] = v[(Len(v) - (Len(x) - j + 1)) + 1]
      BY <1>1, <3>1
    <3>4. Reverse(x)[Len(x) - j + 1] = x[(Len(x) - (Len(x) - j + 1)) + 1]
      BY <1>1, <3>1
    <3>5. /\ (Len(v) - (Len(x) - j + 1)) + 1 = (Len(v) - Len(x)) + j
          /\ (Len(x) - (Len(x) - j + 1)) + 1 = j
      OBVIOUS
    <3>6. QED BY <3>2, <3>3, <3>4, <3>5
  <2>2. ASSUME \A k \in 1 .. Len(x) : v[(Len(v) - Len(x)) + k] = x[k], NEW j \in 1 .. Len(x)
        PROVE  Reverse(v)[j] = Reverse(x)[j]
    <3>1. Len(x) - j + 1 \in 1 .. Len(x) /\ j \in 1 .. Len(v)
      BY <1>3
    <3>2. v[(Len(v) - Len(x)) + (Len(x) - j + 1)] = x[Len(x) - j + 1]
      BY <2>2, <3>1
    <3>3. (Len(v) - Len(x)) + (Len(x) - j + 1) = (Len(v) - j) + 1
      OBVIOUS
    <3>4. QED BY <1>1, <3>1, <3>2, <3>3
  <2>3. \A j \in 1 .. Len(x) : 0 + j = j
    OBVIOUS
  <2>4. QED BY <1>1, <1>3, <2>1, <2>2, <2>3 DEF OccursAt
<1>4. HasSuffix(v, x) => Len(x) =< Len(v)
  BY <1>1 DEF HasSuffix, IsSuffix, IsPrefix
<1>5. QED BY <1>2, <1>3, <1>4

(* strings.Contains: x stands somewhere in v. *)
LEMMA SubstringOccurs ==
  ASSUME NEW C, NEW v \in Seq(C), NEW x \in Seq(C)
  PROVE  HasSubstring(v, x) <=> \E i \in 0 .. Len(v) : OccursAt(v, x, i)
<1>1. ASSUME NEW i \in 0 .. Len(v)
      PROVE  HasPrefix(SubSeq(v, i + 1, Len(v)), x) <=> OccursAt(v, x, i)
  <2>1. PICK w : w = SubSeq(v, i + 1, Len(v))
    OBVIOUS
  <2>2. w \in Seq(C) /\ Len(w) = Len(v) - i /\ \A k \in 1 .. Len(v) - i : w[k] = v[i + k]
    BY <2>1
  <2>3. HasPrefix(w, x) <=> OccursAt(w, x, 0)
    BY <2>2, PrefixOccurs
  <2>4. ASSUME Len(x) =< Len(v) - i, NEW k \in 1 .. Len(x)
        PROVE  w[0 + k] = v[i + k]
    BY <2>2, <2>4
  <2>5. QED BY <2>1, <2>2, <2>3, <2>4 DEF OccursAt
<1>2. QED BY <1>1 DEF HasSubstring

(* How much of v each start of p stands for. *)
Cuts(cut, v, p) ==
  /\ cut \in [0 .. Len(p) -> 0 .. Len(v)]
  /\ cut[0] = 0 /\ cut[Len(p)] = Len(v)
  /\ \A j \in 1 .. Len(p) :
       IF p[j] = "*" THEN cut[j - 1] =< cut[j]
       ELSE cut[j] = cut[j - 1] + 1 /\ v[cut[j]] = p[j]

(* p is the text x with a star before it (if lead is 1) and one after it   *)
(* (if trail is 1).                                                        *)
Around(p, lead, x, trail) ==
  /\ Len(p) = lead + Len(x) + trail
  /\ lead = 1 => p[1] = "*"
  /\ trail = 1 => p[Len(p)] = "*"
  /\ \A k \in 1 .. Len(x) : p[lead + k] = x[k]

(* x stands in v after i characters, where the stars let it. *)
Fits(v, lead, x, trail, i) ==
  /\ OccursAt(v, x, i)
  /\ lead = 0 => i = 0
  /\ trail = 0 => i + Len(x) = Len(v)

(* Such a pattern matches what has x in it, at its start unless there is a *)
(* star before it, and up to its end unless there is one after it.         *)
LEMMA GlobAround ==
  ASSUME NEW C, NEW v \in Seq(C), NEW p \in Seq(C), NEW x \in Seq(C), ~HasStar(x),
         NEW lead \in {0, 1}, NEW trail \in {0, 1}, Around(p, lead, x, trail)
  PROVE  Glob(v, p) <=> \E i \in 0 .. Len(v) : Fits(v, lead, x, trail, i)
<1>1. /\ Len(v) \in Nat /\ Len(x) \in Nat /\ Len(p) = lead + Len(x) + trail
      /\ \A k \in 1 .. Len(x) : p[lead + k] = x[k] /\ x[k] # "*"
  BY DEF Around, HasStar
<1>2. ASSUME NEW cut, Cuts(cut, v, p)
      PROVE  \E i \in 0 .. Len(v) : Fits(v, lead, x, trail, i)
  <2>1. /\ lead \in 0 .. Len(p) /\ lead + Len(x) \in 0 .. Len(p)
        /\ \A j \in 0 .. Len(p) : cut[j] \in 0 .. Len(v)
    <3>1. \A j \in 0 .. Len(p) : cut[j] \in 0 .. Len(v)
      BY <1>2 DEF Cuts
    <3>2. QED BY <1>1, <3>1
  <2>2. ASSUME NEW j \in lead + 1 .. lead + Len(x)
        PROVE  cut[j] = cut[j - 1] + 1 /\ v[cut[j]] = x[j - lead]
    <3>1. j - lead \in 1 .. Len(x) /\ j \in 1 .. Len(p) /\ lead + (j - lead) = j
      BY <1>1
    <3>2. p[j] = x[j - lead] /\ p[j] # "*"
      BY <1>1, <3>1
    <3>3. QED BY <1>2, <3>1, <3>2 DEF Cuts
  <2>3. \A j \in lead .. lead + Len(x) : cut[j] = cut[lead] + (j - lead)
    <3>1. lead \in Nat /\ lead + Len(x) \in Nat /\ lead =< lead + Len(x) /\ cut[lead] \in Int
      BY <1>1, <2>1
    <3>2. \A j \in lead + 1 .. lead + Len(x) : cut[j] = cut[j - 1] + 1
      BY <2>2
    <3>3. QED BY <3>1, <3>2, StepsAddUp
  <2>4. cut[lead + Len(x)] = cut[lead] + Len(x) /\ cut[lead + Len(x)] =< Len(v)
    BY <1>1, <1>2, <2>1, <2>3 DEF Cuts
  <2>5. ASSUME NEW k \in 1 .. Len(x) PROVE v[cut[lead] + k] = x[k]
    <3>1. lead + k \in lead + 1 .. lead + Len(x) /\ (lead + k) - lead = k
      BY <1>1
    <3>2. v[cut[lead + k]] = x[k] /\ cut[lead + k] = cut[lead] + k
      BY <2>2, <2>3, <3>1
    <3>3. QED BY <3>2
  <2>6. OccursAt(v, x, cut[lead])
    BY <2>4, <2>5 DEF OccursAt
  <2>7. lead = 0 => cut[lead] = 0
    BY <1>2 DEF Cuts
  <2>8. trail = 0 => cut[lead] + Len(x) = Len(v)
    BY <1>1, <1>2, <2>4 DEF Cuts
  <2>9. QED BY <2>1, <2>6, <2>7, <2>8 DEF Fits
<1>3. ASSUME NEW i \in 0 .. Len(v), Fits(v, lead, x, trail, i)
      PROVE  \E cut \in [0 .. Len(p) -> 0 .. Len(v)] : Cuts(cut, v, p)
  <2>1. i + Len(x) =< Len(v) /\ \A k \in 1 .. Len(x) : v[i + k] = x[k]
    BY <1>3 DEF Fits, OccursAt
  <2> DEFINE at(j) == IF j < lead THEN 0 ELSE IF j =< lead + Len(x) THEN i + (j - lead) ELSE Len(v)
  <2>2. \A j \in 0 .. Len(p) : at(j) \in 0 .. Len(v)
    BY <1>1, <2>1
  <2>3. at(0) = 0 /\ at(Len(p)) = Len(v)
    <3>1. /\ lead = 0 => i = 0
          /\ trail = 0 => i + Len(x) = Len(v)
      BY <1>3 DEF Fits
    <3>2. at(0) = 0
      BY <1>1, <3>1
    <3>3. CASE trail = 0
      <4>1. Len(p) = lead + Len(x) /\ ~(Len(p) < lead)
        BY <1>1, <3>3
      <4>2. \A j \in Nat : lead =< j /\ j =< lead + Len(x) => at(j) = i + (j - lead)
        BY <1>1
      <4> HIDE DEF at
      <4>3. at(Len(p)) = i + (Len(p) - lead)
        BY <1>1, <4>1, <4>2
      <4>4. QED BY <1>1, <3>1, <3>2, <3>3, <4>1, <4>3
    <3>4. CASE trail = 1
      BY <1>1, <3>2, <3>4
    <3>5. QED BY <3>3, <3>4
  <2>4. ASSUME NEW j \in 1 .. Len(p)
        PROVE  IF p[j] = "*" THEN at(j - 1) =< at(j) ELSE at(j) = at(j - 1) + 1 /\ v[at(j)] = p[j]
    <3>1. CASE j =< lead
      <4>1. j = 1 /\ lead = 1
        BY <3>1
      <4>2. p[j] = "*"
        BY <4>1 DEF Around
      <4>3. QED BY <1>1, <4>1, <4>2
    <3>2. CASE lead < j /\ j =< lead + Len(x)
      <4>1. j - lead \in 1 .. Len(x) /\ lead + (j - lead) = j
        BY <1>1, <3>2
      <4>2. p[j] = x[j - lead] /\ p[j] # "*" /\ v[i + (j - lead)] = x[j - lead]
        BY <1>1, <2>1, <4>1
      <4>3. at(j) = i + (j - lead) /\ at(j - 1) = i + (j - lead) - 1
        BY <1>1, <3>2
      <4>4. QED BY <1>1, <4>2, <4>3
    <3>3. CASE j > lead + Len(x)
      <4>1. trail = 1 /\ j = Len(p)
        BY <1>1, <3>3
      <4>2. p[j] = "*"
        BY <4>1 DEF Around
      <4>3. QED BY <1>1, <2>1, <3>3, <4>1, <4>2
    <3>4. QED BY <1>1, <3>1, <3>2, <3>3
  <2> HIDE DEF at
  <2>5. PICK cut : cut = [j \in 0 .. Len(p) |-> at(j)]
    OBVIOUS
  <2>6. /\ cut \in [0 .. Len(p) -> 0 .. Len(v)]
        /\ \A j \in 0 .. Len(p) : cut[j] = at(j)
    BY <2>2, <2>5
  <2>7. 0 \in 0 .. Len(p) /\ Len(p) \in 0 .. Len(p)
        /\ \A j \in 1 .. Len(p) : j \in 0 .. Len(p) /\ j - 1 \in 0 .. Len(p)
    BY <1>1
  <2>8. QED BY <2>3, <2>4, <2>6, <2>7 DEF Cuts
<1>4. Glob(v, p) <=> \E cut \in [0 .. Len(p) -> 0 .. Len(v)] : Cuts(cut, v, p)
  BY DEF Glob, Cuts
<1>5. QED BY <1>2, <1>3, <1>4

---------------------------------------------------------------------------
(* The characters, with the two that patterns are made with. *)
Chars == STRING \union {"*", "/"}

(* The wildcard forms by their characters. *)
LEMMA FormsByCharacter ==
  ASSUME NEW p \in Seq(Chars)
  PROVE  /\ EndForm(p) <=> Len(p) >= 2 /\ p[Len(p) - 1] = "/" /\ p[Len(p)] = "*"
         /\ StartForm(p) => Len(p) >= 2 /\ p[1] = "*" /\ p[2] = "/"
         /\ ContainsForm(p) => Len(p) >= 1 /\ p[1] = "*" /\ p[Len(p)] = "*"
<1>1. /\ <<"/", "*">> \in Seq(Chars) /\ <<"*", "/">> \in Seq(Chars) /\ <<"*">> \in Seq(Chars)
      /\ Len(<<"/", "*">>) = 2 /\ Len(<<"*", "/">>) = 2 /\ Len(<<"*">>) = 1
  <2>1. "/" \in Chars /\ "*" \in Chars
    BY DEF Chars
  <2>2. QED BY <2>1, ShortSequences
<1>2. EndForm(p) <=> 2 =< Len(p) /\ OccursAt(p, <<"/", "*">>, Len(p) - 2)
  BY <1>1, SuffixOccurs DEF EndForm
<1>3. HasPrefix(p, <<"*", "/">>) => OccursAt(p, <<"*", "/">>, 0)
  BY <1>1, PrefixOccurs
<1>4. HasPrefix(p, <<"*">>) => OccursAt(p, <<"*">>, 0)
  BY <1>1, PrefixOccurs
<1>5. HasSuffix(p, <<"*">>) => 1 =< Len(p) /\ OccursAt(p, <<"*">>, Len(p) - 1)
  BY <1>1, SuffixOccurs
<1>6. OccursAt(p, <<"/", "*">>, Len(p) - 2) <=> p[Len(p) - 1] = "/" /\ p[Len(p)] = "*"
  BY DEF OccursAt
<1>7. OccursAt(p, <<"*", "/">>, 0) => Len(p) >= 2 /\ p[1] = "*" /\ p[2] = "/"
  BY DEF OccursAt
<1>8. OccursAt(p, <<"*">>, 0) => Len(p) >= 1 /\ p[1] = "*"
  BY DEF OccursAt
<1>9. 1 =< Len(p) /\ OccursAt(p, <<"*">>, Len(p) - 1) => p[Len(p)] = "*"
  BY DEF OccursAt
<1>10. QED BY <1>2, <1>3, <1>4, <1>5, <1>6, <1>7, <1>8, <1>9 DEF StartForm, ContainsForm

(* strings.Trim of *text*. *)
LEMMA TrimmedMiddle ==
  ASSUME NEW p \in Seq(Chars), Len(p) >= 1, p[1] = "*", p[Len(p)] = "*",
         ~HasStar(SubSeq(p, 2, Len(p) - 1))
  PROVE  TrimStars(p) = SubSeq(p, 2, Len(p) - 1)
<1> DEFINE kept == {i \in DOMAIN p : p[i] # "*"}
<1>1. kept = 2 .. Len(p) - 1
  <2>1. ASSUME NEW i \in 2 .. Len(p) - 1 PROVE p[i] # "*"
    <3>1. i - 1 \in DOMAIN SubSeq(p, 2, Len(p) - 1) /\ SubSeq(p, 2, Len(p) - 1)[i - 1] = p[i]
      OBVIOUS
    <3>2. QED BY <3>1 DEF HasStar
  <2>2. QED BY <2>1
<1>2. TrimStars(p) = IF kept = {} THEN <<>> ELSE SubSeq(p, Min(kept), Max(kept))
  BY DEF TrimStars
<1> HIDE DEF kept
<1>3. CASE Len(p) =< 2
  <2>1. kept = {} /\ SubSeq(p, 2, Len(p) - 1) = <<>>
    BY <1>1, <1>3
  <2>2. QED BY <1>2, <2>1
<1>4. CASE Len(p) > 2
  <2>1. 2 \in kept
    BY <1>1, <1>4
  <2>2. Min(kept) = 2
    BY <1>1, <1>4 DEF Min
  <2>3. Max(kept) = Len(p) - 1
    BY <1>1, <1>4 DEF Max
  <2>4. QED BY <1>2, <2>1, <2>2, <2>3
<1>5. QED BY <1>3, <1>4

(* Without a star, a pattern matches what equals it. *)
LEMMA PlainPattern ==
  ASSUME NEW v \in Seq(Chars), NEW p \in Seq(Chars), ~HasStar(p)
  PROVE  (v = p <=> Glob(v, p)) /\ ~EndForm(p) /\ ~StartForm(p) /\ ~ContainsForm(p)
<1>1. Glob(v, p) <=> \E i \in 0 .. Len(v) : Fits(v, 0, p, 0, i)
  <2>1. Around(p, 0, p, 0)
    BY DEF Around
  <2>2. QED BY <2>1, GlobAround
<1>2. (\E i \in 0 .. Len(v) : Fits(v, 0, p, 0, i)) <=> Fits(v, 0, p, 0, 0)
  BY DEF Fits
<1>3. Fits(v, 0, p, 0, 0) <=> Len(p) = Len(v) /\ \A k \in 1 .. Len(p) : v[k] = p[k]
  BY DEF Fits, OccursAt
<1>4. v = p <=> Len(p) = Len(v) /\ \A k \in 1 .. Len(p) : v[k] = p[k]
  BY SeqEqual
<1>5. ~EndForm(p) /\ ~StartForm(p) /\ ~ContainsForm(p)
  BY FormsByCharacter DEF HasStar
<1>6. QED BY <1>1, <1>2, <1>3, <1>4, <1>5

(* text/* matches what begins with the text. *)
LEMMA EndPattern ==
  ASSUME NEW v \in Seq(Chars), NEW p \in Seq(Chars), EndForm(p),
         ~HasStar(SubSeq(p, 1, Len(p) - 2))
  PROVE  matchPattern(v, p) <=> Glob(v, Append(SubSeq(p, 1, Len(p) - 2), "*"))
<1>1. PICK x : x = SubSeq(p, 1, Len(p) - 2)
  OBVIOUS
<1>2. /\ Len(p) >= 2 /\ x \in Seq(Chars) /\ Len(x) = Len(p) - 2
      /\ \A k \in 1 .. Len(p) - 2 : x[k] = p[k]
  <2>1. Len(p) >= 2
    BY FormsByCharacter
  <2>2. PICK n : n = Len(p) - 2
    OBVIOUS
  <2>3. n \in Nat /\ n =< Len(p) /\ x = SubSeq(p, 1, n)
    BY <1>1, <2>1, <2>2
  <2>4. x \in Seq(Chars) /\ Len(x) = n /\ \A k \in 1 .. n : x[k] = p[k]
    BY <2>3, FrontOf, Zenon
  <2>5. QED BY <2>1, <2>2, <2>4
<1>3. Glob(v, Append(x, "*")) <=> \E i \in 0 .. Len(v) : Fits(v, 0, x, 1, i)
  <2>1. Append(x, "*") \in Seq(Chars) /\ Around(Append(x, "*"), 0, x, 1)
    <3>1. "*" \in Chars
      BY DEF Chars
    <3>2. /\ Append(x, "*") \in Seq(Chars) /\ Len(Append(x, "*")) = Len(x) + 1
          /\ Append(x, "*")[Len(x) + 1] = "*"
          /\ \A k \in 1 .. Len(x) : Append(x, "*")[k] = x[k]
      BY <1>2, <3>1, OneMore
    <3>3. QED BY <1>2, <3>2 DEF Around
  <2>2. QED BY <1>1, <1>2, <2>1, GlobAround
<1>4. (\E i \in 0 .. Len(v) : Fits(v, 0, x, 1, i)) <=> OccursAt(v, x, 0)
  BY DEF Fits
<1>5. HasPrefix(v, x) <=> OccursAt(v, x, 0)
  BY <1>2, PrefixOccurs
<1>6. v = p => OccursAt(v, x, 0)
  BY <1>2 DEF OccursAt
<1>7. matchPattern(v, p) <=> v = p \/ HasPrefix(v, x)
  BY <1>1 DEF matchPattern, StartForm, ContainsForm
<1>8. QED BY <1>1, <1>3, <1>4, <1>5, <1>6, <1>7

(* */text matches what ends with the text. *)
LEMMA StartPattern ==
  ASSUME NEW v \in Seq(Chars), NEW p \in Seq(Chars), StartForm(p),
         ~HasStar(SubSeq(p, 3, Len(p)))
  PROVE  matchPattern(v, p) <=> Glob(v, <<"*">> \o SubSeq(p, 3, Len(p)))
<1>1. PICK x : x = SubSeq(p, 3, Len(p))
  OBVIOUS
<1>2. /\ Len(p) >= 2 /\ x \in Seq(Chars) /\ Len(x) = Len(p) - 2
      /\ \A k \in 1 .. Len(p) - 2 : x[k] = p[2 + k]
  <2>1. Len(p) >= 2
    BY FormsByCharacter
  <2>2. PICK n : n = 2
    OBVIOUS
  <2>3. n \in Nat /\ n =< Len(p) /\ x = SubSeq(p, n + 1, Len(p))
    BY <1>1, <2>1, <2>2
  <2>4. x \in Seq(Chars) /\ Len(x) = Len(p) - n /\ \A k \in 1 .. Len(p) - n : x[k] = p[n + k]
    BY <2>3, BackOf
  <2>5. QED BY <2>1, <2>2, <2>4
<1>3. Glob(v, <<"*">> \o x) <=> \E i \in 0 .. Len(v) : Fits(v, 1, x, 0, i)
  <2>1. PICK q : q = <<"*">> \o x
    OBVIOUS
  <2>2. /\ q \in Seq(Chars) /\ Len(q) = 1 + Len(x) /\ q[1] = "*"
        /\ \A k \in 1 .. Len(x) : q[1 + k] = x[k]
    <3>1. "*" \in Chars
      BY DEF Chars
    <3>2. QED BY <1>2, <2>1, <3>1, OneBefore
  <2>3. Around(q, 1, x, 0)
    BY <1>2, <2>2 DEF Around
  <2>4. QED BY <1>1, <1>2, <2>1, <2>2, <2>3, GlobAround
<1>4. (\E i \in 0 .. Len(v) : Fits(v, 1, x, 0, i))
        <=> Len(x) =< Len(v) /\ OccursAt(v, x, Len(v) - Len(x))
  <2>1. \A i \in 0 .. Len(v) : i + Len(x) = Len(v) <=> Len(x) =< Len(v) /\ i = Len(v) - Len(x)
    BY <1>2
  <2>2. Len(x) =< Len(v) => Len(v) - Len(x) \in 0 .. Len(v)
    BY <1>2
  <2>3. QED BY <2>1, <2>2 DEF Fits
<1>5. HasSuffix(v, x) <=> Len(x) =< Len(v) /\ OccursAt(v, x, Len(v) - Len(x))
  BY <1>2, SuffixOccurs
<1>6. v = p => Len(x) =< Len(v) /\ OccursAt(v, x, Len(v) - Len(x))
  BY <1>2 DEF OccursAt
<1>7. matchPattern(v, p) <=> v = p \/ HasSuffix(v, x)
  BY <1>1 DEF matchPattern, StartForm, ContainsForm
<1>8. QED BY <1>1, <1>3, <1>4, <1>5, <1>6, <1>7

(* What is between the stars of *text*, or nothing for a single star. *)
LEMMA MiddleAround ==
  ASSUME NEW p \in Seq(Chars), ContainsForm(p), NEW x, x = SubSeq(p, 2, Len(p) - 1)
  PROVE  /\ x \in Seq(Chars)
         /\ Around(p, 1, x, 1) \/ (Around(p, 1, x, 0) /\ Len(x) = 0)
<1>1. Len(p) \in Nat /\ Len(p) >= 1 /\ p[1] = "*" /\ p[Len(p)] = "*"
  BY FormsByCharacter, LenProperties
<1>2. PICK n : n = Len(p) - 1
  OBVIOUS
<1>3. CASE n = 0
  <2>1. x = <<>> /\ Len(p) = 1
    BY <1>1, <1>2, <1>3
  <2>2. x \in Seq(Chars) /\ Len(x) = 0
    BY <2>1
  <2>3. QED BY <1>1, <2>1, <2>2 DEF Around
<1>4. CASE n >= 1
  <2>1. n \in Nat /\ 1 =< n /\ n =< Len(p) /\ x = SubSeq(p, 2, n)
    BY <1>1, <1>2, <1>4
  <2>2. x \in Seq(Chars) /\ Len(x) = n - 1 /\ \A k \in 1 .. n - 1 : x[k] = p[1 + k]
    BY <2>1, MiddleOf
  <2>3. Len(p) = 1 + Len(x) + 1 /\ \A k \in 1 .. Len(x) : p[1 + k] = x[k]
    BY <1>1, <1>2, <2>1, <2>2
  <2>4. QED BY <1>1, <2>2, <2>3 DEF Around
<1>5. QED BY <1>1, <1>2, <1>3, <1>4

(* A star before the text: it may stand anywhere that its end allows. *)
LEMMA GlobAfterStar ==
  ASSUME NEW C, NEW v \in Seq(C), NEW p \in Seq(C), NEW x \in Seq(C), ~HasStar(x),
         Around(p, 1, x, 0)
  PROVE  Glob(v, p) <=> \E i \in 0 .. Len(v) : Fits(v, 1, x, 0, i)
BY GlobAround

(* *text* matches what contains the text. *)
LEMMA ContainsPattern ==
  ASSUME NEW v \in Seq(Chars), NEW p \in Seq(Chars), ContainsForm(p),
         NEW x \in Seq(Chars), x = TrimStars(p), ~HasStar(x),
         Around(p, 1, x, 1) \/ (Around(p, 1, x, 0) /\ Len(x) = 0)
  PROVE  matchPattern(v, p) <=> Glob(v, p)
<1>1. matchPattern(v, p) <=> v = p \/ HasSubstring(v, x)
  BY DEF matchPattern, ContainsForm
<1>2. HasSubstring(v, x) <=> \E i \in 0 .. Len(v) : OccursAt(v, x, i)
  BY SubstringOccurs
<1>3. CASE Around(p, 1, x, 1)
  <2>1. Glob(v, p) <=> \E i \in 0 .. Len(v) : Fits(v, 1, x, 1, i)
    BY <1>3, GlobAround
  <2>2. \A i : Fits(v, 1, x, 1, i) <=> OccursAt(v, x, i)
    BY DEF Fits
  <2>3. v = p => OccursAt(v, x, 1) /\ 1 \in 0 .. Len(v)
    BY <1>3 DEF OccursAt, Around
  <2>4. QED BY <1>1, <1>2, <2>1, <2>2, <2>3
<1>4. CASE Around(p, 1, x, 0) /\ Len(x) = 0
  <2>1. Glob(v, p) <=> \E i \in 0 .. Len(v) : Fits(v, 1, x, 0, i)
    BY <1>4, GlobAfterStar, Zenon
  <2>2. Fits(v, 1, x, 0, Len(v)) /\ OccursAt(v, x, Len(v)) /\ Len(v) \in 0 .. Len(v)
    BY <1>4 DEF Fits, OccursAt
  <2>3. QED BY <1>1, <1>2, <2>1, <2>2
<1>5. QED BY <1>3, <1>4

(* The patterns of denied_groups and allowed_groups mean what their form   *)
(* says, for every name a token may hold.                                  *)
THEOREM PatternsAreGlobs == Spec => []WildcardsAreGlobs
<1>1. TypeOK => WildcardsAreGlobs
  <2> SUFFICES ASSUME TypeOK, NEW v \in TokenNames,
                      NEW p \in settings.denied \union ToSet(settings.allowed)
               PROVE  LET front == SubSeq(p, 1, Len(p) - 2)
                          back == SubSeq(p, 3, Len(p))
                          middle == SubSeq(p, 2, Len(p) - 1)
                      IN /\ ~HasStar(p) \/ (ContainsForm(p) /\ ~HasStar(middle)) =>
                              (matchPattern(v, p) <=> Glob(v, p))
                         /\ EndForm(p) /\ ~HasStar(front) =>
                              (matchPattern(v, p) <=> Glob(v, Append(front, "*")))
                         /\ StartForm(p) /\ ~HasStar(back) =>
                              (matchPattern(v, p) <=> Glob(v, <<"*">> \o back))
                         /\ ~EndForm(p) /\ ~StartForm(p) /\ ~ContainsForm(p) =>
                              (matchPattern(v, p) <=> v = p)
    BY DEF WildcardsAreGlobs
  <2>1. v \in Seq(Chars)
    <3>1. v \in Seq(STRING)
      BY AuthorizationAssumption DEF TokenNames
    <3>2. QED BY <3>1, SeqMonotonic DEF Chars
  <2>2. p \in Patterns
    <3>1. settings.denied \subseteq Patterns
      BY DEF TypeOK, Settings
    <3>2. settings.allowed \in SeqOf(Patterns, MaxAllowed)
      BY DEF TypeOK, Settings
    <3>3. \A i \in DOMAIN settings.allowed : settings.allowed[i] \in Patterns
      BY <3>2 DEF SeqOf
    <3>4. ToSet(settings.allowed) \subseteq Patterns
      BY <3>3 DEF ToSet
    <3>5. QED BY <3>1, <3>4
  <2>3. p \in Seq(Chars)
    <3>1. p \in Seq(STRING)
      BY <2>2, AuthorizationAssumption
    <3>2. QED BY <3>1, SeqMonotonic DEF Chars
  <2>4. ~HasStar(p) => (matchPattern(v, p) <=> Glob(v, p))
    BY <2>1, <2>3, PlainPattern DEF matchPattern
  <2>5. ~EndForm(p) /\ ~StartForm(p) /\ ~ContainsForm(p) => (matchPattern(v, p) <=> v = p)
    BY DEF matchPattern
  <2>6. ASSUME ContainsForm(p), ~HasStar(SubSeq(p, 2, Len(p) - 1))
        PROVE  matchPattern(v, p) <=> Glob(v, p)
    <3>1. PICK x : x = SubSeq(p, 2, Len(p) - 1)
      OBVIOUS
    <3>2. x = TrimStars(p)
      BY <2>3, <2>6, <3>1, FormsByCharacter, TrimmedMiddle
    <3>3. QED BY <2>1, <2>3, <2>6, <3>1, <3>2, MiddleAround, ContainsPattern
  <2>7. QED BY <2>1, <2>3, <2>4, <2>5, <2>6, EndPattern, StartPattern
<1>2. QED BY <1>1, TypeCorrect, PTL
============================================================================
