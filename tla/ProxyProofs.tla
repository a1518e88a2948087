---------------------------- MODULE ProxyProofs ----------------------------
(***************************************************************************)
(* Proxy for any browsers, sessions and requests, any list of allowed      *)
(* paths that Gin takes, and any pages.                                    *)
(***************************************************************************)
EXTENDS Proxy, TLAPS

(* A prefix of a prefix is a prefix ... *)
LEMMA PrefixOfPrefix ==
  ASSUME NEW T, NEW s \in Seq(T), NEW r \in Seq(T), NEW t \in Seq(T), NEW k \in Nat,
         Len(s) =< k, k =< Len(r), \A i \in 1 .. Len(s) : r[i] = s[i],
         IsPrefix(SubSeq(r, 1, k), t)
  PROVE  IsPrefix(s, t)
<1> DEFINE q == SubSeq(r, 1, k)
<1>1. q \in Seq(T) /\ Len(q) = k /\ \A i \in 1 .. k : q[i] = r[i]
  OBVIOUS
<1> HIDE DEF q
<1>2. k =< Len(t) /\ SubSeq(q, 1, k) = SubSeq(t, 1, k)
  BY <1>1 DEF IsPrefix, q
<1>3. \A i \in 1 .. Len(s) : s[i] = t[i]
  <2> SUFFICES ASSUME NEW i \in 1 .. Len(s) PROVE s[i] = t[i]
    OBVIOUS
  <2>1. i \in 1 .. k
    OBVIOUS
  <2>2. SubSeq(q, 1, k)[i] = q[i]
    BY <1>1, <2>1
  <2>3. SubSeq(t, 1, k)[i] = t[i]
    BY <1>2, <2>1
  <2>4. QED BY <1>1, <1>2, <2>1, <2>2, <2>3
<1>4. SubSeq(s, 1, Len(s)) = SubSeq(t, 1, Len(s)) /\ Len(s) =< Len(t)
  BY <1>2, <1>3
<1>5. QED BY <1>4 DEF IsPrefix

(* ... and when the path goes on with a query. *)
LEMMA PrefixOfConcat ==
  ASSUME NEW T, NEW s \in Seq(T), NEW t \in Seq(T), NEW u \in Seq(T), IsPrefix(s, t)
  PROVE  IsPrefix(s, t \o u)
<1>1. /\ Len(s) =< Len(t) /\ Len(s) \in Nat /\ Len(t) \in Nat
      /\ SubSeq(s, 1, Len(s)) = SubSeq(t, 1, Len(s))
  BY DEF IsPrefix
<1>2. t \o u \in Seq(T) /\ Len(t \o u) = Len(t) + Len(u)
  OBVIOUS
<1>3. SubSeq(t \o u, 1, Len(s)) = SubSeq(t, 1, Len(s))
  BY <1>1, <1>2
<1>4. QED BY <1>1, <1>2, <1>3 DEF IsPrefix

(* A pattern without its wildcard is a path. *)
LEMMA StemType == ASSUME NEW p \in Seq(Tokens) PROVE Stem(p) \in Seq(Tokens)
BY DEF Stem, wild

LEMMA LenOfReverse == ASSUME NEW T, NEW s \in Seq(T) PROVE Len(Reverse(s)) = Len(s)
<1>1. Len(s) \in Nat /\ \A i \in 1 .. Len(s) : s[Len(s) - i + 1] \in T
  OBVIOUS
<1>2. QED BY <1>1 DEF Reverse

(* ... and a subtree's stem is one of the entry. *)
LEMMA StemIsPrefix == ASSUME NEW p \in Seq(Tokens), IsSubtree(p) PROVE IsPrefix(Stem(p), p)
<1>1. Len(p) \in Nat /\ 2 =< Len(p)
  <2>1. wild \in Seq(Tokens) /\ Len(wild) = 2
    BY ProxyAssumption DEF wild
  <2>2. Len(Reverse(wild)) = 2
    BY <2>1, LenOfReverse
  <2>3. Len(Reverse(p)) = Len(p)
    BY LenOfReverse
  <2>4. Len(Reverse(wild)) =< Len(Reverse(p))
    BY DEF IsSubtree, IsSuffix, IsPrefix
  <2>5. QED BY <2>2, <2>3, <2>4
<1>2. Stem(p) = SubSeq(p, 1, Len(p) - 2) /\ Len(Stem(p)) = Len(p) - 2
  <2>1. Len(wild) = 2
    BY ProxyAssumption DEF wild
  <2>2. Stem(p) = SubSeq(p, 1, Len(p) - 2)
    BY <2>1 DEF Stem
  <2>3. PICK k \in Nat : k = Len(p) - 2
    BY <1>1
  <2>4. Len(SubSeq(p, 1, k)) = k
    BY <1>1, <2>3
  <2>5. QED BY <2>2, <2>3, <2>4
<1>3. SubSeq(Stem(p), 1, Len(p) - 2) = SubSeq(p, 1, Len(p) - 2)
  BY <1>1, <1>2
<1>4. QED BY <1>1, <1>2, <1>3 DEF IsPrefix

LEMMA Concatenation ==
  ASSUME NEW T, NEW s \in Seq(T), NEW t \in Seq(T)
  PROVE  /\ s \o t \in Seq(T) /\ Len(s \o t) = Len(s) + Len(t) /\ Len(s) \in Nat
         /\ \A i \in 1 .. Len(s) : (s \o t)[i] = s[i]
         /\ \A i \in 1 .. Len(t) : (s \o t)[Len(s) + i] = t[i]
OBVIOUS

(* What Gin's route of a subtree consists of. *)
LEMMA RouteOfSubtree ==
  ASSUME NEW T, {"/", "*", "filepath"} \subseteq T, NEW s \in Seq(T)
  PROVE  \E r \in Seq(T) :
           /\ r = s \o <<"/", "*", "filepath">> /\ Len(r) = Len(s) + 3 /\ Len(s) \in Nat
           /\ \A i \in 1 .. Len(s) : r[i] = s[i]
           /\ r[Len(s) + 1] = "/" /\ r[Len(s) + 2] = "*" /\ r[Len(s) + 3] = "filepath"
<1> DEFINE t == <<"/", "*", "filepath">>
           r == s \o t
<1>1. t \in Seq(T) /\ Len(t) = 3 /\ t[1] = "/" /\ t[2] = "*" /\ t[3] = "filepath"
  OBVIOUS
<1> HIDE DEF t
<1>2. /\ r \in Seq(T) /\ Len(r) = Len(s) + Len(t) /\ Len(s) \in Nat
      /\ \A i \in 1 .. Len(s) : r[i] = s[i]
      /\ \A i \in 1 .. Len(t) : r[Len(s) + i] = t[i]
  <2>1. t \in Seq(T)
    BY <1>1
  <2>2. QED BY <2>1, Concatenation
<1> HIDE DEF r
<1>3. Len(r) = Len(s) + 3
  BY <1>1, <1>2
<1>4. r[Len(s) + 1] = "/" /\ r[Len(s) + 2] = "*" /\ r[Len(s) + 3] = "filepath"
  BY <1>1, <1>2
<1>5. r = s \o <<"/", "*", "filepath">>
  BY DEF r, t
<1>6. QED BY <1>2, <1>3, <1>4, <1>5, Zenon

(* A plain entry leads to the proxy the paths that it covers itself. *)
LEMMA PlainRoutes ==
  ASSUME NEW p \in Seq(Tokens), Plain(p), NEW path \in Seq(Tokens), Routes(Route(p), path)
  PROVE  path = p \/ (IsSubtree(p) /\ Under(path, p))
<1> DEFINE r == convertToGinPath(p)
<1>1. Routes(r, path)
  BY DEF Plain, Route, Joined
<1>2. CASE ~IsSubtree(p)
  <2>1. r = p /\ \A i \in DOMAIN p : p[i] \notin Wildcards
    BY <1>2 DEF convertToGinPath, Plain, ToSet
  <2>2. ~HasParameter(p)
    BY <2>1 DEF HasParameter, ToSet, Wildcards
  <2>3. QED BY <1>1, <2>1, <2>2 DEF Routes, Wildcards
<1>3. CASE IsSubtree(p)
  <2> DEFINE s == Stem(p)
             T == Tokens \union {"/", "*", "filepath"}
  <2>1. s \in Seq(T) /\ \A i \in DOMAIN s : s[i] \notin Wildcards
    <3>1. s \in Seq(Tokens)
      BY StemType
    <3>2. \A i \in DOMAIN s : s[i] \notin Wildcards
      BY <1>3 DEF Plain, ToSet
    <3>3. QED BY <3>1, <3>2
  <2>2. r = s \o <<"/", "*", "filepath">> /\ {"/", "*", "filepath"} \subseteq T
    BY <1>3 DEF convertToGinPath
  <2> HIDE DEF r, s, T
  <2>3. PICK q \in Seq(T) :
          /\ q = s \o <<"/", "*", "filepath">> /\ Len(q) = Len(s) + 3 /\ Len(s) \in Nat
          /\ \A i \in 1 .. Len(s) : q[i] = s[i]
          /\ q[Len(s) + 1] = "/" /\ q[Len(s) + 2] = "*" /\ q[Len(s) + 3] = "filepath"
    BY <2>1, <2>2, RouteOfSubtree, Zenon
  <2>4. /\ r \in Seq(T) /\ Len(r) = Len(s) + 3 /\ Len(s) \in Nat
        /\ \A i \in 1 .. Len(s) : r[i] = s[i]
        /\ r[Len(s) + 1] = "/" /\ r[Len(s) + 2] = "*" /\ r[Len(s) + 3] = "filepath"
    <3>1. q = r
      BY <2>2, <2>3, Zenon
    <3>2. QED BY <2>3, <3>1, Zenon
  <2>5. ~HasParameter(r)
    <3>1. SUFFICES ASSUME NEW i \in DOMAIN r, r[i] = ":" PROVE FALSE
      BY DEF HasParameter, ToSet
    <3>2. i \in 1 .. Len(s) \/ i = Len(s) + 1 \/ i = Len(s) + 2 \/ i = Len(s) + 3
      BY <2>4
    <3>3. CASE i \in 1 .. Len(s)
      BY <2>1, <2>4, <3>1, <3>3 DEF Wildcards
    <3>4. CASE i = Len(s) + 1 \/ i = Len(s) + 2 \/ i = Len(s) + 3
      BY <2>4, <3>1, <3>4
    <3>5. QED BY <3>2, <3>3, <3>4
  <2>6. "*" \in ToSet(r)
    <3>1. Len(s) + 2 \in DOMAIN r
      BY <2>4
    <3>2. QED BY <2>4, <3>1 DEF ToSet
  <2>7. PICK i \in DOMAIN r : r[i] = "*" /\ IsPrefix(SubSeq(r, 1, i - 1), path)
    BY <1>1, <2>5, <2>6 DEF Routes
  <2>8. i - 1 \in Nat /\ Len(s) =< i - 1 /\ i - 1 =< Len(r)
    <3>1. i \notin 1 .. Len(s)
      BY <2>1, <2>4, <2>7 DEF Wildcards
    <3>2. QED BY <2>4, <3>1
  <2>9. path \in Seq(T)
    BY DEF T
  <2>10. IsPrefix(s, path)
    BY <2>1, <2>4, <2>7, <2>8, <2>9, PrefixOfPrefix
  <2>11. QED BY <1>3, <2>10 DEF Under, s
<1>4. QED BY <1>2, <1>3

(* What a page's path has to do with the list when it is refused, and when *)
(* a sign-in for it does not lead back.                                    *)
RefusedFor(page, list) == \A p \in list : Routes(Route(p), page.path) => ~Plain(p)
HomeFor(page, list) ==
  \A p \in list : Routes(Route(p), page.path) /\ Plain(p) => ~IsSubtree(p) /\ page.query # <<>>

(* A path that a plain entry leads to the proxy is allowed. *)
LEMMA NotAllowed ==
  ASSUME NEW list, list \in SUBSET Seq(Tokens),
         NEW page, page \in [path : Seq(Tokens), query : Seq(Tokens)],
         ~isPathAllowed(page.path, list)
  PROVE  RefusedFor(page, list)
<1> SUFFICES ASSUME NEW p \in list, Routes(Route(p), page.path), Plain(p) PROVE FALSE
  BY DEF RefusedFor
<1>1. p \in Seq(Tokens) /\ page.path \in Seq(Tokens)
  OBVIOUS
<1>2. page.path = p \/ (IsSubtree(p) /\ Under(page.path, p))
  BY <1>1, PlainRoutes
<1>3. QED BY <1>2 DEF isPathAllowed, matchesPattern

(* A page with a plain entry has a link that leads back to it, save for an *)
(* exact entry and a query.                                                *)
LEMMA NoLink ==
  ASSUME NEW list, list \in SUBSET Seq(Tokens),
         NEW page, page \in [path : Seq(Tokens), query : Seq(Tokens)],
         ~isValidReturnURL(LinkOf(page), list)
  PROVE  HomeFor(page, list)
<1> DEFINE link == LinkOf(page)
<1> SUFFICES ASSUME NEW p \in list, Routes(Route(p), page.path), Plain(p)
             PROVE  ~IsSubtree(p) /\ page.query # <<>>
  BY DEF HomeFor
<1>1. p \in Seq(Tokens) /\ page.path \in Seq(Tokens) /\ page.query \in Seq(Tokens)
  OBVIOUS
<1>2. page.path = p \/ (IsSubtree(p) /\ Under(page.path, p))
  BY <1>1, PlainRoutes
<1>3. link.rest # p /\ ~(IsSubtree(p) /\ Under(link.rest, p))
  BY DEF isValidReturnURL, LinkOf, matchesPattern
<1>4. CASE page.query = <<>>
  <2>1. link.rest = page.path
    BY <1>4 DEF LinkOf
  <2>2. QED BY <1>2, <1>3, <2>1
<1>5. CASE page.query # <<>>
  <2>1. link.rest = page.path \o (<<"?">> \o page.query)
    <3>1. link.rest = page.path \o <<"?">> \o page.query
      BY <1>5 DEF LinkOf
    <3>2. QED BY <3>1
  <2> HIDE DEF link
  <2>2. <<"?">> \o page.query \in Seq(Tokens)
    <3>1. <<"?">> \in Seq(Tokens)
      BY ProxyAssumption
    <3>2. QED BY <1>1, <3>1
  <2>3. ASSUME IsSubtree(p) PROVE FALSE
    <3>1. Stem(p) \in Seq(Tokens) /\ IsPrefix(Stem(p), page.path)
      <4>1. CASE page.path = p
        BY <1>1, <4>1, <2>3, StemType, StemIsPrefix
      <4>2. CASE Under(page.path, p)
        BY <1>1, <4>2, StemType DEF Under
      <4>3. QED BY <1>2, <4>1, <4>2
    <3>2. IsPrefix(Stem(p), page.path \o (<<"?">> \o page.query))
      BY <1>1, <2>2, <3>1, PrefixOfConcat
    <3>3. QED BY <1>3, <2>1, <2>3, <3>2 DEF Under
  <2>4. QED BY <1>5, <2>3
<1>6. QED BY <1>4, <1>5

---------------------------------------------------------------------------
(* What a step of the database does to the rows: none goes, and a session  *)
(* that has ended stays so.                                                *)
Ended(rows, id) == ~(id \in DOMAIN rows /\ rows[id].left > 0)
Later(rows, rows2) ==
  /\ DOMAIN rows \subseteq DOMAIN rows2 /\ DOMAIN rows2 \subseteq Ids
  /\ rows2 \in [DOMAIN rows2 -> Row]
  /\ \A id \in DOMAIN rows : Ended(rows, id) => Ended(rows2, id)

(* The inductive invariant.  That a request which came in too late does    *)
(* not reach EBS needs its session to be a row that can not come back; and *)
(* that EBS serves the session that was validated needs, of the cookies of *)
(* browsers and requests that no answer has mixed, that the two agree      *)
(* until sso's session has ended: that is when EBS may remove the other.   *)
(* What a request is shown depends on the list.                            *)
Agree(c, rows) ==
  /\ c.sso # NoId => c.sso \in DOMAIN rows
  /\ c.sso # NoId /\ ~c.mixed => c.icx = c.sso \/ Ended(rows, c.sso)

Outcome(q, list, urls) ==
  /\ q.shown = "forbidden" => RefusedFor(q.page, list)
  /\ q.shown = "home" /\ urls => HomeFor(q.page, list)

Good(q, rows) ==
  /\ Agree(q.cookies, rows)
  /\ q.ended => Ended(rows, q.cookies.sso)
  /\ q.stage # "done" => q.shown = "nothing"
  /\ q.stage = "forwarded" \/ q.shown \in {"ebs", "ebsLogin"} =>
       ~q.ended /\ q.cookies.sso # NoId /\ (~q.cookies.mixed => q.cookies.icx = q.cookies.sso)

IInv ==
  /\ TypeOK
  /\ \A b \in Browsers : Agree(jar[b], icx)
  /\ \A r \in DOMAIN req : Good(req[r], icx) /\ Outcome(req[r], allowed, enableReturnURL)

(* Requests and cookies stay good over a step of the database. *)
LEMMA AgreeLater ==
  ASSUME NEW rows, NEW rows2, Later(rows, rows2), NEW c, Agree(c, rows)
  PROVE  Agree(c, rows2)
BY DEF Agree, Later

LEMMA GoodLater ==
  ASSUME NEW rows, NEW rows2, Later(rows, rows2), NEW q, Good(q, rows)
  PROVE  Good(q, rows2)
<1>1. Agree(q.cookies, rows2)
  BY AgreeLater DEF Good
<1>2. q.ended => Ended(rows2, q.cookies.sso)
  <2>1. CASE q.cookies.sso \in DOMAIN rows
    BY <2>1 DEF Later, Good
  <2>2. CASE q.cookies.sso \notin DOMAIN rows
    BY <2>2, EbsAssumption DEF Later, Ended, Good, Agree
  <2>3. QED BY <2>1, <2>2
<1>3. QED BY <1>1, <1>2 DEF Good

(* A session that ends keeps its row. *)
LEMMA EndLater == ASSUME TypeOK, NEW id, EndSession(id) PROVE Later(icx, icx')
<1>1. icx \in [DOMAIN icx -> Row] /\ DOMAIN icx \subseteq Ids
  BY DEF TypeOK
<1>2. \A x \in DOMAIN icx : WithLeft(icx[x], 0) \in Row
  BY <1>1, EbsAssumption DEF Row, WithLeft
<1>3. \A x \in DOMAIN icx : WithLeft(icx[x], 0).left = 0
  BY DEF WithLeft
<1>4. CASE id \in DOMAIN icx /\ icx' = [icx EXCEPT ![id] = WithLeft(@, 0)]
  <2>1. icx' \in [DOMAIN icx -> Row] /\ DOMAIN icx' = DOMAIN icx
    BY <1>1, <1>2, <1>4
  <2>2. \A x \in DOMAIN icx : icx'[x] = icx[x] \/ icx'[x] = WithLeft(icx[x], 0)
    BY <1>1, <1>4
  <2>3. \A x \in DOMAIN icx : Ended(icx, x) => Ended(icx', x)
    BY <1>2, <1>3, <2>1, <2>2 DEF Ended
  <2>4. QED BY <1>1, <2>1, <2>3 DEF Later
<1>5. CASE icx' = icx
  BY <1>1, <1>5 DEF Later
<1>6. QED BY <1>4, <1>5 DEF EndSession, EndRow

(* A new session takes an id that no row has. *)
LEMMA PutLater ==
  ASSUME TypeOK, NEW id \in Ids, id \notin DOMAIN icx, NEW u \in Users,
         icx' = Put(icx, id, [user |-> u, left |-> EbsLimit])
  PROVE  Later(icx, icx') /\ id \in DOMAIN icx'
<1> DEFINE row == [user |-> u, left |-> EbsLimit]
<1>1. icx \in [DOMAIN icx -> Row] /\ DOMAIN icx \subseteq Ids
  BY DEF TypeOK
<1>2. row \in Row
  BY EbsAssumption DEF Row
<1> HIDE DEF row
<1>3. /\ DOMAIN icx' = DOMAIN icx \union {id}
      /\ \A x \in DOMAIN icx : icx'[x] = icx[x]
      /\ icx' \in [DOMAIN icx \union {id} -> Row]
  BY <1>1, <1>2 DEF Put, row
<1>4. QED BY <1>1, <1>3 DEF Later, Ended

LEMMA CreateLater ==
  ASSUME TypeOK, NEW id \in AnyId, NEW u \in Users, CreateEBSSession(id, u)
  PROVE  Later(icx, icx') /\ (id # NoId => id \in DOMAIN icx' /\ id \notin DOMAIN icx)
<1>1. CASE id = NoId
  BY <1>1, EbsAssumption DEF CreateEBSSession, TypeOK, Later
<1>2. CASE id # NoId
  <2>1. id \in Ids /\ id \notin DOMAIN icx
    BY <1>2 DEF AnyId, CreateEBSSession, NewIds
  <2>2. PICK account \in AccountsOf(u) :
          icx' = Put(icx, id, [user |-> account, left |-> EbsLimit])
    BY <2>1 DEF CreateEBSSession
  <2>3. account \in Users
    BY DEF AccountsOf
  <2>4. QED BY <2>1, <2>2, <2>3, PutLater
<1>3. QED BY <1>1, <1>2

(* EBS extends valid sessions only. *)
LEMMA ActivityLater == ASSUME TypeOK, NEW id, IcxActivity(id) PROVE Later(icx, icx')
<1>1. icx \in [DOMAIN icx -> Row] /\ DOMAIN icx \subseteq Ids
  BY DEF TypeOK
<1>2. /\ id \in DOMAIN icx /\ icx[id].left > 0
      /\ icx' = [icx EXCEPT ![id] = WithLeft(@, EbsLimit)]
  BY DEF IcxActivity, ValidateSession
<1>3. WithLeft(icx[id], EbsLimit) \in Row
  BY <1>1, <1>2, EbsAssumption DEF Row, WithLeft
<1>4. icx' \in [DOMAIN icx -> Row] /\ DOMAIN icx' = DOMAIN icx
  BY <1>1, <1>2, <1>3
<1>5. icx'[id] = WithLeft(icx[id], EbsLimit) /\ \A x \in DOMAIN icx \ {id} : icx'[x] = icx[x]
  BY <1>1, <1>2
<1>6. QED BY <1>1, <1>2, <1>3, <1>4, <1>5 DEF Later, Ended

(* Time makes no session valid again. *)
LEMMA TickLater == ASSUME TypeOK, IcxTick PROVE Later(icx, icx')
<1>1. icx \in [DOMAIN icx -> Row] /\ DOMAIN icx \subseteq Ids
  BY DEF TypeOK
<1> DEFINE aged(x) == WithLeft(icx[x], IF icx[x].left > 0 THEN icx[x].left - 1 ELSE 0)
<1>2. ASSUME NEW x \in DOMAIN icx
      PROVE  /\ aged(x) \in Row
             /\ ~(icx[x].left > 0) => ~(aged(x).left > 0)
  <2>1. icx[x].left \in 0 .. EbsLimit /\ icx[x].user \in Users
    BY <1>1 DEF Row
  <2>2. (IF icx[x].left > 0 THEN icx[x].left - 1 ELSE 0) \in 0 .. EbsLimit
    BY <2>1, EbsAssumption
  <2>3. QED BY <2>1, <2>2 DEF Row, WithLeft
<1>3. icx' = [x \in DOMAIN icx |-> aged(x)]
  BY DEF IcxTick
<1> HIDE DEF aged
<1>4. icx' \in [DOMAIN icx -> Row] /\ DOMAIN icx' = DOMAIN icx /\ \A x \in DOMAIN icx : icx'[x] = aged(x)
  BY <1>2, <1>3
<1>5. QED BY <1>1, <1>2, <1>4 DEF Later, Ended

---------------------------------------------------------------------------
(* A step that leaves requests and cookies alone. *)
LEMMA RowsStep ==
  ASSUME IInv, Later(icx, icx'), UNCHANGED <<settings, jar, req>>
  PROVE  IInv'
<1>1. TypeOK'
  BY DEF IInv, TypeOK, Later, settings
<1>2. \A b \in Browsers : Agree(jar[b], icx')
  BY AgreeLater DEF IInv
<1>3. \A x \in DOMAIN req : Good(req[x], icx')
  BY GoodLater DEF IInv
<1>4. QED BY <1>1, <1>2, <1>3 DEF IInv, settings

(* A step that gives one request another place. *)
LEMMA RequestStep ==
  ASSUME IInv, Later(icx, icx'), UNCHANGED settings,
         jar' \in [Browsers -> Cookies], \A b \in Browsers : Agree(jar'[b], icx'),
         NEW r, r \in DOMAIN req,
         NEW s, s \in {"arrived", "forwarded", "login", "done"},
         NEW what, what \in {"nothing", "forbidden", "error", "ebs", "ebsLogin", "home", "link"},
         Good(Now(req[r], s, what), icx'), Outcome(Now(req[r], s, what), allowed, enableReturnURL),
         req' = [req EXCEPT ![r] = Now(@, s, what)]
  PROVE  IInv'
<1> DEFINE n == Now(req[r], s, what)
<1>1. DOMAIN req \subseteq Requests /\ req \in [DOMAIN req -> Request]
  BY DEF IInv, TypeOK
<1>2. n \in Request
  <2>1. req[r] \in Request
    BY <1>1
  <2>2. QED BY <2>1 DEF Request, Now
<1>3. /\ req' = [req EXCEPT ![r] = n]
      /\ Good(n, icx') /\ Outcome(n, allowed, enableReturnURL)
  OBVIOUS
<1> HIDE DEF n
<1>4. /\ DOMAIN req' = DOMAIN req /\ req' \in [DOMAIN req -> Request]
      /\ req'[r] = n /\ \A x \in DOMAIN req \ {r} : req'[x] = req[x]
  BY <1>1, <1>2, <1>3
<1>5. \A x \in DOMAIN req' : Good(req'[x], icx') /\ Outcome(req'[x], allowed, enableReturnURL)
  BY <1>3, <1>4, GoodLater DEF IInv
<1>6. TypeOK'
  BY <1>1, <1>4 DEF IInv, TypeOK, Later, settings
<1>7. QED BY <1>5, <1>6 DEF IInv, settings

(* The database and the cookies are left alone in many steps. *)
LEMMA NothingLater ==
  ASSUME IInv
  PROVE  /\ Later(icx, icx)
         /\ jar \in [Browsers -> Cookies] /\ \A b \in Browsers : Agree(jar[b], icx)
BY DEF IInv, TypeOK, Later

(* One browser's cookies are set. *)
LEMMA JarStep ==
  ASSUME IInv, Later(icx, icx'), NEW b \in Browsers, NEW c \in Cookies, Agree(c, icx'),
         jar' = [jar EXCEPT ![b] = c]
  PROVE  jar' \in [Browsers -> Cookies] /\ \A x \in Browsers : Agree(jar'[x], icx')
<1>1. jar \in [Browsers -> Cookies] /\ \A x \in Browsers : Agree(jar[x], icx')
  BY AgreeLater DEF IInv, TypeOK
<1>2. jar' \in [Browsers -> Cookies] /\ jar'[b] = c /\ \A x \in Browsers \ {b} : jar'[x] = jar[x]
  BY <1>1
<1>3. QED BY <1>1, <1>2

(* What is known of a request, and that an outcome is only set at the end. *)
LEMMA RequestFacts ==
  ASSUME IInv, NEW r, r \in DOMAIN req
  PROVE  /\ req[r] \in Request /\ req[r].browser \in Browsers /\ req[r].cookies \in Cookies
         /\ req[r].page \in [path : Seq(Tokens), query : Seq(Tokens)]
         /\ jar[req[r].browser] \in Cookies /\ Agree(jar[req[r].browser], icx)
         /\ Good(req[r], icx) /\ allowed \in SUBSET Seq(Tokens)
<1>1. req[r] \in Request
  BY DEF IInv, TypeOK
<1>2. /\ req[r].browser \in Browsers /\ req[r].cookies \in Cookies /\ req[r].page \in Pages
  BY <1>1 DEF Request
<1>3. QED BY <1>1, <1>2, ProxyAssumption DEF IInv, TypeOK

LEMMA NoOutcome ==
  ASSUME NEW q, NEW s, NEW what, what \notin {"forbidden", "home"}, NEW list, NEW urls
  PROVE  Outcome(Now(q, s, what), list, urls)
BY DEF Outcome, Now

---------------------------------------------------------------------------
(* At first nobody holds or asks for anything. *)
LEMMA InvInit == Init => IInv
<1> SUFFICES ASSUME Init PROVE IInv
  OBVIOUS
<1>1. DOMAIN icx = {} /\ DOMAIN req = {} /\ allowed \in Files /\ enableReturnURL \in BOOLEAN
  BY DEF Init, IcxInit
<1> DEFINE none == [sso |-> NoId, icx |-> NoId, mixed |-> FALSE]
<1>2. none \in Cookies /\ Agree(none, icx)
  BY DEF Cookies, AnyId, Agree
<1>3. jar = [b \in Browsers |-> none]
  BY DEF Init
<1> HIDE DEF none
<1>4. jar \in [Browsers -> Cookies] /\ \A b \in Browsers : Agree(jar[b], icx)
  BY <1>2, <1>3
<1>5. TypeOK
  <2>1. icx \in [DOMAIN icx -> Row] /\ req \in [DOMAIN req -> Request]
    BY <1>1 DEF Init, IcxInit
  <2>2. QED BY <1>1, <1>4, <2>1 DEF TypeOK
<1>6. QED BY <1>1, <1>4, <1>5 DEF IInv

(* A request comes in with the browser's cookies. *)
LEMMA InvArrive ==
  ASSUME IInv, NEW r \in Requests, NEW b \in Browsers, NEW page \in Pages, Arrive(r, b, page)
  PROVE  IInv'
<1> DEFINE n == [stage |-> "arrived", browser |-> b, page |-> page, cookies |-> jar[b],
                 ended |-> ~ValidateSession(jar[b].sso), shown |-> "nothing"]
<1>1. /\ DOMAIN req \subseteq Requests /\ req \in [DOMAIN req -> Request]
      /\ jar[b] \in Cookies /\ Agree(jar[b], icx)
  BY DEF IInv, TypeOK
<1>2. n \in Request
  <2>1. ValidateSession(jar[b].sso) \in BOOLEAN
    BY DEF ValidateSession
  <2>2. QED BY <1>1, <2>1 DEF Request
<1>3. Good(n, icx) /\ Outcome(n, allowed, enableReturnURL)
  BY <1>1 DEF Good, Outcome, ValidateSession, Ended
<1>4. req' = Put(req, r, n) /\ UNCHANGED <<icx, settings, jar>>
  BY DEF Arrive
<1> HIDE DEF n
<1>5. /\ DOMAIN req' = DOMAIN req \union {r} /\ req' \in [DOMAIN req \union {r} -> Request]
      /\ req'[r] = n /\ \A x \in DOMAIN req \ {r} : req'[x] = req[x]
  BY <1>1, <1>2, <1>4 DEF Put
<1>6. TypeOK'
  BY <1>1, <1>4, <1>5 DEF IInv, TypeOK, settings
<1>7. \A x \in DOMAIN req' : Good(req'[x], icx) /\ Outcome(req'[x], allowed, enableReturnURL)
  BY <1>3, <1>5 DEF IInv
<1>8. QED BY <1>4, <1>6, <1>7 DEF IInv, settings

(* A valid session takes a request on to EBS; a path that is not allowed   *)
(* has not come by a plain entry.                                          *)
LEMMA InvForward == ASSUME IInv, NEW r \in Requests, Forward(r) PROVE IInv'
<1>1. r \in DOMAIN req /\ req[r].stage = "arrived" /\ UNCHANGED <<icx, settings, jar>>
  BY DEF Forward, At
<1>2. Good(req[r], icx) /\ NoId \notin DOMAIN icx
  BY <1>1, RequestFacts, EbsAssumption DEF IInv, TypeOK
<1>3. req[r].cookies.sso \in DOMAIN icx /\ icx[req[r].cookies.sso].left > 0
  BY DEF Forward, Accepted, ValidateSession
<1>4. Good(Now(req[r], "forwarded", "nothing"), icx)
  BY <1>2, <1>3 DEF Good, Agree, Now, Ended
<1>5. \A what \in {"error", "forbidden"} : Good(Now(req[r], "done", what), icx)
  BY <1>2 DEF Good, Now
<1>6. CASE To(r, "forwarded")
  BY <1>1, <1>4, <1>6, NothingLater, NoOutcome, RequestStep DEF To
<1>7. CASE Show(r, "error")
  BY <1>1, <1>5, <1>7, NothingLater, NoOutcome, RequestStep DEF Show
<1>8. CASE ~isPathAllowed(req[r].page.path, allowed) /\ Show(r, "forbidden")
  <2>1. RefusedFor(req[r].page, allowed)
    BY <1>1, <1>8, RequestFacts, NotAllowed
  <2>2. Outcome(Now(req[r], "done", "forbidden"), allowed, enableReturnURL)
    BY <2>1 DEF Outcome, Now
  <2>3. QED BY <1>1, <1>5, <1>8, <2>2, NothingLater, RequestStep DEF Show
<1>9. QED BY <1>6, <1>7, <1>8 DEF Forward

(* Without one the request goes to sign in, in any case. *)
LEMMA InvRedirect == ASSUME IInv, NEW r \in Requests, RedirectToLogin(r) PROVE IInv'
<1>1. r \in DOMAIN req /\ Good(req[r], icx)
  BY DEF RedirectToLogin, At, IInv
<1>2. req' = [req EXCEPT ![r] = Now(@, "login", "nothing")] /\ UNCHANGED <<icx, settings, jar>>
  BY DEF RedirectToLogin, To
<1>3. Good(Now(req[r], "login", "nothing"), icx)
  BY <1>1 DEF Good, Now
<1>4. QED BY <1>1, <1>2, <1>3, NothingLater, NoOutcome, RequestStep

(* The cookie of an answer agrees with sso's: either it is another sign-   *)
(* in's, which makes the cookies mixed, or it is sso's session, or that has*)
(* ended.                                                                  *)
LEMMA AnswerAgrees ==
  ASSUME NEW rows, NEW q, NEW old, old \in Cookies, q.cookies \in Cookies, Agree(old, rows),
         q.cookies.sso # NoId, ~q.cookies.mixed => q.cookies.icx = q.cookies.sso,
         NEW id \in AnyId, id = NoId => Ended(rows, q.cookies.icx)
  PROVE  CookieOfAnswer(old, q, id) \in Cookies /\ Agree(CookieOfAnswer(old, q, id), rows)
<1> DEFINE c == CookieOfAnswer(old, q, id)
<1>1. /\ c.sso = old.sso /\ c.icx = id
      /\ ~c.mixed => ~q.cookies.mixed /\ old.sso = q.cookies.sso /\ id \in {q.cookies.icx, NoId}
  BY DEF CookieOfAnswer
<1>2. c \in Cookies
  BY DEF CookieOfAnswer, Cookies
<1>3. c.sso # NoId => c.sso \in DOMAIN rows
  BY <1>1 DEF Agree
<1> HIDE DEF c
<1>4. ~c.mixed => c.icx = c.sso \/ Ended(rows, c.sso)
  BY <1>1
<1>5. QED BY <1>2, <1>3, <1>4 DEF Agree, c

(* EBS answers or does not, with a session of its own or not, and with a   *)
(* cookie or not.                                                          *)
LEMMA InvAnswer ==
  ASSUME IInv, NEW r \in DOMAIN req, req[r].stage = "forwarded", UNCHANGED settings,
         Later(icx, icx'), NEW what \in {"ebs", "ebsLogin", "error"}, Show(r, what),
         \/ UNCHANGED jar
         \/ \E id \in AnyId : Keep(r, id) /\ (id = NoId => Ended(icx', req[r].cookies.icx))
  PROVE  IInv'
<1> DEFINE q == req[r]
<1>1. /\ q.browser \in Browsers /\ q.cookies \in Cookies /\ Good(q, icx)
      /\ jar[q.browser] \in Cookies /\ Agree(jar[q.browser], icx)
  BY RequestFacts
<1>2. q.cookies.sso # NoId /\ (~q.cookies.mixed => q.cookies.icx = q.cookies.sso)
  BY <1>1 DEF Good
<1>3. Good(Now(q, "done", what), icx')
  <2>1. Good(q, icx')
    BY <1>1, GoodLater
  <2>2. QED BY <2>1 DEF Good, Now
<1>4. jar' \in [Browsers -> Cookies] /\ \A b \in Browsers : Agree(jar'[b], icx')
  <2>1. CASE UNCHANGED jar
    BY <2>1, AgreeLater DEF IInv, TypeOK
  <2>2. ASSUME NEW id \in AnyId, Keep(r, id), id = NoId => Ended(icx', q.cookies.icx)
        PROVE  jar' \in [Browsers -> Cookies] /\ \A b \in Browsers : Agree(jar'[b], icx')
    <3> DEFINE c == CookieOfAnswer(jar[q.browser], q, id)
    <3>1. Agree(jar[q.browser], icx')
      BY <1>1, AgreeLater
    <3> HIDE DEF q
    <3>2. c \in Cookies /\ Agree(c, icx')
      BY <1>1, <1>2, <2>2, <3>1, AnswerAgrees
    <3>3. jar' = [jar EXCEPT ![q.browser] = c]
      BY <2>2 DEF Keep, q
    <3> HIDE DEF c
    <3>4. QED BY <1>1, <3>2, <3>3, JarStep
  <2>3. QED BY <2>1, <2>2
<1>5. req' = [req EXCEPT ![r] = Now(@, "done", what)]
  BY DEF Show
<1>6. QED BY <1>3, <1>4, <1>5, NoOutcome, RequestStep

LEMMA InvEbsAnswers == ASSUME IInv, NEW r \in Requests, EbsAnswers(r) PROVE IInv'
<1>1. r \in DOMAIN req /\ req[r].stage = "forwarded" /\ UNCHANGED settings
  BY DEF EbsAnswers, At
<1>2. req[r].cookies.icx \in AnyId
  BY <1>1, RequestFacts DEF Cookies
<1>3. CASE /\ IcxActivity(req[r].cookies.icx) /\ Show(r, "ebs")
           /\ UNCHANGED jar \/ Keep(r, req[r].cookies.icx)
  <2>1. Later(icx, icx') /\ req[r].cookies.icx # NoId
    BY <1>3, ActivityLater, EbsAssumption DEF IInv, TypeOK, IcxActivity, ValidateSession
  <2>2. QED BY <1>1, <1>2, <1>3, <2>1, InvAnswer
<1>4. CASE /\ ~ValidateSession(req[r].cookies.icx) /\ Show(r, "ebsLogin") /\ UNCHANGED icx
           /\ UNCHANGED jar \/ Keep(r, NoId)
  <2>1. Later(icx, icx') /\ Ended(icx', req[r].cookies.icx)
    BY <1>4, NothingLater DEF Ended, ValidateSession
  <2>2. NoId \in AnyId
    BY DEF AnyId
  <2>3. QED BY <1>1, <1>4, <2>1, <2>2, InvAnswer
<1>5. QED BY <1>3, <1>4 DEF EbsAnswers

LEMMA InvEbsSignsIn ==
  ASSUME IInv, NEW r \in Requests, NEW u \in Users, NEW id \in Ids, EbsSignsIn(r, u, id)
  PROVE  IInv'
<1>1. r \in DOMAIN req /\ req[r].stage = "forwarded" /\ UNCHANGED settings
  BY DEF EbsSignsIn, At
<1>2. Later(icx, icx')
  BY PutLater DEF EbsSignsIn, IInv
<1>3. id \in AnyId /\ id # NoId
  BY EbsAssumption DEF AnyId
<1>4. Keep(r, id) /\ Show(r, "ebs")
  BY DEF EbsSignsIn
<1>5. QED BY <1>1, <1>2, <1>3, <1>4, InvAnswer

LEMMA InvEbsFails == ASSUME IInv, NEW r \in Requests, EbsFails(r) PROVE IInv'
<1>1. /\ r \in DOMAIN req /\ req[r].stage = "forwarded" /\ UNCHANGED <<icx, settings, jar>>
      /\ Show(r, "error")
  BY DEF EbsFails, At
<1>2. QED BY <1>1, NothingLater, InvAnswer

(* A new session, and back to the page or home. *)
LEMMA InvSignIn ==
  ASSUME IInv, NEW r \in Requests, NEW u \in Users, NEW id \in AnyId, SignIn(r, u, id)
  PROVE  IInv'
<1> DEFINE q == req[r]
           what == Destination(req[r].page)
<1>1. r \in DOMAIN req /\ q.stage = "login" /\ UNCHANGED settings
  BY DEF SignIn, At
<1>2. q.browser \in Browsers /\ Good(q, icx)
  BY <1>1, RequestFacts
<1>3. Later(icx, icx') /\ (id # NoId => id \in DOMAIN icx')
  BY CreateLater DEF SignIn, IInv
<1>4. jar' \in [Browsers -> Cookies] /\ \A b \in Browsers : Agree(jar'[b], icx')
  <2> DEFINE c == SetCookies(jar[q.browser], id)
  <2>1. c \in Cookies /\ Agree(c, icx')
    BY <1>3 DEF SetCookies, Cookies, Agree
  <2>2. jar' = [jar EXCEPT ![q.browser] = c]
    BY DEF SignIn
  <2> HIDE DEF c
  <2>3. QED BY <1>2, <1>3, <2>1, <2>2, JarStep
<1>5. what \in {"link", "home"} /\ (what = "home" /\ enableReturnURL => HomeFor(q.page, allowed))
  BY <1>1, RequestFacts, NoLink DEF Destination
<1>6. req' = [req EXCEPT ![r] = Now(@, "done", what)]
  BY DEF SignIn, Show
<1> HIDE DEF what
<1>7. Good(Now(q, "done", what), icx')
  <2>1. Good(q, icx')
    BY <1>2, <1>3, GoodLater
  <2>2. QED BY <1>5, <2>1 DEF Good, Now
<1>8. Outcome(Now(q, "done", what), allowed, enableReturnURL)
  BY <1>5 DEF Outcome, Now
<1>9. QED BY <1>1, <1>3, <1>4, <1>5, <1>6, <1>7, <1>8, RequestStep

(* A sign-in that fails. *)
LEMMA InvSignInFails == ASSUME IInv, NEW r \in Requests, SignInFails(r) PROVE IInv'
<1>1. r \in DOMAIN req /\ Good(req[r], icx)
  BY DEF SignInFails, At, IInv
<1>2. req' = [req EXCEPT ![r] = Now(@, "done", "error")] /\ UNCHANGED <<icx, settings, jar>>
  BY DEF SignInFails, Show
<1>3. Good(Now(req[r], "done", "error"), icx)
  BY <1>1 DEF Good, Now
<1>4. QED BY <1>1, <1>2, <1>3, NothingLater, NoOutcome, RequestStep

(* Requests that are forgotten, one or all. *)
LEMMA InvForget ==
  ASSUME IInv, UNCHANGED <<icx, settings, jar>>, req' = <<>> \/ \E r : req' = Delete(req, r)
  PROVE  IInv'
<1>1. DOMAIN req \subseteq Requests /\ req \in [DOMAIN req -> Request]
  BY DEF IInv, TypeOK
<1>2. /\ DOMAIN req' \subseteq DOMAIN req /\ req' \in [DOMAIN req' -> Request]
      /\ \A x \in DOMAIN req' : req'[x] = req[x]
  <2>1. CASE req' = <<>>
    BY <2>1
  <2>2. CASE \E r : req' = Delete(req, r)
    BY <1>1, <2>2 DEF Delete, Restrict
  <2>3. QED BY <2>1, <2>2
<1>3. TypeOK'
  BY <1>1, <1>2 DEF IInv, TypeOK, settings
<1>4. QED BY <1>2, <1>3 DEF IInv, settings

(* A sign-out ends the cookie's session, or does not, and takes the        *)
(* cookies.                                                                *)
LEMMA InvLogout == ASSUME IInv, NEW b \in Browsers, Logout(b) PROVE IInv'
<1>1. Later(icx, icx') /\ UNCHANGED <<settings, req>>
  BY EndLater DEF Logout, IInv
<1> DEFINE c == ClearCookies(jar[b])
<1>2. c \in Cookies /\ Agree(c, icx')
  BY DEF ClearCookies, Cookies, AnyId, Agree
<1>3. jar' = [jar EXCEPT ![b] = c]
  BY DEF Logout
<1> HIDE DEF c
<1>4. jar' \in [Browsers -> Cookies] /\ \A x \in Browsers : Agree(jar'[x], icx')
  BY <1>1, <1>2, <1>3, JarStep
<1>5. TypeOK'
  BY <1>1, <1>4 DEF IInv, TypeOK, Later, settings
<1>6. \A x \in DOMAIN req : Good(req[x], icx')
  BY <1>1, GoodLater DEF IInv
<1>7. QED BY <1>1, <1>4, <1>5, <1>6 DEF IInv, settings

(* Every step keeps the invariant. *)
LEMMA InvNext == IInv /\ [Next]_vars => IInv'
<1> SUFFICES ASSUME IInv, [Next]_vars PROVE IInv'
  OBVIOUS
<1>1. CASE UNCHANGED vars
  BY <1>1, NothingLater, RowsStep DEF vars
<1>2. ASSUME NEW r \in Requests, NEW b \in Browsers, NEW page \in Pages, Arrive(r, b, page) PROVE IInv'
  BY <1>2, InvArrive
<1>3. ASSUME NEW r \in Requests,
             \/ Forward(r) \/ RedirectToLogin(r) \/ EbsAnswers(r) \/ EbsFails(r) \/ SignInFails(r)
      PROVE  IInv'
  BY <1>3, InvForward, InvRedirect, InvEbsAnswers, InvEbsFails, InvSignInFails
<1>4. ASSUME NEW r \in Requests, NEW u \in Users, NEW id \in AnyId, SignIn(r, u, id) PROVE IInv'
  BY <1>4, InvSignIn
<1>5. ASSUME NEW r \in Requests, NEW u \in Users, NEW id \in Ids, EbsSignsIn(r, u, id) PROVE IInv'
  BY <1>5, InvEbsSignsIn
<1>6. ASSUME NEW r \in Requests, Leave(r) PROVE IInv'
  BY <1>6, InvForget DEF Leave
<1>7. ASSUME NEW b \in Browsers, Logout(b) PROVE IInv'
  BY <1>7, InvLogout
<1>8. ASSUME NEW id \in Ids, Cleanup(id) PROVE IInv'
  BY <1>8, EndLater, RowsStep DEF Cleanup, IInv
<1>9. CASE Tick
  BY <1>9, TickLater, RowsStep DEF Tick, IInv
<1>10. CASE Restart
  BY <1>10, InvForget DEF Restart
<1>11. QED BY <1>1, <1>2, <1>3, <1>4, <1>5, <1>6, <1>7, <1>8, <1>9, <1>10 DEF Next

(* The invariant holds always. *)
THEOREM Invariance == Spec => []IInv
BY InvInit, InvNext, PTL DEF Spec

---------------------------------------------------------------------------
(* The types of the requests, the cookies and the rows. *)
THEOREM TypeCorrect == Spec => []TypeOK
<1>1. IInv => TypeOK
  BY DEF IInv
<1>2. QED BY <1>1, Invariance, PTL

(* A path that a plain entry leads to the proxy is never forbidden, for    *)
(* every list that Gin takes.                                              *)
THEOREM PlainRoutesAreAllowed == Spec => []ForbiddenForCause
<1>1. IInv => ForbiddenForCause
  BY DEF IInv, Outcome, RefusedFor, ForbiddenForCause, RoutedBy
<1>2. QED BY <1>1, Invariance, PTL

(* A session that has ended takes no later request to EBS. *)
THEOREM EndedIsOut == Spec => []EndedStaysOut
<1>1. IInv => EndedStaysOut
  BY DEF IInv, Good, EndedStaysOut, Reached
<1>2. QED BY <1>1, Invariance, PTL

(* EBS serves the session that was validated, unless one of its answers    *)
(* has mixed the browser's cookies.                                        *)
THEOREM ValidatedIsServed == Spec => []ServedAsValidated
<1>1. IInv => ServedAsValidated
  BY DEF IInv, Good, ServedAsValidated, Reached
<1>2. QED BY <1>1, Invariance, PTL

(* A sign-in leads back to the page that a plain entry led to the proxy,   *)
(* save for an exact entry and a query.                                    *)
THEOREM BackToThePage == Spec => []LinksLeadBack
<1>1. IInv => LinksLeadBack
  BY DEF IInv, Outcome, HomeFor, LinksLeadBack, RoutedBy
<1>2. QED BY <1>1, Invariance, PTL
============================================================================
