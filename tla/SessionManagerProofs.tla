----------------------- MODULE SessionManagerProofs -----------------------
(***************************************************************************)
(* SessionManager for any users, session ids, requests, limit and timeout, *)
(* with sessions created through the SSO path (use_dbc).                   *)
(***************************************************************************)
EXTENDS SessionManager, SequenceTheorems, TLAPS

(* Deleting position i of a list moves the later elements up by one. *)
LEMMA RemoveAtElements ==
  ASSUME NEW S, NEW s \in Seq(S), NEW i \in 1 .. Len(s)
  PROVE  /\ RemoveAt(s, i) \in Seq(S)
         /\ Len(RemoveAt(s, i)) = Len(s) - 1
         /\ \A j \in 1 .. Len(s) - 1 :
              RemoveAt(s, i)[j] = IF j < i THEN s[j] ELSE s[j + 1]
<1> DEFINE t == RemoveAt(s, i)
           a == SubSeq(s, 1, i - 1)
           b == SubSeq(s, i + 1, Len(s))
<1>1. a \in Seq(S) /\ Len(a) = i - 1 /\ \A j \in 1 .. i - 1 : a[j] = s[j]
  OBVIOUS
<1>2. /\ b \in Seq(S) /\ Len(b) = Len(s) - i
      /\ \A j \in 1 .. Len(s) - i : b[j] = s[i + j]
  OBVIOUS
<1>3. t = a \o b
  BY DEF RemoveAt
<1> HIDE DEF a, b, t
<1>4. t \in Seq(S) /\ Len(t) = Len(s) - 1
  BY <1>1, <1>2, <1>3
<1>5. ASSUME NEW j \in 1 .. Len(s) - 1
      PROVE  t[j] = IF j < i THEN s[j] ELSE s[j + 1]
  <2>1. CASE j < i
    BY <1>1, <1>2, <1>3, <2>1
  <2>2. CASE j >= i
    <3>1. t[j] = b[j - (i - 1)]
      BY <1>1, <1>2, <1>3, <2>2
    <3>2. b[j - (i - 1)] = s[i + (j - (i - 1))]
      BY <1>2, <2>2
    <3>3. QED BY <2>2, <3>1, <3>2
  <2>3. QED BY <2>1, <2>2
<1>6. QED BY <1>4, <1>5 DEF t

(* Deleting position i of a list without repetitions deletes that element  *)
(* and nothing else.                                                       *)
LEMMA RemoveAtProperties ==
  ASSUME NEW S, NEW s \in Seq(S), IsInjective(s), NEW i \in 1 .. Len(s)
  PROVE  /\ RemoveAt(s, i) \in Seq(S)
         /\ Len(RemoveAt(s, i)) = Len(s) - 1
         /\ IsInjective(RemoveAt(s, i))
         /\ ToSet(RemoveAt(s, i)) = ToSet(s) \ {s[i]}
<1> DEFINE t == RemoveAt(s, i)
<1>1. /\ t \in Seq(S)
      /\ Len(t) = Len(s) - 1
      /\ \A j \in 1 .. Len(s) - 1 : t[j] = IF j < i THEN s[j] ELSE s[j + 1]
  BY RemoveAtElements
<1> HIDE DEF t
<1>2. ASSUME NEW j \in DOMAIN t, NEW k \in DOMAIN t, t[j] = t[k] PROVE j = k
  <2>1. j \in 1 .. Len(s) - 1 /\ k \in 1 .. Len(s) - 1
    BY <1>1
  <2>2. \A m, n \in 1 .. Len(s) : s[m] = s[n] => m = n
    BY DEF IsInjective
  <2>3. t[j] = (IF j < i THEN s[j] ELSE s[j + 1]) /\ t[k] = (IF k < i THEN s[k] ELSE s[k + 1])
    BY <1>1, <2>1
  <2> DEFINE pos(n) == IF n < i THEN n ELSE n + 1
  <2>4. pos(j) \in 1 .. Len(s) /\ pos(k) \in 1 .. Len(s)
    BY <2>1
  <2>5. t[j] = s[pos(j)] /\ t[k] = s[pos(k)]
    BY <2>1, <2>3
  <2>6. pos(j) = pos(k)
    BY <1>2, <2>2, <2>4, <2>5
  <2>7. QED BY <2>1, <2>6
<1>3. ToSet(t) \subseteq ToSet(s) \ {s[i]}
  BY <1>1 DEF ToSet, IsInjective
<1>4. ASSUME NEW x \in ToSet(s) \ {s[i]} PROVE x \in ToSet(t)
  <2>1. PICK j \in 1 .. Len(s) : s[j] = x /\ j # i
    BY <1>4 DEF ToSet
  <2>2. CASE j < i
    BY <1>1, <2>1, <2>2 DEF ToSet
  <2>3. CASE j > i
    <3>1. j - 1 \in 1 .. Len(s) - 1 /\ t[j - 1] = x
      BY <1>1, <2>1, <2>3
    <3>2. QED BY <1>1, <3>1 DEF ToSet
  <2>4. QED BY <2>1, <2>2, <2>3
<1>5. QED BY <1>1, <1>2, <1>3, <1>4 DEF IsInjective, t

(* removeSessionLocked's loop takes out the one place that holds the id. *)
LEMMA ListWithoutAt ==
  ASSUME NEW S, NEW s \in Seq(S), IsInjective(s), NEW i \in 1 .. Len(s), NEW e, e = s[i]
  PROVE  ListWithout(s, e) = RemoveAt(s, i)
<1> DEFINE places == {j \in DOMAIN s : s[j] = e}
<1>1. places = {i}
  BY DEF IsInjective
<1>2. Min(places) = i
  BY <1>1 DEF Min
<1>3. QED BY <1>1, <1>2 DEF ListWithout

(* So, over a list without repetitions, it removes the id and keeps every  *)
(* other, and shortens the list if the id was in it.                       *)
LEMMA ListWithoutProperties ==
  ASSUME NEW S, NEW s \in Seq(S), IsInjective(s), NEW e
  PROVE  /\ ListWithout(s, e) \in Seq(S)
         /\ Len(ListWithout(s, e)) =< Len(s)
         /\ e \in ToSet(s) => Len(ListWithout(s, e)) = Len(s) - 1
         /\ IsInjective(ListWithout(s, e))
         /\ ToSet(ListWithout(s, e)) = ToSet(s) \ {e}
<1> DEFINE places == {i \in DOMAIN s : s[i] = e}
<1>1. CASE e \in ToSet(s)
  <2>1. PICK i \in 1 .. Len(s) : s[i] = e
    BY <1>1 DEF ToSet
  <2>2. ListWithout(s, e) = RemoveAt(s, i)
    BY <2>1, ListWithoutAt
  <2>3. QED BY <1>1, <2>1, <2>2, RemoveAtProperties
<1>2. CASE e \notin ToSet(s)
  <2>1. places = {}
    BY <1>2 DEF ToSet
  <2>2. ListWithout(s, e) = s
    BY <2>1 DEF ListWithout
  <2>3. QED BY <1>2, <2>2
<1>3. QED BY <1>1, <1>2

(* TrackSession's append of a new id. *)
LEMMA AppendNew ==
  ASSUME NEW S, NEW s \in Seq(S), IsInjective(s), NEW e \in S, e \notin ToSet(s)
  PROVE  /\ Append(s, e) \in Seq(S)
         /\ Len(Append(s, e)) = Len(s) + 1
         /\ IsInjective(Append(s, e))
         /\ ToSet(Append(s, e)) = ToSet(s) \union {e}
<1> DEFINE t == Append(s, e)
<1>1. /\ t \in Seq(S) /\ Len(t) = Len(s) + 1
      /\ \A j \in 1 .. Len(s) : t[j] = s[j]
      /\ t[Len(s) + 1] = e
  OBVIOUS
<1>2. IsInjective(t)
  BY <1>1 DEF IsInjective, ToSet
<1>3. ToSet(t) = ToSet(s) \union {e}
  BY <1>1 DEF ToSet
<1>4. QED BY <1>1, <1>2, <1>3

---------------------------------------------------------------------------
(* The maps have the types of TypeOK. *)
Typed(us, ss) ==
  /\ DOMAIN ss \subseteq AnyId /\ ss \in [DOMAIN ss -> Info]
  /\ us \in [Users -> Seq(AnyId)]

(* (us2, ss2) are the maps (us, ss) without id, and (us, ss) with a new    *)
(* session id of user u.                                                   *)
Removed(us, ss, id, us2, ss2) ==
  /\ Typed(us2, ss2) /\ Agree(us2, ss2)
  /\ DOMAIN ss2 = DOMAIN ss \ {id}
  /\ \A x \in DOMAIN ss \ {id} : ss2[x] = ss[x]
  /\ \A u \in Users : Len(us2[u]) =< Len(us[u])
  /\ \A u \in Users : id \in ToSet(us[u]) => Len(us2[u]) = Len(us[u]) - 1

Inserted(us, ss, u, id, us2, ss2) ==
  /\ Typed(us2, ss2) /\ Agree(us2, ss2)
  /\ DOMAIN ss2 = DOMAIN ss \union {id}
  /\ Len(us2[u]) = Len(us[u]) + 1
  /\ \A w \in Users \ {u} : us2[w] = us[w]

(* removeSessionLocked keeps the maps in agreement, lengthens no list and  *)
(* shortens that of the session's user.                                    *)
LEMMA RemovalKeepsAgreement ==
  ASSUME NEW us, NEW ss, Typed(us, ss), Agree(us, ss), NEW id
  PROVE  Removed(us, ss, id, RemovedList(us, ss, id), RemovedFrom(ss, id))
<1> DEFINE ss2 == RemovedFrom(ss, id)
           us2 == RemovedList(us, ss, id)
<1>1. /\ DOMAIN ss2 = DOMAIN ss \ {id}
      /\ \A x \in DOMAIN ss \ {id} : ss2[x] = ss[x]
      /\ ss2 \in [DOMAIN ss \ {id} -> Info]
  BY DEF RemovedFrom, Delete, Restrict, Typed
<1>2. CASE id \notin DOMAIN ss
  <2>1. us2 = us
    BY <1>2 DEF RemovedList
  <2>2. \A u \in Users : id \notin ToSet(us[u])
    BY <1>2 DEF Agree
  <2>3. Agree(us, ss2)
    BY <1>1, <1>2 DEF Agree
  <2>4. Typed(us, ss2)
    BY <1>1 DEF Typed
  <2>5. \A u \in Users : Len(us[u]) \in Nat
    BY DEF Typed
  <2>6. QED BY <1>1, <1>2, <2>1, <2>2, <2>3, <2>4, <2>5 DEF Removed
<1>3. CASE id \in DOMAIN ss
  <2> DEFINE w == ss[id].user
  <2>1. w \in Users
    BY <1>3 DEF Typed, Info
  <2>2. us2 = [us EXCEPT ![w] = ListWithout(@, id)]
    BY <1>3 DEF RemovedList
  <2>3. \A u \in Users : us[u] \in Seq(AnyId) /\ IsInjective(us[u])
    BY DEF Typed, Agree
  <2>4. /\ ListWithout(us[w], id) \in Seq(AnyId)
        /\ IsInjective(ListWithout(us[w], id))
        /\ ToSet(ListWithout(us[w], id)) = ToSet(us[w]) \ {id}
        /\ Len(ListWithout(us[w], id)) =< Len(us[w])
        /\ id \in ToSet(us[w]) => Len(ListWithout(us[w], id)) = Len(us[w]) - 1
    BY <2>1, <2>3, ListWithoutProperties
  <2> HIDE DEF w
  <2>5. /\ us2 \in [Users -> Seq(AnyId)]
        /\ us2[w] = ListWithout(us[w], id)
        /\ \A u \in Users \ {w} : us2[u] = us[u]
    BY <2>1, <2>2, <2>4 DEF Typed
  <2>6. \A u \in Users \ {w} : id \notin ToSet(us[u])
    BY <1>3 DEF Agree, w
  <2> HIDE DEF us2, ss2
  <2>7. Typed(us2, ss2)
    BY <1>1, <2>5 DEF Typed
  <2>8. ASSUME NEW u \in Users
        PROVE  IsInjective(us2[u]) /\ ToSet(us2[u]) = {x \in DOMAIN ss2 : ss2[x].user = u}
    <3>1. ToSet(us[u]) = {x \in DOMAIN ss : ss[x].user = u}
      BY DEF Agree
    <3>2. {x \in DOMAIN ss2 : ss2[x].user = u} = ToSet(us[u]) \ {id}
      BY <1>1, <3>1
    <3>3. CASE u = w
      BY <2>4, <2>5, <3>2, <3>3
    <3>4. CASE u # w
      BY <2>3, <2>5, <2>6, <3>2, <3>4
    <3>5. QED BY <3>3, <3>4
  <2>9. \A u \in Users : Len(us2[u]) =< Len(us[u])
    <3>1. \A u \in Users : Len(us[u]) \in Nat
      BY <2>3
    <3>2. QED BY <2>4, <2>5, <3>1
  <2>10. \A u \in Users : id \in ToSet(us[u]) => Len(us2[u]) = Len(us[u]) - 1
    BY <2>1, <2>4, <2>5, <2>6
  <2>11. QED BY <1>1, <2>7, <2>8, <2>9, <2>10 DEF Agree, Removed, us2, ss2
<1>4. QED BY <1>2, <1>3

(* TrackSession's insertion of a session that is not tracked yet. *)
LEMMA InsertionKeepsAgreement ==
  ASSUME NEW us, NEW ss, Typed(us, ss), Agree(us, ss),
         NEW u \in Users, NEW id \in AnyId, id \notin DOMAIN ss, NEW info \in Info,
         info.user = u
  PROVE  Inserted(us, ss, u, id, Append1(us, u, id), Put(ss, id, info))
<1> DEFINE ss2 == Put(ss, id, info)
           us2 == Append1(us, u, id)
<1>1. /\ DOMAIN ss2 = DOMAIN ss \union {id}
      /\ ss2[id] = info
      /\ \A x \in DOMAIN ss : ss2[x] = ss[x]
      /\ ss2 \in [DOMAIN ss \union {id} -> Info]
  BY DEF Put, Typed
<1>2. \A w \in Users : us[w] \in Seq(AnyId) /\ IsInjective(us[w])
  BY DEF Typed, Agree
<1>3. id \notin ToSet(us[u])
  BY DEF Agree
<1>4. /\ Append(us[u], id) \in Seq(AnyId)
      /\ Len(Append(us[u], id)) = Len(us[u]) + 1
      /\ IsInjective(Append(us[u], id))
      /\ ToSet(Append(us[u], id)) = ToSet(us[u]) \union {id}
  BY <1>2, <1>3, AppendNew
<1>5. /\ us2 \in [Users -> Seq(AnyId)]
      /\ us2[u] = Append(us[u], id)
      /\ \A w \in Users \ {u} : us2[w] = us[w]
  BY <1>4 DEF Append1, Typed
<1> HIDE DEF us2, ss2
<1>6. Typed(us2, ss2)
  BY <1>1, <1>5 DEF Typed
<1>7. ASSUME NEW w \in Users
      PROVE  IsInjective(us2[w]) /\ ToSet(us2[w]) = {x \in DOMAIN ss2 : ss2[x].user = w}
  <2>1. ToSet(us[w]) = {x \in DOMAIN ss : ss[x].user = w}
    BY DEF Agree
  <2>2. CASE w = u
    BY <1>1, <1>4, <1>5, <2>1, <2>2
  <2>3. CASE w # u
    BY <1>1, <1>2, <1>5, <2>1, <2>3
  <2>4. QED BY <2>2, <2>3
<1>8. QED BY <1>1, <1>4, <1>5, <1>6, <1>7 DEF Agree, Inserted, us2, ss2

(* A step that only moves expiry times. *)
LEMMA ExpiryKeepsAgreement ==
  ASSUME NEW us, NEW ss, NEW ss2, Typed(us, ss), Agree(us, ss),
         ss2 \in [DOMAIN ss -> Info], \A x \in DOMAIN ss : ss2[x].user = ss[x].user
  PROVE  Typed(us, ss2) /\ Agree(us, ss2)
<1>1. Typed(us, ss2)
  BY DEF Typed
<1>2. ASSUME NEW u \in Users
      PROVE  {x \in DOMAIN ss2 : ss2[x].user = u} = {x \in DOMAIN ss : ss[x].user = u}
  OBVIOUS
<1>3. QED BY <1>1, <1>2 DEF Agree

---------------------------------------------------------------------------
(* What is assumed of EBS, seen from the session manager: since EBS hands  *)
(* out every id once, the ids that logins in flight hold differ from each  *)
(* other and from the tracked ones.  This is about EBS and no promise of   *)
(* the session manager; the invariants below rest on it.                   *)
PendingIsNew ==
  /\ \A r \in DOMAIN pending :
       pending[r].id \in DOMAIN icx /\ ~Tracked(pending[r].id)
  /\ \A r, q \in DOMAIN pending : pending[r].id = pending[q].id => r = q
  /\ DOMAIN sessions \subseteq DOMAIN icx

(* The inductive invariant.  That the maps agree needs the ids of pending  *)
(* logins to be new; that they stay new needs every tracked id to have     *)
(* been handed out; and the limit needs the maps to agree, since eviction  *)
(* shortens a list only if its head is tracked for that user.              *)
IInv ==
  /\ TypeOK
  /\ IndexAgrees
  /\ LimitRespected
  /\ CleanupIsCurrent
  /\ PendingIsNew

(* A new session manager satisfies the invariant. *)
LEMMA InitInv == Init => IInv
<1> SUFFICES ASSUME Init PROVE IInv
  OBVIOUS
<1> USE EbsAssumption, ManagerAssumption DEF Init, IcxInit
<1>1. DOMAIN icx = {} /\ DOMAIN sessions = {} /\ DOMAIN pending = {}
  OBVIOUS
<1>2. userSessions \in [Users -> Seq(AnyId)] /\ \A u \in Users : userSessions[u] = <<>>
  OBVIOUS
<1>3. TypeOK
  BY <1>1, <1>2 DEF TypeOK
<1>4. IndexAgrees
  BY <1>1, <1>2 DEF IndexAgrees, Agree, IsInjective, ToSet
<1>5. LimitRespected
  BY <1>2 DEF LimitRespected
<1>6. CleanupIsCurrent /\ PendingIsNew
  BY <1>1 DEF CleanupIsCurrent, PendingIsNew
<1>7. QED BY <1>3, <1>4, <1>5, <1>6 DEF IInv

(* The part of the invariant about the rows and the pending logins, for a  *)
(* step that hands out no id and adds none to the tracking.                *)
LEMMA RowsKept ==
  ASSUME TypeOK, PendingIsNew, DOMAIN icx' = DOMAIN icx,
         DOMAIN sessions' \subseteq DOMAIN sessions,
         UNCHANGED pending \/ pending' = <<>>
  PROVE  PendingIsNew'
BY DEF TypeOK, PendingIsNew, Tracked

(* EndSession neither adds nor drops a row. *)
LEMMA EndSessionType ==
  ASSUME TypeOK, NEW id, EndSession(id)
  PROVE  DOMAIN icx' = DOMAIN icx /\ icx' \in [DOMAIN icx -> Row]
<1>1. icx \in [DOMAIN icx -> Row]
  BY DEF TypeOK
<1>2. \A x \in DOMAIN icx : WithLeft(icx[x], 0) \in Row
  BY <1>1, EbsAssumption DEF Row, WithLeft
<1>3. CASE id \in DOMAIN icx /\ icx' = [icx EXCEPT ![id] = WithLeft(@, 0)]
  BY <1>1, <1>2, <1>3
<1>4. CASE icx' = icx
  BY <1>1, <1>4
<1>5. QED BY <1>3, <1>4 DEF EndSession, EndRow

(* With use_dbc, CreateEBSSession adds one row under an unused id. *)
LEMMA CreateType ==
  ASSUME TypeOK, UseDBC, NEW u \in Users, NEW id, CreateEBSSession(id, u)
  PROVE  /\ id \in Ids \ DOMAIN icx
         /\ DOMAIN icx' = DOMAIN icx \union {id}
         /\ icx' \in [DOMAIN icx \union {id} -> Row]
<1>1. id \in Ids \ DOMAIN icx
  BY EbsAssumption DEF CreateEBSSession, NewIds
<1>2. PICK account \in AccountsOf(u) : icx' = Put(icx, id, [user |-> account, left |-> EbsLimit])
  BY <1>1 DEF CreateEBSSession
<1>3. [user |-> account, left |-> EbsLimit] \in Row
  BY EbsAssumption DEF AccountsOf, Row
<1>4. QED BY <1>1, <1>2, <1>3 DEF TypeOK, Put

(* CreateEBSSession returned: the new id is neither tracked nor pending.   *)
LEMMA LoginStep ==
  ASSUME IInv, UseDBC, NEW r \in Requests, NEW u \in Users, NEW id \in AnyId, Login(r, u, id)
  PROVE  IInv'
<1>1. /\ id \in Ids \ DOMAIN icx
      /\ DOMAIN icx' = DOMAIN icx \union {id}
      /\ icx' \in [DOMAIN icx \union {id} -> Row]
  BY CreateType DEF IInv, Login
<1>2. /\ r \notin DOMAIN pending
      /\ DOMAIN pending' = DOMAIN pending \union {r}
      /\ pending'[r] = [id |-> id, user |-> u]
      /\ \A q \in DOMAIN pending : pending'[q] = pending[q]
      /\ UNCHANGED <<sessions, userSessions, queue, validated, cookies>>
  BY DEF Login, Put
<1>3. pending' \in [DOMAIN pending' -> [id : AnyId, user : Users]]
  BY DEF IInv, TypeOK, Login, Put
<1>4. TypeOK'
  BY <1>1, <1>2, <1>3 DEF IInv, TypeOK, AnyId
<1>5. PendingIsNew'
  BY <1>1, <1>2 DEF IInv, PendingIsNew, Tracked
<1>6. IndexAgrees' /\ LimitRespected' /\ CleanupIsCurrent'
  BY <1>2 DEF IInv, IndexAgrees, Agree, LimitRespected, CleanupIsCurrent, Tracked, Expired
<1>7. QED BY <1>4, <1>5, <1>6 DEF IInv

(* TrackSession.  At the limit the head of the list is tracked for this    *)
(* user, so that removing it makes the room that the new session takes.    *)
LEMMA TrackStep ==
  ASSUME IInv, NEW r \in Requests, TrackSession(r)
  PROVE  IInv'
<1> SUFFICES ASSUME NEW sid, sid = pending[r].id, NEW usr, usr = pending[r].user,
                    NEW new, new = [user |-> usr, ttl |-> SessionTimeout]
             PROVE  IInv'
  OBVIOUS
<1>1. /\ r \in DOMAIN pending /\ Unlocked
      /\ pending' = Delete(pending, r)
      /\ UNCHANGED <<icx, queue, validated>>
      /\ cookies' \in {cookies, cookies \union {sid}}
  BY DEF TrackSession
<1>2. /\ sid \in AnyId /\ usr \in Users /\ sid \in DOMAIN icx /\ sid \notin DOMAIN sessions
      /\ new \in Info /\ new.user = usr
  BY <1>1, ManagerAssumption DEF IInv, TypeOK, PendingIsNew, Tracked, Info
<1>3. Typed(userSessions, sessions) /\ Agree(userSessions, sessions)
  BY DEF IInv, TypeOK, Typed, IndexAgrees
<1>4. \A w \in Users : Len(userSessions[w]) \in Nat
  BY <1>3 DEF Typed
<1>5. /\ Typed(userSessions', sessions') /\ Agree(userSessions', sessions')
      /\ DOMAIN sessions' \subseteq DOMAIN sessions \union {sid}
      /\ LimitRespected'
  <2>1. CASE ~AtLimit(usr)
    <3>1. /\ sessions' = Put(sessions, sid, new)
          /\ userSessions' = Append1(userSessions, usr, sid)
      BY <2>1 DEF TrackSession
    <3>2. Inserted(userSessions, sessions, usr, sid, userSessions', sessions')
      BY <1>2, <1>3, <3>1, InsertionKeepsAgreement
    <3>3. LimitRespected'
      BY <1>2, <1>4, <2>1, <3>2, ManagerAssumption DEF AtLimit, LimitRespected, IInv, Inserted
    <3>4. QED BY <3>2, <3>3 DEF Inserted
  <2>2. CASE AtLimit(usr)
    <3> SUFFICES ASSUME NEW v, v = Victim(usr), NEW ss, ss = RemovedFrom(sessions, v),
                        NEW us, us = RemovedList(userSessions, sessions, v)
                 PROVE  /\ Typed(userSessions', sessions') /\ Agree(userSessions', sessions')
                        /\ DOMAIN sessions' \subseteq DOMAIN sessions \union {sid}
                        /\ LimitRespected'
      OBVIOUS
    <3>1. /\ sessions' = Put(ss, sid, new)
          /\ userSessions' = Append1(us, usr, sid)
      BY <2>2 DEF TrackSession
    <3>2. /\ MaxConcurrentSessions > 0
          /\ Len(userSessions[usr]) = MaxConcurrentSessions
      BY <1>2, <1>4, <2>2, ManagerAssumption DEF AtLimit, IInv, LimitRespected
    <3>3. v \in ToSet(userSessions[usr])
      BY <1>2, <1>3, <3>2, ManagerAssumption DEF Victim, ToSet, Typed
    <3>4. Removed(userSessions, sessions, v, us, ss)
      BY <1>3, RemovalKeepsAgreement
    <3>5. Inserted(us, ss, usr, sid, userSessions', sessions')
      BY <1>2, <3>1, <3>4, InsertionKeepsAgreement DEF Removed
    <3>6. \A w \in Users : Len(us[w]) \in Nat
      BY <3>4 DEF Removed, Typed
    <3>7. ASSUME NEW w \in Users PROVE Len(userSessions'[w]) =< MaxConcurrentSessions
      <4>1. Len(userSessions[w]) =< MaxConcurrentSessions
        BY <3>2 DEF IInv, LimitRespected
      <4>2. CASE w = usr
        BY <1>2, <3>2, <3>3, <3>4, <3>5, <4>2, ManagerAssumption DEF Removed, Inserted
      <4>3. CASE w # usr
        BY <1>4, <3>4, <3>5, <3>6, <4>1, <4>3, ManagerAssumption DEF Removed, Inserted
      <4>4. QED BY <4>2, <4>3
    <3>8. QED BY <3>4, <3>5, <3>7 DEF LimitRespected, Removed, Inserted
  <2>3. QED BY <2>1, <2>2
<1>6. /\ DOMAIN pending' = DOMAIN pending \ {r}
      /\ pending' \in [DOMAIN pending' -> [id : AnyId, user : Users]]
      /\ \A q \in DOMAIN pending' : pending'[q] = pending[q]
  BY <1>1 DEF Delete, Restrict, IInv, TypeOK
<1>7. TypeOK'
  BY <1>1, <1>2, <1>5, <1>6 DEF IInv, TypeOK, Typed
<1>8. PendingIsNew'
  BY <1>1, <1>2, <1>5, <1>6 DEF IInv, PendingIsNew, Tracked
<1>9. CleanupIsCurrent'
  BY <1>1 DEF Unlocked, CleanupIsCurrent
<1>10. QED BY <1>5, <1>7, <1>8, <1>9 DEF IInv, IndexAgrees

(* A step that removes at most one session, and leaves the clock alone.    *)
LEMMA RemovalStep ==
  ASSUME IInv, NEW id, DOMAIN icx' = DOMAIN icx, icx' \in [DOMAIN icx -> Row],
         sessions' = RemovedFrom(sessions, id),
         userSessions' = RemovedList(userSessions, sessions, id),
         UNCHANGED <<pending, validated, cookies>>,
         queue' \subseteq queue \ {id}
  PROVE  IInv'
<1>1. Removed(userSessions, sessions, id, userSessions', sessions')
  BY RemovalKeepsAgreement DEF IInv, TypeOK, IndexAgrees, Typed
<1>2. TypeOK'
  BY <1>1 DEF Removed, Typed, IInv, TypeOK
<1>3. IndexAgrees'
  BY <1>1 DEF Removed, IndexAgrees
<1>4. LimitRespected'
  <2>1. \A u \in Users : Len(userSessions[u]) \in Nat /\ Len(userSessions'[u]) \in Nat
    BY <1>2 DEF IInv, TypeOK
  <2>2. QED BY <1>1, <2>1, ManagerAssumption DEF Removed, LimitRespected, IInv
<1>5. CleanupIsCurrent'
  BY <1>1 DEF Removed, CleanupIsCurrent, Tracked, Expired, IInv
<1>6. PendingIsNew'
  BY <1>1, RowsKept DEF Removed, IInv
<1>7. QED BY <1>2, <1>3, <1>4, <1>5, <1>6 DEF IInv

(* A step that moves expiry times and nothing else of the tracking.  It    *)
(* may put an expiry off only while the cleanup has nothing in hand.       *)
LEMMA ExpiryStep ==
  ASSUME IInv, DOMAIN icx' = DOMAIN icx, icx' \in [DOMAIN icx -> Row],
         DOMAIN sessions' = DOMAIN sessions, sessions' \in [DOMAIN sessions -> Info],
         \A x \in DOMAIN sessions : sessions'[x].user = sessions[x].user,
         Unlocked \/ \A x \in DOMAIN sessions : Expired(x) => Expired(x)',
         UNCHANGED <<userSessions, pending, queue, cookies>>, validated' \subseteq AnyId
  PROVE  IInv'
<1>1. Typed(userSessions, sessions') /\ Agree(userSessions, sessions')
  BY ExpiryKeepsAgreement DEF IInv, TypeOK, IndexAgrees, Typed
<1>2. TypeOK'
  BY <1>1 DEF Typed, IInv, TypeOK
<1>3. IndexAgrees' /\ LimitRespected'
  BY <1>1 DEF IInv, IndexAgrees, LimitRespected
<1>4. CleanupIsCurrent'
  BY DEF IInv, CleanupIsCurrent, Tracked, Expired, Unlocked
<1>5. PendingIsNew'
  BY RowsKept DEF IInv
<1>6. QED BY <1>2, <1>3, <1>4, <1>5 DEF IInv

(* The expiry that TrackSession, UpdateActivity and RefreshSession set. *)
LEMMA RenewedInfo ==
  ASSUME TypeOK, NEW id \in DOMAIN sessions,
         sessions' = [sessions EXCEPT ![id] = WithTtl(@, SessionTimeout)]
  PROVE  /\ DOMAIN sessions' = DOMAIN sessions /\ sessions' \in [DOMAIN sessions -> Info]
         /\ \A x \in DOMAIN sessions : sessions'[x].user = sessions[x].user
<1>1. sessions \in [DOMAIN sessions -> Info]
  BY DEF TypeOK
<1>2. WithTtl(sessions[id], SessionTimeout) \in Info
  BY <1>1, ManagerAssumption DEF Info, WithTtl
<1>3. WithTtl(sessions[id], SessionTimeout).user = sessions[id].user
  BY DEF WithTtl
<1>4. QED BY <1>1, <1>2, <1>3

(* Time takes every expiry one unit further, and none back. *)
LEMMA AgedInfo ==
  ASSUME TypeOK, Tick
  PROVE  /\ DOMAIN icx' = DOMAIN icx /\ icx' \in [DOMAIN icx -> Row]
         /\ DOMAIN sessions' = DOMAIN sessions /\ sessions' \in [DOMAIN sessions -> Info]
         /\ \A x \in DOMAIN sessions : sessions'[x].user = sessions[x].user
         /\ \A x \in DOMAIN sessions : Expired(x) => Expired(x)'
<1>1. \A x \in DOMAIN icx : icx[x] \in Row
  BY DEF TypeOK
<1>2. DOMAIN icx' = DOMAIN icx /\ icx' \in [DOMAIN icx -> Row]
  BY <1>1, EbsAssumption DEF Tick, IcxTick, WithLeft, Row
<1>3. \A x \in DOMAIN sessions : sessions[x] \in Info
  BY DEF TypeOK
<1>4. /\ DOMAIN sessions' = DOMAIN sessions
      /\ \A x \in DOMAIN sessions :
           sessions'[x] = [user |-> sessions[x].user,
                           ttl |-> IF sessions[x].ttl < 0 THEN sessions[x].ttl
                                                          ELSE sessions[x].ttl - 1]
      /\ sessions' = [x \in DOMAIN sessions |-> sessions'[x]]
  BY DEF Tick, WithTtl, Expired
<1>5. \A x \in DOMAIN sessions : sessions'[x] \in Info
  BY <1>3, <1>4, ManagerAssumption DEF Info
<1>6. sessions' \in [DOMAIN sessions -> Info]
  BY <1>4, <1>5
<1>7. \A x \in DOMAIN sessions : Expired(x) => Expired(x)'
  BY <1>4 DEF Expired
<1>8. QED BY <1>2, <1>4, <1>6, <1>7

(* Every step preserves the invariant. *)
LEMMA StepInv == UseDBC /\ IInv /\ [Next]_vars => IInv'
<1> SUFFICES ASSUME UseDBC, IInv, [Next]_vars PROVE IInv'
  OBVIOUS
<1>0. TypeOK /\ icx \in [DOMAIN icx -> Row]
  BY DEF IInv, TypeOK
<1>1. ASSUME NEW r \in Requests, NEW u \in Users, NEW id \in AnyId, Login(r, u, id)
      PROVE  IInv'
  BY <1>1, LoginStep
<1>2. ASSUME NEW r \in Requests, TrackSession(r) PROVE IInv'
  BY <1>2, TrackStep
<1>3. ASSUME NEW u \in Users, NEW id \in Ids, LoginLost(u, id) PROVE IInv'
  <2>1. /\ DOMAIN icx' = DOMAIN icx \union {id} /\ id \in Ids
        /\ icx' \in [DOMAIN icx \union {id} -> Row]
    BY <1>0, <1>3, CreateType DEF LoginLost
  <2>2. UNCHANGED <<sessions, userSessions, queue, pending, validated, cookies>>
    BY <1>3 DEF LoginLost, memory
  <2>3. TypeOK'
    BY <2>1, <2>2 DEF IInv, TypeOK
  <2>4. IndexAgrees' /\ LimitRespected' /\ CleanupIsCurrent'
    BY <2>2 DEF IInv, IndexAgrees, Agree, LimitRespected, CleanupIsCurrent, Tracked, Expired
  <2>5. PendingIsNew'
    BY <2>1, <2>2 DEF IInv, PendingIsNew, Tracked
  <2>6. QED BY <2>3, <2>4, <2>5 DEF IInv
<1>4. ASSUME NEW id \in AnyId, UpdateActivity(id) PROVE IInv'
  <2>1. id \in DOMAIN sessions /\ sessions' = [sessions EXCEPT ![id] = WithTtl(@, SessionTimeout)]
    BY <1>4 DEF UpdateActivity, Tracked
  <2>2. Unlocked /\ UNCHANGED <<icx, userSessions, queue, pending, validated, cookies>>
    BY <1>4 DEF UpdateActivity
  <2>3. QED BY <1>0, <2>1, <2>2, RenewedInfo, ExpiryStep DEF TypeOK
<1>5. ASSUME NEW id \in AnyId, RemoveSession(id) PROVE IInv'
  BY <1>0, <1>5, RemovalStep DEF RemoveSession, Unlocked
<1>6. ASSUME NEW id \in AnyId, RefreshValidate(id) PROVE IInv'
  BY <1>6 DEF RefreshValidate, IInv, TypeOK, IndexAgrees, Agree, LimitRespected,
              CleanupIsCurrent, PendingIsNew, Tracked, Expired
<1>7. ASSUME NEW id \in AnyId, RefreshExtend(id) PROVE IInv'
  <2>1. /\ Unlocked /\ UNCHANGED <<icx, userSessions, queue, pending, cookies>>
        /\ validated' \subseteq AnyId
    BY <1>0, <1>7 DEF RefreshExtend, TypeOK
  <2>2. CASE Tracked(id)
    BY <1>0, <1>7, <2>1, <2>2, RenewedInfo, ExpiryStep DEF RefreshExtend, Extend, Tracked
  <2>3. CASE ~Tracked(id)
    <3>1. sessions' = sessions
      BY <1>7, <2>3 DEF RefreshExtend, Extend
    <3>2. QED BY <1>0, <2>1, <3>1, ExpiryStep DEF TypeOK
  <2>4. QED BY <2>2, <2>3
<1>8. ASSUME NEW id \in AnyId, CleanupOne(id) PROVE IInv'
  <2>1. DOMAIN icx' = DOMAIN icx /\ icx' \in [DOMAIN icx -> Row]
    BY <1>0, <1>8, EndSessionType DEF CleanupOne
  <2>2. QED BY <1>8, <2>1, RemovalStep DEF CleanupOne
<1>9. ASSUME NEW id \in AnyId, Logout(id) PROVE IInv'
  <2>1. DOMAIN icx' = DOMAIN icx /\ icx' \in [DOMAIN icx -> Row]
    BY <1>0, <1>9, EndSessionType DEF Logout
  <2>2. UNCHANGED <<sessions, userSessions, queue, pending, validated>> /\ cookies' \subseteq cookies
    BY <1>9 DEF Logout, memory
  <2>3. QED BY <2>1, <2>2 DEF IInv, TypeOK, IndexAgrees, Agree, LimitRespected,
              CleanupIsCurrent, PendingIsNew, Tracked, Expired
<1>10. ASSUME NEW id \in AnyId, EbsActivity(id) PROVE IInv'
  <2>1. \A x \in DOMAIN icx : WithLeft(icx[x], EbsLimit) \in Row
    BY <1>0, EbsAssumption DEF WithLeft, Row
  <2>2. DOMAIN icx' = DOMAIN icx /\ icx' \in [DOMAIN icx -> Row]
    BY <1>0, <1>10, <2>1 DEF EbsActivity, IcxActivity, ValidateSession
  <2>3. UNCHANGED <<sessions, userSessions, queue, pending, validated, cookies>>
    BY <1>10 DEF EbsActivity, memory
  <2>4. QED BY <2>2, <2>3 DEF IInv, TypeOK, IndexAgrees, Agree, LimitRespected,
              CleanupIsCurrent, PendingIsNew, Tracked, Expired
<1>11. CASE StartCleanup
  <2>1. /\ UNCHANGED <<icx, sessions, userSessions, pending, validated, cookies>>
        /\ queue' = {id \in DOMAIN sessions : Expired(id)}
    BY <1>11 DEF StartCleanup
  <2>2. TypeOK' /\ CleanupIsCurrent'
    BY <2>1 DEF IInv, TypeOK, CleanupIsCurrent, Tracked, Expired
  <2>3. IndexAgrees' /\ LimitRespected' /\ PendingIsNew'
    BY <2>1 DEF IInv, IndexAgrees, Agree, LimitRespected, PendingIsNew, Tracked
  <2>4. QED BY <2>2, <2>3 DEF IInv
<1>12. CASE Restart
  <2>1. DOMAIN sessions' = {} /\ DOMAIN pending' = {} /\ queue' = {} /\ validated' = {}
    BY <1>12 DEF Restart
  <2>2. userSessions' \in [Users -> Seq(AnyId)] /\ \A u \in Users : userSessions'[u] = <<>>
    BY <1>12 DEF Restart
  <2>3. UNCHANGED <<icx, cookies>> /\ sessions' = <<>> /\ pending' = <<>>
    BY <1>12 DEF Restart
  <2>4. TypeOK'
    BY <2>1, <2>2, <2>3 DEF IInv, TypeOK
  <2>5. IndexAgrees'
    BY <2>1, <2>2 DEF IndexAgrees, Agree, IsInjective, ToSet
  <2>6. LimitRespected'
    BY <2>2, ManagerAssumption DEF LimitRespected
  <2>7. CleanupIsCurrent' /\ PendingIsNew'
    BY <2>1 DEF CleanupIsCurrent, PendingIsNew
  <2>8. QED BY <2>4, <2>5, <2>6, <2>7 DEF IInv
<1>13. CASE Tick
  BY <1>0, <1>13, AgedInfo, ExpiryStep DEF Tick, TypeOK
<1>14. CASE UNCHANGED vars
  BY <1>14 DEF vars, memory, IInv, TypeOK, IndexAgrees, Agree, LimitRespected,
               CleanupIsCurrent, PendingIsNew, Tracked, Expired
<1>15. QED BY <1>1, <1>2, <1>3, <1>4, <1>5, <1>6, <1>7, <1>8, <1>9, <1>10, <1>11, <1>12,
              <1>13, <1>14 DEF Next

(* Every reachable state of the session manager satisfies the invariant. *)
THEOREM Invariance == ASSUME UseDBC PROVE Spec => []IInv
<1>1. Init => IInv BY InitInv
<1>2. IInv /\ [Next]_vars => IInv' BY StepInv
<1>3. QED BY <1>1, <1>2, PTL DEF Spec

(* Type correctness of the session manager's maps. *)
THEOREM TypeCorrect == ASSUME UseDBC PROVE Spec => []TypeOK
<1>1. IInv => TypeOK BY DEF IInv
<1>2. QED BY <1>1, Invariance, PTL

(* sm.sessions and sm.userSessions agree in every state. *)
THEOREM MapsAgree == ASSUME UseDBC PROVE Spec => []IndexAgrees
<1>1. IInv => IndexAgrees BY DEF IInv
<1>2. QED BY <1>1, Invariance, PTL

(* No user ever has more tracked sessions than the limit. *)
THEOREM LimitHolds == ASSUME UseDBC PROVE Spec => []LimitRespected
<1>1. IInv => LimitRespected BY DEF IInv
<1>2. QED BY <1>1, Invariance, PTL

(* performCleanup acts on sessions that are still tracked and expired. *)
THEOREM CleanupActsOnExpired == ASSUME UseDBC PROVE Spec => []CleanupIsCurrent
<1>1. IInv => CleanupIsCurrent BY DEF IInv
<1>2. QED BY <1>1, Invariance, PTL

(* Only the login that created a session brings it into the tracking: no   *)
(* other step adds to the domain of sm.sessions.                           *)
THEOREM OnlyLoginsTrack == ASSUME UseDBC PROVE Spec => TrackedByLoginOnly
<1> DEFINE Act ==
      \A id \in DOMAIN sessions' \ DOMAIN sessions :
        \E r \in DOMAIN pending : pending[r].id = id /\ r \notin DOMAIN pending'
<1>1. IInv /\ [Next]_vars => [Act]_vars
  <2> SUFFICES ASSUME IInv, Next PROVE Act
    OBVIOUS
  <2>1. ASSUME NEW r \in Requests, TrackSession(r) PROVE Act
    <3>1. r \in DOMAIN pending /\ r \notin DOMAIN pending'
      BY <2>1 DEF TrackSession, Delete, Restrict
    <3>2. DOMAIN sessions' \subseteq DOMAIN sessions \union {pending[r].id}
      BY <2>1 DEF TrackSession, Put, RemovedFrom, Delete, Restrict
    <3>3. QED BY <3>1, <3>2
  <2>2. ASSUME NEW id \in AnyId, RemoveSession(id) \/ CleanupOne(id)
        PROVE  DOMAIN sessions' \subseteq DOMAIN sessions
    BY <2>2 DEF RemoveSession, CleanupOne, RemovedFrom, Delete, Restrict
  <2>3. ASSUME NEW id \in AnyId, UpdateActivity(id) \/ RefreshExtend(id)
        PROVE  DOMAIN sessions' \subseteq DOMAIN sessions
    BY <2>3 DEF UpdateActivity, RefreshExtend, Extend, IInv, TypeOK
  <2>4. ASSUME NEW id \in AnyId, RefreshValidate(id) \/ Logout(id) \/ EbsActivity(id)
        PROVE  sessions' = sessions
    BY <2>4 DEF RefreshValidate, Logout, EbsActivity, memory
  <2>5. ASSUME NEW r \in Requests, NEW u \in Users, NEW id \in AnyId, Login(r, u, id)
        PROVE  sessions' = sessions
    BY <2>5 DEF Login
  <2>6. ASSUME NEW u \in Users, NEW id \in Ids, LoginLost(u, id)
        PROVE  sessions' = sessions
    BY <2>6 DEF LoginLost, memory
  <2>7. CASE StartCleanup \/ Restart \/ Tick
    BY <2>7 DEF StartCleanup, Restart, Tick
  <2>8. QED BY <2>1, <2>2, <2>3, <2>4, <2>5, <2>6, <2>7 DEF Next
<1>2. QED BY <1>1, Invariance, PTL DEF Spec, TrackedByLoginOnly

(* A session that has not expired leaves the tracking only by its removal, *)
(* by a restart, or as the first of its user's list at the limit.          *)
THEOREM OnlyOldestLost == ASSUME UseDBC PROVE Spec => LosesOnlyOldest
<1> DEFINE Act ==
      \A id \in DOMAIN sessions \ DOMAIN sessions' :
        \/ Expired(id) \/ RemoveSession(id) \/ Restart
        \/ \E r \in Requests : /\ TrackSession(r)
                               /\ sessions[id].user = pending[r].user
                               /\ AtLimit(pending[r].user)
                               /\ Head(userSessions[pending[r].user]) = id
<1>1. IInv /\ [Next]_vars => [Act]_vars
  <2> SUFFICES ASSUME IInv, Next, NEW id \in DOMAIN sessions \ DOMAIN sessions'
               PROVE  \/ Expired(id) \/ RemoveSession(id) \/ Restart
                      \/ \E r \in Requests : /\ TrackSession(r)
                                             /\ sessions[id].user = pending[r].user
                                             /\ AtLimit(pending[r].user)
                                             /\ Head(userSessions[pending[r].user]) = id
    OBVIOUS
  <2>1. ASSUME NEW r \in Requests, TrackSession(r)
        PROVE  /\ sessions[id].user = pending[r].user
               /\ AtLimit(pending[r].user)
               /\ Head(userSessions[pending[r].user]) = id
    <3> SUFFICES ASSUME NEW u, u = pending[r].user, NEW list, list = userSessions[u]
                 PROVE  sessions[id].user = u /\ AtLimit(u) /\ Head(list) = id
      OBVIOUS
    <3>1. u \in Users /\ list \in Seq(AnyId)
      BY <2>1 DEF IInv, TypeOK, TrackSession
    <3>2. AtLimit(u) /\ id = Victim(u)
      BY <2>1 DEF TrackSession, Put, RemovedFrom, Delete, Restrict
    <3>3. Len(list) > 0
      BY <3>1, <3>2, ManagerAssumption DEF AtLimit
    <3>4. Head(list) = id /\ id \in ToSet(list)
      BY <3>1, <3>2, <3>3 DEF Victim, ToSet
    <3>5. sessions[id].user = u
      BY <3>1, <3>4 DEF IInv, IndexAgrees, Agree
    <3>6. QED BY <3>2, <3>4, <3>5
  <2>2. ASSUME NEW i \in AnyId, RemoveSession(i) PROVE RemoveSession(id)
    <3>1. i = id
      BY <2>2 DEF RemoveSession, RemovedFrom, Delete, Restrict
    <3>2. QED BY <2>2, <3>1
  <2>3. ASSUME NEW i \in AnyId, CleanupOne(i) PROVE Expired(id)
    <3>1. i = id /\ i \in queue
      BY <2>3 DEF CleanupOne, RemovedFrom, Delete, Restrict
    <3>2. QED BY <3>1 DEF IInv, CleanupIsCurrent
  <2>4. ASSUME NEW i \in AnyId, UpdateActivity(i) \/ RefreshExtend(i) PROVE FALSE
    BY <2>4 DEF UpdateActivity, RefreshExtend, Extend, IInv, TypeOK
  <2>5. ASSUME NEW i \in AnyId, RefreshValidate(i) \/ Logout(i) \/ EbsActivity(i) PROVE FALSE
    BY <2>5 DEF RefreshValidate, Logout, EbsActivity, memory
  <2>6. ASSUME NEW r \in Requests, NEW u \in Users, NEW i \in AnyId, Login(r, u, i) PROVE FALSE
    BY <2>6 DEF Login
  <2>7. ASSUME NEW u \in Users, NEW i \in Ids, LoginLost(u, i) PROVE FALSE
    BY <2>7 DEF LoginLost, memory
  <2>8. ASSUME StartCleanup \/ Tick PROVE FALSE
    BY <2>8 DEF StartCleanup, Tick
  <2>9. QED BY <2>1, <2>2, <2>3, <2>4, <2>5, <2>6, <2>7, <2>8 DEF Next
<1>2. QED BY <1>1, Invariance, PTL DEF Spec, LosesOnlyOldest

---------------------------------------------------------------------------
(***************************************************************************)
(* The refinement of SessionTable.  A list of ids is listed with the times *)
(* that sm.sessions has for them; what is done to the list and the map is  *)
(* then done to the listing.                                               *)
(***************************************************************************)

(* The first position removed leaves the tail. *)
LEMMA RemovedFirst ==
  ASSUME NEW S, NEW s \in Seq(S), Len(s) > 0
  PROVE  RemoveAt(s, 1) = Tail(s)
<1>1. SubSeq(s, 1, 0) = <<>>
  OBVIOUS
<1>2. Tail(s) = SubSeq(s, 2, Len(s)) /\ Tail(s) \in Seq(S)
  BY TailIsSubSeq, HeadTailProperties
<1>3. RemoveAt(s, 1) = SubSeq(s, 1, 0) \o SubSeq(s, 2, Len(s))
  BY DEF RemoveAt
<1>4. QED BY <1>1, <1>2, <1>3, ConcatEmptySeq

(* What the table says of session x. *)
Entry(ss, x) == [id |-> x, ttl |-> ss[x].ttl]
Entries(ss) == {Entry(ss, x) : x \in AnyId}

(* What is listed of a list of ids. *)
LEMMA ListedShape ==
  ASSUME NEW list \in Seq(AnyId), NEW ss
  PROVE  /\ Listed(list, ss) \in Seq(Entries(ss))
         /\ Len(Listed(list, ss)) = Len(list)
         /\ DOMAIN Listed(list, ss) = 1 .. Len(list)
         /\ \A i \in 1 .. Len(list) :
              Listed(list, ss)[i] = Entry(ss, list[i])
<1> DEFINE S == Entries(ss)
           f == [i \in 1 .. Len(list) |-> Entry(ss, list[i])]
<1>1. Listed(list, ss) = f
  BY DEF Listed, Entry
<1>2. \A i \in 1 .. Len(list) : Entry(ss, list[i]) \in S
  <2>1. \A i \in 1 .. Len(list) : list[i] \in AnyId
    OBVIOUS
  <2>2. QED BY <2>1 DEF Entries
<1> HIDE DEF S
<1>3. f \in Seq(S)
  BY <1>2, IsASeq
<1>4. Len(f) = Len(list)
  <2>1. Len(list) \in Nat /\ DOMAIN f = 1 .. Len(list)
    OBVIOUS
  <2>2. QED BY <1>3, <2>1, LenProperties
<1>5. QED BY <1>1, <1>3, <1>4 DEF S

(* Removing a position from a list of ids removes it from what is listed. *)
LEMMA ListedRemoved ==
  ASSUME NEW list \in Seq(AnyId), NEW i \in 1 .. Len(list), NEW ss, NEW ss2,
         \A j \in 1 .. Len(list) : j # i => ss2[list[j]] = ss[list[j]]
  PROVE  Listed(RemoveAt(list, i), ss2) = RemoveAt(Listed(list, ss), i)
<1> DEFINE r == RemoveAt(list, i)
           a == Listed(r, ss2)
           l == Listed(list, ss)
           b == RemoveAt(l, i)
           S == Entries(ss)
           S2 == Entries(ss2)
<1>1. /\ r \in Seq(AnyId) /\ Len(r) = Len(list) - 1
      /\ \A j \in 1 .. Len(list) - 1 : r[j] = IF j < i THEN list[j] ELSE list[j + 1]
  BY RemoveAtElements
<1>2. /\ l \in Seq(S) /\ Len(l) = Len(list)
      /\ \A j \in 1 .. Len(list) : l[j] = Entry(ss, list[j])
  BY ListedShape
<1>3. /\ b \in Seq(S) /\ Len(b) = Len(list) - 1
      /\ \A j \in 1 .. Len(list) - 1 : b[j] = IF j < i THEN l[j] ELSE l[j + 1]
  <2> HIDE DEF l, S
  <2>1. i \in 1 .. Len(l)
    BY <1>2
  <2>2. QED BY <1>2, <2>1, RemoveAtElements
<1> HIDE DEF r, l, S
<1>4. /\ a \in Seq(S2) /\ Len(a) = Len(list) - 1
      /\ \A j \in 1 .. Len(list) - 1 : a[j] = Entry(ss2, r[j])
  <2>1. /\ a \in Seq(S2) /\ Len(a) = Len(r)
        /\ \A j \in 1 .. Len(r) : a[j] = Entry(ss2, r[j])
    BY <1>1, ListedShape
  <2>2. QED BY <1>1, <2>1
<1> HIDE DEF a, b, S2
<1>5. ASSUME NEW j \in 1 .. Len(list) - 1 PROVE a[j] = b[j]
  <2>1. CASE j < i
    <3>1. j \in 1 .. Len(list) /\ j # i
      BY <2>1
    <3>2. r[j] = list[j] /\ b[j] = l[j] /\ ss2[list[j]] = ss[list[j]]
      BY <1>1, <1>3, <2>1, <3>1
    <3>3. a[j] = Entry(ss2, list[j])
      BY <1>4, <3>2
    <3>4. b[j] = Entry(ss, list[j])
      BY <1>2, <3>1, <3>2
    <3>5. QED BY <3>2, <3>3, <3>4 DEF Entry
  <2>2. CASE ~(j < i)
    <3>1. j + 1 \in 1 .. Len(list) /\ j + 1 # i
      BY <2>2
    <3>2. r[j] = list[j + 1] /\ b[j] = l[j + 1] /\ ss2[list[j + 1]] = ss[list[j + 1]]
      BY <1>1, <1>3, <2>2, <3>1
    <3>3. a[j] = Entry(ss2, list[j + 1])
      BY <1>4, <3>2
    <3>4. b[j] = Entry(ss, list[j + 1])
      BY <1>2, <3>1, <3>2
    <3>5. QED BY <3>2, <3>3, <3>4 DEF Entry
  <2>3. QED BY <2>1, <2>2
<1>6. Len(a) = Len(b) /\ \A j \in 1 .. Len(a) : a[j] = b[j]
  BY <1>3, <1>4, <1>5
<1>7. a \in Seq(S \union S2) /\ b \in Seq(S \union S2)
  BY <1>3, <1>4, SeqMonotonic
<1>8. a = b
  BY <1>6, <1>7, SeqEqual
<1>9. QED BY <1>8 DEF a, b, l, r

(* A new id at the end of a list is a new entry at the end of the listing. *)
LEMMA ListedAppended ==
  ASSUME NEW list \in Seq(AnyId), NEW id \in AnyId, NEW ss, NEW ss2,
         \A j \in 1 .. Len(list) : ss2[list[j]] = ss[list[j]]
  PROVE  Listed(Append(list, id), ss2) =
           Append(Listed(list, ss), Entry(ss2, id))
<1> DEFINE S == Entries(ss)
           S2 == Entries(ss2)
           e == Entry(ss2, id)
           r == Append(list, id)
           l == Listed(list, ss)
           a == Listed(r, ss2)
           b == Append(l, e)
<1>1. /\ r \in Seq(AnyId) /\ Len(r) = Len(list) + 1
      /\ \A j \in 1 .. Len(list) : r[j] = list[j]
      /\ r[Len(list) + 1] = id
  OBVIOUS
<1> HIDE DEF r
<1>2. /\ l \in Seq(S) /\ Len(l) = Len(list)
      /\ \A j \in 1 .. Len(list) : l[j] = Entry(ss, list[j])
  BY ListedShape
<1>3. /\ a \in Seq(S2) /\ Len(a) = Len(list) + 1
      /\ \A j \in 1 .. Len(list) + 1 : a[j] = Entry(ss2, r[j])
  <2>1. /\ a \in Seq(S2) /\ Len(a) = Len(r)
        /\ \A j \in 1 .. Len(r) : a[j] = Entry(ss2, r[j])
    BY <1>1, ListedShape
  <2>2. QED BY <1>1, <2>1
<1>4. e \in S2
  BY DEF Entries
<1> HIDE DEF l, S, S2, e
<1>5. l \in Seq(S \union S2) /\ e \in S \union S2
  BY <1>2, <1>4, SeqMonotonic
<1>6. /\ b \in Seq(S \union S2) /\ Len(b) = Len(list) + 1
      /\ \A j \in 1 .. Len(list) : b[j] = l[j]
      /\ b[Len(list) + 1] = e
  BY <1>2, <1>5, AppendProperties
<1> HIDE DEF a, b
<1>7. ASSUME NEW j \in 1 .. Len(list) + 1 PROVE a[j] = b[j]
  <2>1. CASE j \in 1 .. Len(list)
    <3>1. r[j] = list[j] /\ b[j] = l[j] /\ ss2[list[j]] = ss[list[j]]
      BY <1>1, <1>6, <2>1
    <3>2. QED BY <1>2, <1>3, <2>1, <3>1 DEF Entry
  <2>2. CASE j = Len(list) + 1
    <3>1. a[j] = Entry(ss2, id)
      BY <1>1, <1>3, <2>2
    <3>2. QED BY <1>6, <2>2, <3>1 DEF e
  <2>3. QED BY <2>1, <2>2
<1>8. a \in Seq(S \union S2)
  BY <1>3, SeqMonotonic
<1>9. a = b
  BY <1>3, <1>6, <1>7, <1>8, SeqEqual
<1>10. QED BY <1>9 DEF a, b, r, l, e

---------------------------------------------------------------------------
(* The two maps as one table. *)
TableOf(us, ss) == [u \in Users |-> Listed(us[u], ss)]

(* A table with one entry more, one less, and one renewed. *)
With(tab, u, id, t) == [tab EXCEPT ![u] = Append(@, [id |-> id, ttl |-> t])]
Without(tab, u, i) == [tab EXCEPT ![u] = RemoveAt(@, i)]
Renewed(tab, u, i) == [tab EXCEPT ![u][i] = Table!Fresh(@)]

(* The map with the time of one session extended. *)
Extended(ss, id) == [ss EXCEPT ![id] = WithTtl(@, SessionTimeout)]

(* The place of a session in its user's list, and in no other list. *)
LEMMA PlaceOf ==
  ASSUME NEW us, NEW ss, Typed(us, ss), Agree(us, ss), NEW id \in DOMAIN ss
  PROVE  \E u \in Users : \E i \in 1 .. Len(us[u]) : us[u][i] = id
<1>1. ss[id].user \in Users
  BY DEF Typed, Info
<1>2. id \in ToSet(us[ss[id].user])
  BY <1>1 DEF Agree
<1>3. us[ss[id].user] \in Seq(AnyId)
  BY <1>1 DEF Typed
<1>4. QED BY <1>1, <1>2, <1>3 DEF ToSet

(* What holds of the session at place i of the list of u. *)
LEMMA AtPlace ==
  ASSUME NEW us, NEW ss, Typed(us, ss), Agree(us, ss),
         NEW u \in Users, NEW i \in 1 .. Len(us[u]), NEW id, id = us[u][i]
  PROVE  /\ id \in DOMAIN ss /\ id \in AnyId /\ ss[id].user = u
         /\ \A w \in Users : us[w] \in Seq(AnyId) /\ IsInjective(us[w])
         /\ \A w \in Users : \A j \in 1 .. Len(us[w]) : us[w][j] \in DOMAIN ss
         /\ \A j \in 1 .. Len(us[u]) : j # i => us[u][j] # id
         /\ \A w \in Users \ {u} : \A j \in 1 .. Len(us[w]) : us[w][j] # id
<1>1. \A w \in Users : us[w] \in Seq(AnyId) /\ IsInjective(us[w])
  BY DEF Typed, Agree
<1>2. \A w \in Users : \A j \in 1 .. Len(us[w]) : us[w][j] \in ToSet(us[w])
  BY <1>1 DEF ToSet
<1>3. \A w \in Users : \A j \in 1 .. Len(us[w]) :
        us[w][j] \in DOMAIN ss /\ ss[us[w][j]].user = w
  BY <1>2 DEF Agree
<1>4. \A j \in 1 .. Len(us[u]) : j # i => us[u][j] # id
  BY <1>1 DEF IsInjective
<1>5. QED BY <1>1, <1>3, <1>4

(* A list is listed alike wherever the map says the same of its ids. *)
LEMMA ListedAlike ==
  ASSUME NEW list \in Seq(AnyId), NEW ss, NEW ss2,
         \A j \in 1 .. Len(list) : ss2[list[j]] = ss[list[j]]
  PROVE  Listed(list, ss2) = Listed(list, ss)
BY DEF Listed

(* removeSessionLocked takes one entry out of the table. *)
LEMMA TableWithout ==
  ASSUME NEW us, NEW ss, Typed(us, ss), Agree(us, ss),
         NEW u \in Users, NEW i \in 1 .. Len(us[u]), NEW id, id = us[u][i]
  PROVE  TableOf(RemovedList(us, ss, id), RemovedFrom(ss, id)) =
           Without(TableOf(us, ss), u, i)
<1> DEFINE ss2 == RemovedFrom(ss, id)
           us2 == RemovedList(us, ss, id)
<1>1. /\ id \in DOMAIN ss /\ id \in AnyId /\ ss[id].user = u
      /\ \A w \in Users : us[w] \in Seq(AnyId) /\ IsInjective(us[w])
      /\ \A w \in Users : \A j \in 1 .. Len(us[w]) : us[w][j] \in DOMAIN ss
      /\ \A j \in 1 .. Len(us[u]) : j # i => us[u][j] # id
      /\ \A w \in Users \ {u} : \A j \in 1 .. Len(us[w]) : us[w][j] # id
  BY AtPlace
<1>2. \A x \in DOMAIN ss \ {id} : ss2[x] = ss[x]
  BY DEF RemovedFrom, Delete, Restrict
<1>3. us2 = [us EXCEPT ![u] = RemoveAt(us[u], i)]
  <2>1. us2 = [us EXCEPT ![u] = ListWithout(us[u], id)]
    BY <1>1 DEF RemovedList
  <2>2. ListWithout(us[u], id) = RemoveAt(us[u], i)
    BY <1>1, ListWithoutAt
  <2>3. QED BY <2>1, <2>2
<1>4. us2[u] = RemoveAt(us[u], i) /\ \A w \in Users \ {u} : us2[w] = us[w]
  BY <1>3 DEF Typed
<1> HIDE DEF ss2, us2
<1>5. Listed(us2[u], ss2) = RemoveAt(Listed(us[u], ss), i)
  <2>1. \A j \in 1 .. Len(us[u]) : j # i => ss2[us[u][j]] = ss[us[u][j]]
    BY <1>1, <1>2
  <2>2. Listed(RemoveAt(us[u], i), ss2) = RemoveAt(Listed(us[u], ss), i)
    <3>1. PICK list \in Seq(AnyId) : list = us[u]
      BY <1>1
    <3>2. i \in 1 .. Len(list) /\ \A j \in 1 .. Len(list) : j # i => ss2[list[j]] = ss[list[j]]
      BY <2>1, <3>1
    <3>3. Listed(RemoveAt(list, i), ss2) = RemoveAt(Listed(list, ss), i)
      BY <3>2, ListedRemoved
    <3>4. QED BY <3>1, <3>3
  <2>3. QED BY <1>4, <2>2
<1>6. ASSUME NEW w \in Users \ {u} PROVE Listed(us2[w], ss2) = Listed(us[w], ss)
  <2>1. \A j \in 1 .. Len(us[w]) : ss2[us[w][j]] = ss[us[w][j]]
    BY <1>1, <1>2
  <2>2. us[w] \in Seq(AnyId)
    BY <1>1
  <2>3. Listed(us[w], ss2) = Listed(us[w], ss)
    BY <2>1, <2>2, ListedAlike, Zenon
  <2>4. QED BY <1>4, <2>3
<1>7. QED BY <1>5, <1>6 DEF Without, TableOf, us2, ss2

(* The insertion of a new session puts one entry at the end of a list. *)
LEMMA TableWith ==
  ASSUME NEW us, NEW ss, Typed(us, ss), Agree(us, ss),
         NEW u \in Users, NEW id \in AnyId, id \notin DOMAIN ss, NEW info
  PROVE  TableOf(Append1(us, u, id), Put(ss, id, info)) =
           With(TableOf(us, ss), u, id, info.ttl)
<1> DEFINE ss2 == Put(ss, id, info)
           us2 == Append1(us, u, id)
<1>1. \A w \in Users : /\ us[w] \in Seq(AnyId)
                       /\ \A j \in 1 .. Len(us[w]) : us[w][j] \in DOMAIN ss
  <2>1. \A w \in Users : us[w] \in Seq(AnyId)
    BY DEF Typed
  <2>2. \A w \in Users : \A j \in 1 .. Len(us[w]) : us[w][j] \in ToSet(us[w])
    BY <2>1 DEF ToSet
  <2>3. QED BY <2>1, <2>2 DEF Agree
<1>2. ss2[id] = info /\ \A x \in DOMAIN ss : ss2[x] = ss[x]
  BY DEF Put
<1>3. us2[u] = Append(us[u], id) /\ \A w \in Users \ {u} : us2[w] = us[w]
  BY DEF Append1, Typed
<1> HIDE DEF ss2, us2
<1>4. \A w \in Users : \A j \in 1 .. Len(us[w]) : ss2[us[w][j]] = ss[us[w][j]]
  BY <1>1, <1>2
<1>5. Listed(us2[u], ss2) = Append(Listed(us[u], ss), [id |-> id, ttl |-> info.ttl])
  <2>1. Listed(us2[u], ss2) = Append(Listed(us[u], ss), Entry(ss2, id))
    <3>1. PICK list \in Seq(AnyId) : list = us[u]
      BY <1>1
    <3>2. \A j \in 1 .. Len(list) : ss2[list[j]] = ss[list[j]]
      BY <1>4, <3>1
    <3>3. Listed(Append(list, id), ss2) = Append(Listed(list, ss), Entry(ss2, id))
      BY <3>2, ListedAppended
    <3>4. QED BY <1>3, <3>1, <3>3
  <2>2. QED BY <1>2, <2>1 DEF Entry
<1>6. ASSUME NEW w \in Users \ {u} PROVE Listed(us2[w], ss2) = Listed(us[w], ss)
  <2>1. us[w] \in Seq(AnyId) /\ \A j \in 1 .. Len(us[w]) : ss2[us[w][j]] = ss[us[w][j]]
    BY <1>1, <1>4
  <2>2. Listed(us[w], ss2) = Listed(us[w], ss)
    BY <2>1, ListedAlike, Zenon
  <2>3. QED BY <1>3, <2>2
<1>7. QED BY <1>5, <1>6 DEF With, TableOf, us2, ss2

(* A renewal changes the time of one entry and no place. *)
LEMMA TableRenewed ==
  ASSUME NEW us, NEW ss, Typed(us, ss), Agree(us, ss),
         NEW u \in Users, NEW i \in 1 .. Len(us[u]), NEW id, id = us[u][i]
  PROVE  TableOf(us, Extended(ss, id)) = Renewed(TableOf(us, ss), u, i)
<1> DEFINE ss2 == Extended(ss, id)
<1>1. /\ id \in DOMAIN ss /\ id \in AnyId /\ ss[id].user = u
      /\ \A w \in Users : us[w] \in Seq(AnyId) /\ IsInjective(us[w])
      /\ \A w \in Users : \A j \in 1 .. Len(us[w]) : us[w][j] \in DOMAIN ss
      /\ \A j \in 1 .. Len(us[u]) : j # i => us[u][j] # id
      /\ \A w \in Users \ {u} : \A j \in 1 .. Len(us[w]) : us[w][j] # id
  BY AtPlace
<1>2. /\ ss2[id].ttl = SessionTimeout
      /\ \A x \in DOMAIN ss \ {id} : ss2[x] = ss[x]
  BY <1>1 DEF Extended, WithTtl, Typed
<1> HIDE DEF ss2
<1>3. Listed(us[u], ss2) = [Listed(us[u], ss) EXCEPT ![i] = Table!Fresh(@)]
  <2>1. \A j \in 1 .. Len(us[u]) : j # i => ss2[us[u][j]] = ss[us[u][j]]
    BY <1>1, <1>2
  <2>2. DOMAIN us[u] = 1 .. Len(us[u])
    BY <1>1
  <2>3. QED BY <1>2, <2>1, <2>2 DEF Listed, Table!Fresh
<1>4. ASSUME NEW w \in Users \ {u} PROVE Listed(us[w], ss2) = Listed(us[w], ss)
  <2>1. \A j \in 1 .. Len(us[w]) : ss2[us[w][j]] = ss[us[w][j]]
    BY <1>1, <1>2
  <2>2. us[w] \in Seq(AnyId)
    BY <1>1
  <2>3. QED BY <2>1, <2>2, ListedAlike, Zenon
<1>5. QED BY <1>3, <1>4 DEF Renewed, TableOf, ss2

(* Time ages every entry of the table and moves none. *)
LEMMA TableAged ==
  ASSUME NEW us, NEW ss, Typed(us, ss), Agree(us, ss),
         NEW ss2, ss2 = [x \in DOMAIN ss |->
                           WithTtl(ss[x], IF ss[x].ttl < 0 THEN ss[x].ttl ELSE ss[x].ttl - 1)]
  PROVE  TableOf(us, ss2) =
           [u \in Users |-> [i \in DOMAIN TableOf(us, ss)[u] |->
                               Table!Older(TableOf(us, ss)[u][i])]]
<1>1. \A w \in Users : \A j \in DOMAIN us[w] : us[w][j] \in DOMAIN ss
  BY DEF Agree, ToSet
<1>2. \A x \in DOMAIN ss : ss2[x].ttl = IF ss[x].ttl < 0 THEN ss[x].ttl ELSE ss[x].ttl - 1
  BY DEF WithTtl
<1>3. ASSUME NEW w \in Users
      PROVE  Listed(us[w], ss2) =
               [i \in DOMAIN Listed(us[w], ss) |-> Table!Older(Listed(us[w], ss)[i])]
  <2>1. \A j \in DOMAIN us[w] :
          [id |-> us[w][j], ttl |-> ss2[us[w][j]].ttl] =
            Table!Older([id |-> us[w][j], ttl |-> ss[us[w][j]].ttl])
    BY <1>1, <1>2 DEF Table!Older
  <2>2. QED BY <2>1 DEF Listed
<1>4. QED BY <1>3 DEF TableOf

---------------------------------------------------------------------------
(* The session manager's steps as steps of the table. *)

(* TrackSession, with the eviction at the limit. *)
LEMMA TrackRefines ==
  ASSUME IInv, NEW r \in Requests, TrackSession(r)
  PROVE  Table!Change
<1> SUFFICES ASSUME NEW sid, sid = pending[r].id, NEW usr, usr = pending[r].user,
                    NEW new, new = [user |-> usr, ttl |-> SessionTimeout]
             PROVE  Table!Track(usr, sid) /\ usr \in Users /\ sid \in AnyId
  BY DEF Table!Change
<1> DEFINE T == TableOf(userSessions, sessions)
           e == [id |-> sid, ttl |-> SessionTimeout]
<1>1. /\ usr \in Users /\ sid \in AnyId /\ sid \notin DOMAIN sessions
      /\ new.ttl = SessionTimeout
  BY DEF IInv, TypeOK, PendingIsNew, Tracked, TrackSession
<1>2. Typed(userSessions, sessions) /\ Agree(userSessions, sessions)
  BY DEF IInv, TypeOK, Typed, IndexAgrees
<1>3. \A w \in Users : /\ userSessions[w] \in Seq(AnyId)
                       /\ \A j \in 1 .. Len(userSessions[w]) : userSessions[w][j] # sid
  <2>1. \A w \in Users : userSessions[w] \in Seq(AnyId)
    BY <1>2 DEF Typed
  <2>2. \A w \in Users : \A j \in 1 .. Len(userSessions[w]) :
          userSessions[w][j] \in ToSet(userSessions[w])
    BY <2>1 DEF ToSet
  <2>3. QED BY <1>1, <1>2, <2>1, <2>2 DEF Agree
<1>4. \A w \in Users : sid \notin Table!IdsOf(T[w])
  <2>1. ASSUME NEW w \in Users, NEW j \in DOMAIN T[w] PROVE T[w][j].id # sid
    <3>1. T[w] = Listed(userSessions[w], sessions)
      BY DEF TableOf
    <3>2. j \in 1 .. Len(userSessions[w]) /\ T[w][j].id = userSessions[w][j]
      BY <1>3, <2>1, <3>1 DEF Listed
    <3>3. QED BY <1>3, <3>2
  <2> HIDE DEF T
  <2>2. QED BY <2>1 DEF Table!IdsOf
<1>5. T[usr] = Listed(userSessions[usr], sessions) /\ Len(T[usr]) = Len(userSessions[usr])
  <2>1. T[usr] = Listed(userSessions[usr], sessions)
    BY <1>1 DEF TableOf
  <2>2. userSessions[usr] \in Seq(AnyId)
    BY <1>1, <1>3
  <2>3. Len(Listed(userSessions[usr], sessions)) = Len(userSessions[usr])
    BY <2>2, ListedShape, Zenon
  <2>4. QED BY <2>1, <2>3
<1>6. TableOf(userSessions', sessions') =
        [T EXCEPT ![usr] = Append(Table!Room(@), e)]
  <2>1. CASE ~AtLimit(usr)
    <3>1. /\ sessions' = Put(sessions, sid, new)
          /\ userSessions' = Append1(userSessions, usr, sid)
      BY <2>1 DEF TrackSession
    <3>2. TableOf(userSessions', sessions') = With(T, usr, sid, SessionTimeout)
      BY <1>1, <1>2, <3>1, TableWith
    <3>3. Table!Room(T[usr]) = T[usr]
      BY <1>5, <2>1 DEF Table!Room, AtLimit
    <3>4. QED BY <3>2, <3>3 DEF With
  <2>2. CASE AtLimit(usr)
    <3> DEFINE victim == Victim(usr)
               ss1 == RemovedFrom(sessions, victim)
               us1 == RemovedList(userSessions, sessions, victim)
    <3>1. /\ sessions' = Put(ss1, sid, new)
          /\ userSessions' = Append1(us1, usr, sid)
      BY <2>2 DEF TrackSession
    <3>2. 1 \in 1 .. Len(userSessions[usr]) /\ victim = userSessions[usr][1]
      BY <1>1, <1>3, <2>2, ManagerAssumption DEF AtLimit, Victim
    <3>3. TableOf(us1, ss1) = Without(T, usr, 1)
      BY <1>1, <1>2, <3>2, TableWithout
    <3>4. Typed(us1, ss1) /\ Agree(us1, ss1) /\ DOMAIN ss1 = DOMAIN sessions \ {victim}
      BY <1>2, RemovalKeepsAgreement DEF Removed
    <3> HIDE DEF ss1, us1, victim
    <3>5. TableOf(userSessions', sessions') =
            With(TableOf(us1, ss1), usr, sid, SessionTimeout)
      BY <1>1, <3>1, <3>4, TableWith
    <3>6. RemoveAt(T[usr], 1) = Tail(T[usr])
      <4>1. PICK list \in Seq(AnyId) : list = userSessions[usr]
        BY <1>1, <1>3
      <4>2. Listed(list, sessions) \in Seq(Entries(sessions))
        BY ListedShape
      <4>3. T[usr] \in Seq(Entries(sessions)) /\ Len(T[usr]) > 0
        BY <1>5, <3>2, <4>1, <4>2
      <4> HIDE DEF T
      <4>4. QED BY <4>3, RemovedFirst
    <3>7. Table!Room(T[usr]) = Tail(T[usr])
      BY <1>5, <2>2 DEF Table!Room, AtLimit
    <3>8. usr \in DOMAIN T
      BY <1>1 DEF TableOf
    <3> HIDE DEF T
    <3>9. QED BY <3>3, <3>5, <3>6, <3>7, <3>8 DEF With, Without
  <2>3. QED BY <2>1, <2>2
<1>7. QED BY <1>1, <1>4, <1>6 DEF Table!Track, TableOf

(* removeSessionLocked, for RemoveSession and for the cleanup. *)
LEMMA RemovalRefines ==
  ASSUME IInv, NEW id \in DOMAIN sessions,
         sessions' = RemovedFrom(sessions, id),
         userSessions' = RemovedList(userSessions, sessions, id)
  PROVE  Table!Change
<1>1. Typed(userSessions, sessions) /\ Agree(userSessions, sessions)
  BY DEF IInv, TypeOK, Typed, IndexAgrees
<1>2. PICK u \in Users : \E i \in 1 .. Len(userSessions[u]) : userSessions[u][i] = id
  BY <1>1, PlaceOf
<1>3. PICK i \in 1 .. Len(userSessions[u]) : userSessions[u][i] = id
  BY <1>2
<1>4. TableOf(userSessions', sessions') = Without(TableOf(userSessions, sessions), u, i)
  BY <1>1, <1>3, TableWithout
<1>5. i \in DOMAIN TableOf(userSessions, sessions)[u]
  BY <1>1, <1>3 DEF TableOf, Listed, Typed
<1>6. QED BY <1>4, <1>5 DEF Table!Change, Table!Drop, TableOf, Without, RemoveAt, Table!RemoveAt

(* The extension of a tracked session's time. *)
LEMMA RenewalRefines ==
  ASSUME IInv, NEW id \in DOMAIN sessions,
         sessions' = [sessions EXCEPT ![id] = WithTtl(@, SessionTimeout)],
         userSessions' = userSessions
  PROVE  Table!Change
<1>1. Typed(userSessions, sessions) /\ Agree(userSessions, sessions)
  BY DEF IInv, TypeOK, Typed, IndexAgrees
<1>2. PICK u \in Users : \E i \in 1 .. Len(userSessions[u]) : userSessions[u][i] = id
  BY <1>1, PlaceOf
<1>3. PICK i \in 1 .. Len(userSessions[u]) : userSessions[u][i] = id
  BY <1>2
<1>4. TableOf(userSessions, sessions') =
        Renewed(TableOf(userSessions, sessions), u, i)
  <2>1. sessions' = Extended(sessions, id)
    BY DEF Extended
  <2>2. TableOf(userSessions, Extended(sessions, id)) =
          Renewed(TableOf(userSessions, sessions), u, i)
    BY <1>1, <1>3, TableRenewed
  <2>3. QED BY <2>1, <2>2
<1>5. i \in DOMAIN TableOf(userSessions, sessions)[u]
  BY <1>1, <1>3 DEF TableOf, Listed, Typed
<1>6. TableOf(userSessions', sessions') = Renewed(TableOf(userSessions, sessions), u, i)
  BY <1>4
<1>7. Table!Renew(u, i)
  BY <1>6, Zenon DEF Table!Renew, TableOf, Renewed
<1>8. QED BY <1>5, <1>7, Zenon DEF Table!Change, TableOf

(* A step that leaves the two maps alone leaves the table alone. *)
LEMMA NoChange ==
  ASSUME UNCHANGED <<sessions, userSessions>>
  PROVE  UNCHANGED Table!vars
BY DEF Table!vars

(* Each step is a step of the table or leaves it alone. *)
LEMMA TableStep == IInv /\ [Next]_vars => [Table!Next]_(Table!vars)
<1> SUFFICES ASSUME IInv, [Next]_vars
             PROVE  Table!Change \/ UNCHANGED Table!vars
  BY DEF Table!Next, Table!vars
<1>1. ASSUME NEW r \in Requests, TrackSession(r) PROVE Table!Change
  BY <1>1, TrackRefines
<1>2. ASSUME NEW id \in AnyId, RemoveSession(id) \/ CleanupOne(id) PROVE Table!Change
  <2>1. /\ id \in DOMAIN sessions /\ sessions' = RemovedFrom(sessions, id)
        /\ userSessions' = RemovedList(userSessions, sessions, id)
    BY <1>2 DEF RemoveSession, CleanupOne, Tracked, IInv, CleanupIsCurrent
  <2>2. QED BY <2>1, RemovalRefines
<1>3. ASSUME NEW id \in AnyId, UpdateActivity(id) PROVE Table!Change
  BY <1>3, RenewalRefines DEF UpdateActivity, Tracked
<1>4. ASSUME NEW id \in AnyId, RefreshExtend(id) PROVE Table!Change \/ UNCHANGED Table!vars
  <2>1. CASE Tracked(id)
    BY <1>4, <2>1, RenewalRefines DEF RefreshExtend, Extend, Tracked
  <2>2. CASE ~Tracked(id)
    BY <1>4, <2>2, NoChange DEF RefreshExtend, Extend
  <2>3. QED BY <2>1, <2>2
<1>5. CASE Restart
  <2>1. TableOf(userSessions', sessions') = [u \in Users |-> <<>>]
    <3>1. \A u \in Users : userSessions'[u] = <<>>
      BY <1>5 DEF Restart
    <3>2. \A u \in Users : Listed(<<>>, sessions') = <<>>
      BY DEF Listed
    <3>3. QED BY <3>1, <3>2 DEF TableOf
  <2>2. QED BY <2>1 DEF Table!Change, Table!Forget, TableOf
<1>6. CASE Tick
  <2>1. Typed(userSessions, sessions) /\ Agree(userSessions, sessions)
    BY DEF IInv, TypeOK, Typed, IndexAgrees
  <2>2. /\ userSessions' = userSessions
        /\ sessions' = [x \in DOMAIN sessions |->
                          WithTtl(sessions[x], IF sessions[x].ttl < 0 THEN sessions[x].ttl
                                                                      ELSE sessions[x].ttl - 1)]
    BY <1>6 DEF Tick, Expired
  <2>3. TableOf(userSessions, sessions') =
          [u \in Users |-> [i \in DOMAIN TableOf(userSessions, sessions)[u] |->
                              Table!Older(TableOf(userSessions, sessions)[u][i])]]
    BY <2>1, <2>2, TableAged
  <2>4. QED BY <2>2, <2>3 DEF Table!Change, Table!Age, TableOf
<1>7. ASSUME NEW r \in Requests, NEW u \in Users, NEW id \in AnyId, Login(r, u, id)
      PROVE  UNCHANGED Table!vars
  BY <1>7, NoChange DEF Login
<1>8. ASSUME NEW u \in Users, NEW id \in Ids, LoginLost(u, id) PROVE UNCHANGED Table!vars
  BY <1>8, NoChange DEF LoginLost, memory
<1>9. ASSUME NEW id \in AnyId, RefreshValidate(id) \/ Logout(id) \/ EbsActivity(id)
      PROVE  UNCHANGED Table!vars
  BY <1>9, NoChange DEF RefreshValidate, Logout, EbsActivity, memory
<1>10. CASE StartCleanup
  BY <1>10, NoChange DEF StartCleanup
<1>11. CASE UNCHANGED vars
  BY <1>11, NoChange DEF vars, memory
<1>12. QED BY <1>1, <1>2, <1>3, <1>4, <1>5, <1>6, <1>7, <1>8, <1>9, <1>10, <1>11 DEF Next

(* A session manager without sessions is an empty table. *)
LEMMA TableStart == Init => Table!Init
<1> SUFFICES ASSUME Init PROVE Table!Init
  OBVIOUS
<1>1. \A u \in Users : userSessions[u] = <<>>
  BY DEF Init
<1>2. Listed(<<>>, sessions) = <<>>
  BY DEF Listed
<1>3. QED BY <1>1, <1>2 DEF Table!Init

(* The two maps and all that is done to them are one table of queues, of   *)
(* any length and for any number of users.                                 *)
THEOREM TableImplemented == ASSUME UseDBC PROVE Spec => ImplementsTable
BY TableStart, TableStep, Invariance, PTL DEF Spec, ImplementsTable, Table!Spec
===========================================================================
