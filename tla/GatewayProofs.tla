--------------------------- MODULE GatewayProofs ---------------------------
(***************************************************************************)
(* Gateway for any users, sessions and requests, any limit, thresholds and *)
(* times.                                                                  *)
(*                                                                         *)
(* M holds the theorems about the session manager.  Its actions have the   *)
(* same definitions as those that Gateway takes from S.                    *)
(***************************************************************************)
EXTENDS Gateway, TLAPS

M == INSTANCE SessionManagerProofs WITH UseDBC <- TRUE, EnableAutoRefresh <- TRUE, validated <- {}

---------------------------------------------------------------------------
(* What happens to the requests under way: one comes, moves on or leaves.  *)
Calls == DOMAIN call \subseteq Requests /\ call \in [DOMAIN call -> Call] /\ gone \subseteq DOMAIN call

Came(r, u) ==
  /\ r \notin DOMAIN call /\ DOMAIN call' = DOMAIN call \union {r}
  /\ call'[r].stage = "lookup" /\ call'[r].user = u
  /\ \A x \in DOMAIN call : call'[x] = call[x]
  /\ Calls'

Moved(r, s) ==
  /\ r \in DOMAIN call /\ DOMAIN call' = DOMAIN call
  /\ call'[r].stage = s /\ call'[r].user = call[r].user
  /\ \A x \in DOMAIN call \ {r} : call'[x] = call[x]
  /\ Calls'

Left(r) ==
  /\ DOMAIN call' = DOMAIN call \ {r}
  /\ \A x \in DOMAIN call' : call'[x] = call[x]
  /\ Calls'

(* Callback begins. *)
LEMMA BeginComes ==
  ASSUME Calls, NEW r \in Requests, NEW u \in Users, Begin(r, u)
  PROVE  Came(r, u)
<1> DEFINE c == [stage |-> "lookup", user |-> u]
<1>1. c \in Call /\ c.stage = "lookup" /\ c.user = u
  BY DEF Call, Stages
<1>2. r \notin DOMAIN call /\ call' = [x \in DOMAIN call \union {r} |-> IF x = r THEN c ELSE call[x]]
      /\ gone' = gone
  BY DEF Begin, S!Put
<1> HIDE DEF c
<1>3. /\ DOMAIN call' = DOMAIN call \union {r} /\ call'[r] = c
      /\ \A x \in DOMAIN call : call'[x] = call[x]
      /\ call' \in [DOMAIN call \union {r} -> Call]
  BY <1>1, <1>2 DEF Calls
<1>4. QED BY <1>1, <1>2, <1>3 DEF Came, Calls

(* A request goes on to stage s. *)
LEMMA GoOnMoves ==
  ASSUME Calls, NEW r, r \in DOMAIN call, NEW s \in Stages, GoOn(r, s)
  PROVE  Moved(r, s)
<1> DEFINE c == [stage |-> s, user |-> call[r].user]
<1>1. c \in Call /\ c.stage = s /\ c.user = call[r].user
  <2>1. call[r] \in Call
    BY DEF Calls
  <2>2. QED BY <2>1 DEF Call
<1>2. call' = [x \in DOMAIN call \union {r} |-> IF x = r THEN c ELSE call[x]] /\ gone' = gone
  BY DEF GoOn, S!Put
<1> HIDE DEF c
<1>3. /\ DOMAIN call' = DOMAIN call /\ call'[r] = c
      /\ \A x \in DOMAIN call \ {r} : call'[x] = call[x]
      /\ call' \in [DOMAIN call -> Call]
  BY <1>1, <1>2 DEF Calls
<1>4. QED BY <1>1, <1>2, <1>3 DEF Moved, Calls

(* The handler returns. *)
LEMMA ReturnLeaves == ASSUME Calls, NEW r, Return(r) PROVE Left(r)
<1>1. call' = [x \in DOMAIN call \intersect (DOMAIN call \ {r}) |-> call[x]] /\ gone' = gone \ {r}
  BY DEF Return, S!Delete, S!Restrict
<1>2. QED BY <1>1 DEF Left, Calls

---------------------------------------------------------------------------
(* The actions of S are those of M. *)
LEMMA SameInit == S!Init => M!Init
BY DEF S!Init, M!Init, S!IcxInit, M!IcxInit

(* What a creation does, with and without its reply. *)
LEMMA SameLogin ==
  ASSUME NEW r, NEW u, NEW id
  PROVE  /\ S!Login(r, u, id) => M!Login(r, u, id)
         /\ S!LoginLost(u, id) => M!LoginLost(u, id)
BY DEF S!Login, M!Login, S!LoginLost, M!LoginLost, S!CreateEBSSession, M!CreateEBSSession,
       S!NewIds, M!NewIds, S!AccountsOf, M!AccountsOf, S!Put, M!Put, S!memory, M!memory

(* TrackSession. *)
LEMMA SameTrack == ASSUME NEW r, S!TrackSession(r) PROVE M!TrackSession(r)
BY DEF S!TrackSession, M!TrackSession, S!Unlocked, M!Unlocked, S!AtLimit, M!AtLimit,
       S!Victim, M!Victim, S!RemovedFrom, M!RemovedFrom, S!RemovedList, M!RemovedList,
       S!ListWithout, M!ListWithout, S!Append1, M!Append1, S!Put, M!Put, S!Delete, M!Delete,
       S!Restrict, M!Restrict, S!RemoveAt, M!RemoveAt, S!Min, M!Min

(* The cleanup. *)
LEMMA SameCleanup ==
  ASSUME NEW id
  PROVE  /\ S!StartCleanup => M!StartCleanup
         /\ S!CleanupOne(id) => M!CleanupOne(id)
BY DEF S!StartCleanup, M!StartCleanup, S!CleanupOne, M!CleanupOne, S!Unlocked, M!Unlocked,
       S!Expired, M!Expired, S!EndSession, M!EndSession, S!EndRow, M!EndRow,
       S!WithLeft, M!WithLeft, S!RemovedFrom, M!RemovedFrom, S!RemovedList, M!RemovedList,
       S!ListWithout, M!ListWithout, S!Delete, M!Delete, S!Restrict, M!Restrict,
       S!RemoveAt, M!RemoveAt, S!Min, M!Min

(* Sign-out, activity, time and restarts. *)
LEMMA SameRest ==
  ASSUME NEW id
  PROVE  /\ S!Logout(id) => M!Logout(id)
         /\ S!EbsActivity(id) => M!EbsActivity(id)
         /\ S!Tick => M!Tick
         /\ S!Restart => M!Restart
BY DEF S!Logout, M!Logout, S!EbsActivity, M!EbsActivity, S!Tick, M!Tick, S!Restart, M!Restart,
       S!EndSession, M!EndSession, S!EndRow, M!EndRow, S!WithLeft, M!WithLeft,
       S!IcxActivity, M!IcxActivity, S!ValidateSession, M!ValidateSession,
       S!IcxTick, M!IcxTick, S!WithTtl, M!WithTtl, S!Expired, M!Expired, S!memory, M!memory

---------------------------------------------------------------------------
(* The gateway drives its session manager as SessionManager allows: the    *)
(* requests create sessions for users, and track what they created.        *)
LEMMA ManagerStep ==
  ASSUME Calls, [Next]_vars
  PROVE  [M!Next]_(M!vars)
<1>1. SUFFICES M!Next \/ UNCHANGED managerVars
  BY DEF managerVars, M!vars, M!memory
<1>2. CASE UNCHANGED vars
  BY <1>2 DEF vars
<1>3. ASSUME NEW r \in Requests, NEW u \in Users, Begin(r, u) PROVE UNCHANGED managerVars
  BY <1>3 DEF Begin
<1>4. ASSUME NEW r \in Requests,
             \/ Found(r) \/ NotFound(r) \/ Admit(r) \/ Refuse(r)
             \/ RecordSuccess(r) \/ RecordFailure(r) \/ ClientLeaves(r)
      PROVE  UNCHANGED managerVars
  BY <1>4 DEF Found, NotFound, Admit, Refuse, RecordSuccess, RecordFailure, ClientLeaves
<1>5. ASSUME NEW r \in Requests, NEW id \in Ids, Create(r, id) PROVE M!Next
  <2>1. call[r].user \in Users /\ id \in M!AnyId
    BY <1>5 DEF Create, At, Calls, Call, M!AnyId
  <2>2. QED BY <1>5, <2>1, SameLogin DEF Create, M!Next
<1>6. ASSUME NEW r \in Requests, CreateFails(r) PROVE M!Next \/ UNCHANGED managerVars
  <2>1. call[r].user \in Users
    BY <1>6 DEF CreateFails, At, Calls, Call
  <2>2. QED BY <1>6, <2>1, SameLogin DEF CreateFails, M!Next
<1>7. ASSUME NEW r \in Requests, Track(r) PROVE M!Next
  BY <1>7, SameTrack DEF Track, M!Next
<1>8. ASSUME NEW id \in Ids, Logout(id) \/ CleanupOne(id) \/ EbsActivity(id) PROVE M!Next
  <2>1. id \in M!AnyId
    BY DEF M!AnyId
  <2>2. QED BY <1>8, <2>1, SameCleanup, SameRest DEF Logout, CleanupOne, EbsActivity, M!Next
<1>9. CASE StartCleanup \/ Tick \/ Restart
  BY <1>9, SameCleanup, SameRest DEF StartCleanup, Tick, Restart, M!Next
<1>10. CASE Wait
  BY <1>10 DEF Wait
<1>11. ASSUME NEW r \in Requests, Handle(r) PROVE M!Next \/ UNCHANGED managerVars
  BY <1>4, <1>5, <1>6, <1>11 DEF Handle
<1>12. QED BY <1>2, <1>3, <1>4, <1>7, <1>8, <1>9, <1>10, <1>11 DEF Next

(* The inductive invariant: the gateway's own types, and the invariant of  *)
(* the session manager, which the refinement needs for new ids.            *)
Holders ==
  /\ DOMAIN pending = {r \in DOMAIN call : call[r].stage \in {"created", "track"}}
  /\ \A r \in DOMAIN pending : pending[r].user = call[r].user

Breaker ==
  /\ mode \in {"closed", "open", "halfOpen"}
  /\ misses \in 0 .. FailureThreshold - 1 /\ probes \in 0 .. SuccessThreshold - 1
  /\ waited \in 0 .. CircuitTimeout + 1

IInv == Calls /\ Holders /\ Breaker /\ M!IInv

(* The parts of Gateway's TypeOK. *)
LEMMA Parts == IInv => TypeOK
<1>1. M!IInv => S!TypeOK
  BY DEF M!IInv, M!TypeOK, S!TypeOK, M!AnyId, S!AnyId, M!Row, S!Row, M!Info, S!Info
<1>2. QED BY <1>1 DEF IInv, TypeOK, Calls, Holders, Breaker

(* The gateway's first state. *)
LEMMA InvInit == Init => IInv
<1> SUFFICES ASSUME Init PROVE IInv
  OBVIOUS
<1>1. M!EbsAssumption /\ M!ManagerAssumption
  BY GatewayAssumption DEF M!EbsAssumption, M!ManagerAssumption
<1>2. M!IInv
  BY <1>1, SameInit, M!InitInv DEF Init
<1>3. Calls /\ DOMAIN call = {}
  BY DEF Init, Calls
<1>4. DOMAIN pending = {}
  BY DEF Init, S!Init
<1>5. Holders
  BY <1>3, <1>4 DEF Holders
<1>6. Breaker
  BY GatewayAssumption DEF Init, B!Init, Breaker
<1>7. QED BY <1>2, <1>3, <1>5, <1>6 DEF IInv

(* The breaker keeps to its counts. *)
LEMMA BreakerKept == ASSUME Breaker, [Next]_vars PROVE Breaker'
<1> USE GatewayAssumption DEF Breaker
<1>1. ASSUME UNCHANGED breakerVars PROVE Breaker'
  BY <1>1 DEF breakerVars
<1>2. ASSUME B!Miss \/ B!Trip \/ B!ProbeFails PROVE Breaker'
  BY <1>2 DEF B!Miss, B!Trip, B!ProbeFails, B!Open
<1>3. ASSUME B!Hit \/ B!ProbeSucceeds \/ B!Recover PROVE Breaker'
  BY <1>3 DEF B!Hit, B!ProbeSucceeds, B!Recover
<1>4. ASSUME B!Test \/ B!Wait PROVE Breaker'
  BY <1>4 DEF B!Test, B!Wait
<1>5. ASSUME NEW r \in Requests, (\E u \in Users : Begin(r, u)) \/ Handle(r) \/ Track(r) \/ ClientLeaves(r)
      PROVE  Breaker'
  BY <1>1, <1>2, <1>3, <1>4, <1>5
  DEF Handle, Begin, Found, NotFound, Admit, Refuse, Create, CreateFails, RecordSuccess,
      RecordFailure, Track, ClientLeaves
<1>6. ASSUME NEW id \in Ids, Logout(id) \/ CleanupOne(id) \/ EbsActivity(id) PROVE Breaker'
  BY <1>1, <1>6 DEF Logout, CleanupOne, EbsActivity, Alone
<1>7. CASE StartCleanup \/ Tick \/ Wait
  BY <1>1, <1>4, <1>7 DEF StartCleanup, Tick, Wait, Alone
<1>8. CASE Restart
  BY <1>8 DEF Restart
<1>9. QED BY <1>1, <1>5, <1>6, <1>7, <1>8 DEF Next, vars

(* Each request that comes, moves on or leaves keeps the sessions that are *)
(* held in step with the stages.                                           *)
LEMMA HoldersKept ==
  ASSUME IInv, NEW r \in Requests,
         (\E u \in Users : Begin(r, u)) \/ Handle(r) \/ Track(r) \/ ClientLeaves(r)
  PROVE  Calls' /\ Holders'
<1>1. Calls /\ Holders
  BY DEF IInv
<1>2. CASE \E u \in Users : Begin(r, u)
  <2>1. PICK u \in Users : Came(r, u)
    BY <1>1, <1>2, BeginComes
  <2>2. UNCHANGED pending
    BY <1>2 DEF Begin, managerVars
  <2>3. QED BY <1>1, <2>1, <2>2 DEF Came, Holders
<1>3. CASE Found(r) \/ Admit(r) \/ RecordSuccess(r) \/ CreateFails(r)
  <2>1. PICK s \in Stages : /\ Moved(r, s)
                            /\ s \in {"created", "track"} <=> call[r].stage \in {"created", "track"}
    <3>1. {"admission", "create", "failed", "track"} \subseteq Stages
      BY DEF Stages
    <3>2. QED BY <1>1, <1>3, <3>1, GoOnMoves DEF Found, Admit, RecordSuccess, CreateFails, At
  <2>2. UNCHANGED pending
    BY <1>3 DEF Found, Admit, RecordSuccess, CreateFails, managerVars, S!LoginLost, S!memory
  <2>3. QED BY <1>1, <2>1, <2>2 DEF Moved, Holders
<1>4. CASE NotFound(r) \/ Refuse(r) \/ RecordFailure(r)
  <2>1. Left(r) /\ r \in DOMAIN call /\ call[r].stage \in {"lookup", "admission", "failed"}
    BY <1>1, <1>4, ReturnLeaves DEF NotFound, Refuse, RecordFailure, At
  <2>2. UNCHANGED pending
    BY <1>4 DEF NotFound, Refuse, RecordFailure, managerVars
  <2>3. QED BY <1>1, <2>1, <2>2 DEF Left, Holders
<1>5. ASSUME NEW id \in Ids, Create(r, id) PROVE Calls' /\ Holders'
  <2>1. Moved(r, "created")
    BY <1>1, <1>5, GoOnMoves DEF Create, At, Stages
  <2>2. pending' = [x \in DOMAIN pending \union {r} |->
                      IF x = r THEN [id |-> id, user |-> call[r].user] ELSE pending[x]]
    BY <1>5 DEF Create, S!Login, S!Put
  <2>3. DOMAIN pending' = DOMAIN pending \union {r} /\ pending'[r].user = call[r].user
    BY <2>2
  <2>4. \A x \in DOMAIN pending \ {r} : pending'[x] = pending[x]
    BY <2>2
  <2>5. QED BY <1>1, <2>1, <2>3, <2>4 DEF Moved, Holders
<1>6. CASE Track(r)
  <2>1. Left(r)
    BY <1>1, <1>6, ReturnLeaves DEF Track
  <2>2. /\ DOMAIN pending' = DOMAIN pending \ {r}
        /\ \A x \in DOMAIN pending' : pending'[x] = pending[x]
    BY <1>6 DEF Track, S!TrackSession, S!Delete, S!Restrict
  <2>3. QED BY <1>1, <2>1, <2>2 DEF Left, Holders
<1>7. CASE ClientLeaves(r)
  BY <1>1, <1>7 DEF ClientLeaves, managerVars, Calls, Holders
<1>8. QED BY <1>2, <1>3, <1>4, <1>5, <1>6, <1>7 DEF Handle

(* Every step keeps the invariant. *)
LEMMA InvNext == IInv /\ [Next]_vars => IInv'
<1> SUFFICES ASSUME IInv, [Next]_vars PROVE IInv'
  OBVIOUS
<1>1. M!EbsAssumption /\ M!ManagerAssumption
  BY GatewayAssumption DEF M!EbsAssumption, M!ManagerAssumption
<1>2. M!IInv'
  BY <1>1, ManagerStep, M!StepInv DEF IInv
<1>3. Breaker'
  BY BreakerKept DEF IInv
<1>4. ASSUME UNCHANGED <<pending, call, gone>> PROVE Calls' /\ Holders'
  BY <1>4 DEF IInv, Calls, Holders
<1>5. Calls' /\ Holders'
  <2>1. CASE UNCHANGED vars
    BY <1>4, <2>1 DEF vars, managerVars
  <2>2. ASSUME NEW id \in Ids, Logout(id) \/ CleanupOne(id) \/ EbsActivity(id)
        PROVE  Calls' /\ Holders'
    BY <1>4, <2>2 DEF Logout, CleanupOne, EbsActivity, Alone, S!Logout, S!CleanupOne,
                      S!EbsActivity, S!memory
  <2>3. CASE StartCleanup \/ Tick \/ Wait
    BY <1>4, <2>3 DEF StartCleanup, Tick, Wait, Alone, S!StartCleanup, S!Tick, managerVars
  <2>4. CASE Restart
    <3>1. DOMAIN call' = {} /\ DOMAIN pending' = {} /\ gone' = {} /\ call' = <<>>
      BY <2>4 DEF Restart, S!Restart
    <3>2. QED BY <3>1 DEF Calls, Holders
  <2>5. ASSUME NEW r \in Requests,
               (\E u \in Users : Begin(r, u)) \/ Handle(r) \/ Track(r) \/ ClientLeaves(r)
        PROVE  Calls' /\ Holders'
    BY <2>5, HoldersKept
  <2>6. QED BY <2>1, <2>2, <2>3, <2>4, <2>5 DEF Next
<1>6. QED BY <1>2, <1>3, <1>5 DEF IInv

(* The invariant holds always. *)
THEOREM Invariance == Spec => []IInv
BY InvInit, InvNext, PTL DEF Spec

(* The gateway's types and who holds a session, in every state. *)
THEOREM TypeCorrect == Spec => []TypeOK
BY Parts, Invariance, PTL

(* The session manager of the gateway is SessionManager: what is proved of *)
(* the one holds of the other.                                             *)
THEOREM ManagerImplemented == Spec => M!Spec
<1>1. Init => M!Init
  BY SameInit DEF Init
<1>2. IInv /\ [Next]_vars => [M!Next]_(M!vars)
  BY ManagerStep DEF IInv
<1>3. QED BY <1>1, <1>2, Invariance, PTL DEF Spec, M!Spec

(* In the gateway too the two maps are one queue per user: sign-ins, their *)
(* failures, sign-outs and cleanups keep them in the order of login, and   *)
(* no user has more sessions in it than the limit.                         *)
THEOREM TableInGateway == Spec => M!ImplementsTable /\ []M!LimitRespected
<1>1. M!EbsAssumption /\ M!ManagerAssumption
  BY GatewayAssumption DEF M!EbsAssumption, M!ManagerAssumption
<1>2. M!Spec => M!ImplementsTable
  BY <1>1, M!TableImplemented
<1>3. M!Spec => []M!LimitRespected
  BY <1>1, M!LimitHolds
<1>4. QED BY <1>2, <1>3, ManagerImplemented, PTL

---------------------------------------------------------------------------
(* A step of the database that creates no session does not show. *)
LEMMA RowsHidden ==
  ASSUME DOMAIN icx' = DOMAIN icx, \A id \in DOMAIN icx : icx'[id].user = icx[id].user
  PROVE  Made' = Made
BY DEF Made

(* A session that ends does not. *)
LEMMA EndHidden == ASSUME M!IInv, NEW id, S!EndSession(id) PROVE Made' = Made
<1>1. icx \in [DOMAIN icx -> M!Row]
  BY DEF M!IInv, M!TypeOK
<1>2. CASE id \in DOMAIN icx /\ icx' = [icx EXCEPT ![id] = S!WithLeft(@, 0)]
  <2>1. S!WithLeft(icx[id], 0).user = icx[id].user
    BY DEF S!WithLeft
  <2>2. DOMAIN icx' = DOMAIN icx /\ icx'[id] = S!WithLeft(icx[id], 0)
        /\ \A x \in DOMAIN icx \ {id} : icx'[x] = icx[x]
    BY <1>1, <1>2
  <2>3. QED BY <2>1, <2>2, RowsHidden
<1>3. CASE icx' = icx
  BY <1>3, RowsHidden
<1>4. QED BY <1>2, <1>3 DEF S!EndSession, S!EndRow

(* Nor do time and activity in EBS. *)
LEMMA TimeHidden == ASSUME M!IInv, S!IcxTick \/ \E id : S!IcxActivity(id) PROVE Made' = Made
<1>1. icx \in [DOMAIN icx -> M!Row]
  BY DEF M!IInv, M!TypeOK
<1>2. CASE S!IcxTick
  <2>1. \A id \in DOMAIN icx : \A t : S!WithLeft(icx[id], t).user = icx[id].user
    BY DEF S!WithLeft
  <2>2. DOMAIN icx' = DOMAIN icx /\ \A id \in DOMAIN icx : icx'[id].user = icx[id].user
    BY <1>2, <2>1 DEF S!IcxTick
  <2>3. QED BY <2>2, RowsHidden
<1>3. ASSUME NEW id, S!IcxActivity(id) PROVE Made' = Made
  <2>1. S!WithLeft(icx[id], EbsLimit).user = icx[id].user
    BY DEF S!WithLeft
  <2>2. id \in DOMAIN icx /\ icx' = [icx EXCEPT ![id] = S!WithLeft(@, EbsLimit)]
    BY <1>3 DEF S!IcxActivity, S!ValidateSession
  <2>3. DOMAIN icx' = DOMAIN icx /\ icx'[id] = S!WithLeft(icx[id], EbsLimit)
        /\ \A x \in DOMAIN icx \ {id} : icx'[x] = icx[x]
    BY <1>1, <2>2
  <2>4. QED BY <2>1, <2>3, RowsHidden
<1>4. QED BY <1>2, <1>3

(* A creation shows as one new session. *)
LEMMA CreationShows ==
  ASSUME M!IInv, NEW u \in Users, NEW id \in Ids, S!CreateEBSSession(id, u)
  PROVE  /\ \E account \in S!AccountsOf(u) : Made' = Made \union {<<id, account>>}
         /\ \A v \in Users : <<id, v>> \notin Made
<1>1. icx \in [DOMAIN icx -> M!Row]
  BY DEF M!IInv, M!TypeOK
<1>0. PICK account \in S!AccountsOf(u) :
        icx' = S!Put(icx, id, [user |-> account, left |-> EbsLimit])
  BY DEF S!CreateEBSSession
<1> DEFINE row == [user |-> account, left |-> EbsLimit]
<1>2. row.user = account
  OBVIOUS
<1>3. id \notin DOMAIN icx /\ icx' = [x \in DOMAIN icx \union {id} |-> IF x = id THEN row ELSE icx[x]]
  BY <1>0, GatewayAssumption DEF S!CreateEBSSession, S!NewIds, S!Put
<1> HIDE DEF row
<1>4. /\ DOMAIN icx' = DOMAIN icx \union {id} /\ icx'[id].user = account
      /\ \A x \in DOMAIN icx : icx'[x].user = icx[x].user
  BY <1>2, <1>3
<1>5. QED BY <1>3, <1>4 DEF Made

(* A request that comes, moves on among the stages of a sign-in, or leaves.*)
LEMMA ComeShows ==
  ASSUME NEW r, NEW u, Came(r, u)
  PROVE  Signing' = Signing \union {<<r, u>>} /\ Failing' = Failing
BY DEF Came, Signing, Failing

(* It changes its place. *)
LEMMA MoveShows ==
  ASSUME NEW r, NEW s, Moved(r, s)
  PROVE  /\ Failing' = (Failing \ {r}) \union (IF s = "failed" THEN {r} ELSE {})
         /\ Signing' = (Signing \ {<<r, call[r].user>>})
                          \union (IF s \in {"lookup", "admission", "create"}
                                  THEN {<<r, call[r].user>>} ELSE {})
BY DEF Moved, Signing, Failing

(* It is gone. *)
LEMMA LeaveShows ==
  ASSUME NEW r, r \in DOMAIN call, Left(r)
  PROVE  /\ Failing' = Failing \ {r}
         /\ Signing' = Signing \ {<<r, call[r].user>>}
BY DEF Left, Signing, Failing

---------------------------------------------------------------------------
(* No request is under way for SignOn that is not for the gateway. *)
LEMMA BusyIsCalling ==
  ASSUME Calls, Holders, NEW r, Promise!Busy(r)
  PROVE  r \in DOMAIN call
BY DEF Promise!Busy, Signing, Carrying, Failing, Holders

(* Callback begins: so does a sign-in, of a user who is let in. *)
LEMMA BeginRefines ==
  ASSUME IInv, NEW r \in Requests, NEW u \in Users, Begin(r, u)
  PROVE  Promise!Begin(r, u)
<1>1. Calls /\ Holders
  BY DEF IInv
<1>2. Came(r, u) /\ u \in Allowed
  BY <1>1, BeginComes DEF Begin, Admits
<1>3. ~Promise!Busy(r)
  BY <1>1, <1>2, BusyIsCalling DEF Came
<1>4. Signing' = Signing \union {<<r, u>>} /\ Failing' = Failing
  BY <1>2, ComeShows
<1>5. UNCHANGED <<icx, pending, cookies>>
  BY DEF Begin, managerVars
<1>6. Carrying' = Carrying /\ Made' = Made
  BY <1>5 DEF Carrying, Made
<1>7. QED BY <1>2, <1>3, <1>4, <1>5, <1>6 DEF Promise!Begin

(* The look-up finds the user, the breaker lets the call through, and its  *)
(* success is recorded: the sign-in is where it was.                       *)
LEMMA PassingRefines ==
  ASSUME IInv, NEW r \in Requests, Found(r) \/ Admit(r) \/ RecordSuccess(r)
  PROVE  UNCHANGED Promise!vars
<1>1. Calls /\ Holders
  BY DEF IInv
<1>2. UNCHANGED <<icx, pending, cookies>>
  BY DEF Found, Admit, RecordSuccess, managerVars
<1>3. Carrying' = Carrying /\ Made' = Made
  BY <1>2 DEF Carrying, Made
<1>4. CASE RecordSuccess(r)
  <2>1. Moved(r, "track") /\ call[r].stage = "created"
    BY <1>1, <1>4, GoOnMoves DEF RecordSuccess, At, Stages
  <2>2. Signing' = Signing /\ Failing' = Failing
    BY <2>1 DEF Moved, Signing, Failing
  <2>3. QED BY <1>2, <1>3, <2>2 DEF Promise!vars
<1>5. CASE Found(r) \/ Admit(r)
  <2>1. PICK s \in {"admission", "create"} :
          Moved(r, s) /\ call[r].stage \in {"lookup", "admission"}
    BY <1>1, <1>5, GoOnMoves DEF Found, Admit, At, Stages
  <2>2. Signing' = Signing /\ Failing' = Failing
    BY <2>1 DEF Moved, Signing, Failing
  <2>3. QED BY <1>2, <1>3, <2>2 DEF Promise!vars
<1>6. QED BY <1>4, <1>5

(* The user is not found, or the breaker is open: the sign-in ends. *)
LEMMA RefusalRefines ==
  ASSUME IInv, NEW r \in Requests, NotFound(r) \/ Refuse(r)
  PROVE  \E u \in Users : Promise!GiveUp(r, u)
<1>1. Calls
  BY DEF IInv
<1>2. r \in DOMAIN call /\ call[r].stage \in {"lookup", "admission"} /\ Left(r)
  BY <1>1, ReturnLeaves DEF NotFound, Refuse, At
<1>3. call[r].user \in Users
  BY <1>1, <1>2 DEF Calls, Call
<1>4. UNCHANGED <<icx, pending, cookies>>
  BY DEF NotFound, Refuse, managerVars
<1>5. Carrying' = Carrying /\ Made' = Made
  BY <1>4 DEF Carrying, Made
<1>6. Signing' = Signing \ {<<r, call[r].user>>} /\ Failing' = Failing
  <2>1. r \notin Failing
    BY <1>2 DEF Failing
  <2>2. QED BY <1>2, <2>1, LeaveShows
<1>7. Promise!GiveUp(r, call[r].user)
  BY <1>4, <1>5, <1>6 DEF Promise!GiveUp
<1>8. QED BY <1>3, <1>7

(* The database answers with a new session. *)
LEMMA CreateRefines ==
  ASSUME IInv, NEW r \in Requests, NEW id \in Ids, Create(r, id)
  PROVE  \E u \in Users : Promise!Issue(r, u, id)
<1> SUFFICES ASSUME NEW u, u = call[r].user PROVE u \in Users /\ Promise!Issue(r, u, id)
  OBVIOUS
<1>1. Calls /\ Holders /\ M!IInv
  BY DEF IInv
<1>2. r \in DOMAIN call /\ call[r].stage = "create" /\ Moved(r, "created")
  BY <1>1, GoOnMoves DEF Create, At, Stages
<1>3. u \in Users
  BY <1>1, <1>2 DEF Calls, Call
<1>4. /\ \E account \in S!AccountsOf(u) : Made' = Made \union {<<id, account>>}
      /\ \A v \in Users : <<id, v>> \notin Made
  BY <1>1, <1>3, CreationShows DEF Create, S!Login
<1>5. <<r, u>> \in Signing
  BY <1>2 DEF Signing
<1>6. Signing' = Signing \ {<<r, u>>} /\ Failing' = Failing
  <2>1. r \notin Failing
    BY <1>2 DEF Failing
  <2>2. QED BY <1>2, <2>1, MoveShows
<1>7. Carrying' = Carrying \union {<<r, id>>} /\ cookies' = cookies
  <2>1. r \notin DOMAIN pending
    BY <1>1, <1>2 DEF Holders
  <2>2. pending' = [x \in DOMAIN pending \union {r} |->
                      IF x = r THEN [id |-> id, user |-> call[r].user] ELSE pending[x]]
    BY DEF Create, S!Login, S!Put
  <2>3. /\ DOMAIN pending' = DOMAIN pending \union {r} /\ pending'[r].id = id
        /\ \A x \in DOMAIN pending : pending'[x] = pending[x]
    BY <2>1, <2>2
  <2>4. QED BY <2>3 DEF Carrying, Create, S!Login
<1>8. QED BY <1>3, <1>4, <1>5, <1>6, <1>7 DEF Promise!Issue

(* The creation fails, with or without a session that nobody learns of. *)
LEMMA FailureRefines ==
  ASSUME IInv, NEW r \in Requests, CreateFails(r)
  PROVE  \E u \in Users : Promise!GiveUp(r, u) \/ \E id \in Ids : Promise!Issue(r, u, id)
<1> SUFFICES ASSUME NEW u, u = call[r].user
             PROVE  u \in Users /\ (Promise!GiveUp(r, u) \/ \E id \in Ids : Promise!Issue(r, u, id))
  OBVIOUS
<1>1. Calls /\ M!IInv
  BY DEF IInv
<1>2. r \in DOMAIN call /\ call[r].stage = "create" /\ Moved(r, "failed")
  BY <1>1, GoOnMoves DEF CreateFails, At, Stages
<1>3. u \in Users
  BY <1>1, <1>2 DEF Calls, Call
<1>4. Signing' = Signing \ {<<r, u>>} /\ Failing' = Failing \union {r} /\ <<r, u>> \in Signing
  <2>1. <<r, u>> \in Signing /\ r \notin Failing
    BY <1>2 DEF Signing, Failing
  <2>2. QED BY <1>2, <2>1, MoveShows
<1>5. UNCHANGED <<pending, cookies>> /\ Carrying' = Carrying
  <2>1. UNCHANGED <<pending, cookies>>
    BY DEF CreateFails, managerVars, S!LoginLost, S!memory
  <2>2. QED BY <2>1 DEF Carrying
<1>6. CASE UNCHANGED managerVars
  <2>1. Made' = Made
    BY <1>6 DEF managerVars, Made
  <2>2. QED BY <1>3, <1>4, <1>5, <2>1 DEF Promise!GiveUp
<1>7. ASSUME NEW id \in Ids, S!LoginLost(u, id) PROVE Promise!Issue(r, u, id)
  <2>1. /\ \E account \in S!AccountsOf(u) : Made' = Made \union {<<id, account>>}
        /\ \A v \in Users : <<id, v>> \notin Made
    BY <1>1, <1>3, <1>7, CreationShows DEF S!LoginLost
  <2>2. [v \in Users |-> S!AccountsOf(v)][u] = S!AccountsOf(u)
    BY <1>3
  <2>3. PICK account \in S!AccountsOf(u) : Made' = Made \union {<<id, account>>}
    BY <2>1
  <2>4. \E a \in [v \in Users |-> S!AccountsOf(v)][u] : Made' = Made \union {<<id, a>>}
    BY <2>2, <2>3
  <2>5. QED BY <1>4, <1>5, <2>1, <2>4 DEF Promise!Issue
<1>8. QED BY <1>3, <1>6, <1>7 DEF CreateFails

(* The failure is recorded and the browser gets an error. *)
LEMMA ErrorRefines ==
  ASSUME IInv, NEW r \in Requests, RecordFailure(r)
  PROVE  Promise!AnswerError(r)
<1>1. r \in DOMAIN call /\ call[r].stage = "failed" /\ Left(r)
  BY ReturnLeaves DEF IInv, RecordFailure, At
<1>2. UNCHANGED <<icx, pending, cookies>>
  BY DEF RecordFailure, managerVars
<1>3. Carrying' = Carrying /\ Made' = Made
  BY <1>2 DEF Carrying, Made
<1>4. Signing' = Signing /\ Failing' = Failing \ {r}
  <2>1. <<r, call[r].user>> \notin Signing
    BY <1>1 DEF Signing
  <2>2. QED BY <1>1, <2>1, LeaveShows
<1>5. QED BY <1>2, <1>3, <1>4 DEF Promise!AnswerError

(* The cookies are set: the session this request made is handed out. *)
LEMMA TrackRefines ==
  ASSUME IInv, NEW r \in Requests, Track(r)
  PROVE  \E id \in Ids : Promise!Deliver(r, id)
<1> SUFFICES ASSUME NEW id, id = pending[r].id PROVE id \in Ids /\ Promise!Deliver(r, id)
  OBVIOUS
<1>1. Calls /\ Holders /\ M!PendingIsNew /\ DOMAIN icx \subseteq Ids
  BY DEF IInv, M!IInv, M!TypeOK
<1>2. r \in DOMAIN pending /\ r \in DOMAIN call /\ call[r].stage \in {"created", "track"} /\ Left(r)
  BY <1>1, ReturnLeaves DEF Track, At, S!TrackSession
<1>3. id \in Ids
  BY <1>1, <1>2 DEF M!PendingIsNew
<1>4. Signing' = Signing /\ Failing' = Failing
  <2>1. <<r, call[r].user>> \notin Signing /\ r \notin Failing
    BY <1>2 DEF Signing, Failing
  <2>2. QED BY <1>2, <2>1, LeaveShows
<1>5. <<r, id>> \in Carrying /\ Carrying' = Carrying \ {<<r, id>>}
  <2>1. /\ DOMAIN pending' = DOMAIN pending \ {r}
        /\ \A x \in DOMAIN pending' : pending'[x] = pending[x]
    BY DEF Track, S!TrackSession, S!Delete, S!Restrict
  <2>2. QED BY <1>2, <2>1 DEF Carrying
<1>6. cookies' \in {cookies, cookies \union {id}} /\ icx' = icx
  BY DEF Track, S!TrackSession
<1>7. Made' = Made
  BY <1>6 DEF Made
<1>8. QED BY <1>3, <1>4, <1>5, <1>6, <1>7 DEF Promise!Deliver

(* Sign-outs, cleanups, activity and time make no session and give none    *)
(* out; a restart forgets what was under way.                              *)
LEMMA OthersRefine ==
  ASSUME IInv,
         \/ \E id \in Ids : Logout(id) \/ CleanupOne(id) \/ EbsActivity(id)
         \/ StartCleanup \/ Tick \/ Wait \/ Restart
         \/ \E r \in Requests : ClientLeaves(r)
  PROVE  \/ \E id \in Ids : Promise!SignOut(id)
         \/ Promise!Stop \/ UNCHANGED Promise!vars
<1>1. M!IInv
  BY DEF IInv
<1>2. ASSUME UNCHANGED <<call, pending>>
      PROVE  Signing' = Signing /\ Carrying' = Carrying /\ Failing' = Failing
  BY <1>2 DEF Signing, Carrying, Failing
<1>3. ASSUME NEW id \in Ids, Logout(id) PROVE Promise!SignOut(id)
  <2>1. UNCHANGED <<call, pending>> /\ cookies' = cookies \ {id}
    BY <1>3 DEF Logout, Alone, S!Logout, S!memory
  <2>2. Made' = Made
    BY <1>1, <1>3, EndHidden DEF Logout, S!Logout
  <2>3. QED BY <1>2, <2>1, <2>2 DEF Promise!SignOut
<1>4. ASSUME NEW id \in Ids, CleanupOne(id) PROVE UNCHANGED Promise!vars
  <2>1. UNCHANGED <<call, pending, cookies>>
    BY <1>4 DEF CleanupOne, Alone, S!CleanupOne
  <2>2. Made' = Made
    BY <1>1, <1>4, EndHidden DEF CleanupOne, S!CleanupOne
  <2>3. QED BY <1>2, <2>1, <2>2 DEF Promise!vars
<1>5. ASSUME Tick \/ \E id \in Ids : EbsActivity(id) PROVE UNCHANGED Promise!vars
  <2>1. UNCHANGED <<call, pending, cookies>>
    BY <1>5 DEF EbsActivity, Tick, Alone, S!EbsActivity, S!Tick, S!memory
  <2>2. Made' = Made
    BY <1>1, <1>5, TimeHidden DEF EbsActivity, Tick, S!EbsActivity, S!Tick
  <2>3. QED BY <1>2, <2>1, <2>2 DEF Promise!vars
<1>6. ASSUME StartCleanup \/ Wait \/ \E r \in Requests : ClientLeaves(r)
      PROVE  UNCHANGED Promise!vars
  <2>1. UNCHANGED <<call, pending, cookies, icx>>
    BY <1>6 DEF StartCleanup, Wait, ClientLeaves, Alone, S!StartCleanup, managerVars
  <2>2. Made' = Made
    BY <2>1 DEF Made
  <2>3. QED BY <1>2, <2>1, <2>2 DEF Promise!vars
<1>7. ASSUME Restart PROVE Promise!Stop
  <2>1. DOMAIN call' = {} /\ DOMAIN pending' = {} /\ UNCHANGED <<icx, cookies>>
    BY <1>7 DEF Restart, S!Restart
  <2>2. Made' = Made
    BY <2>1 DEF Made
  <2>3. Signing' = {} /\ Carrying' = {} /\ Failing' = {}
    BY <2>1 DEF Signing, Carrying, Failing
  <2>4. QED BY <2>1, <2>2, <2>3 DEF Promise!Stop
<1>8. QED BY <1>3, <1>4, <1>5, <1>6, <1>7

(* Each step of the gateway is a step of SignOn or none. *)
LEMMA StepRefines ==
  ASSUME IInv, [Next]_vars
  PROVE  [Promise!Next]_(Promise!vars)
<1>1. SUFFICES Promise!Next \/ UNCHANGED Promise!vars
  OBVIOUS
<1>2. CASE UNCHANGED vars
  <2>1. UNCHANGED <<call, pending, icx, cookies>>
    BY <1>2 DEF vars, managerVars
  <2>2. QED BY <2>1 DEF Promise!vars, Signing, Carrying, Failing, Made
<1>3. ASSUME NEW r \in Requests, NEW u \in Users, Begin(r, u) PROVE Promise!Next
  BY <1>3, BeginRefines DEF Promise!Next
<1>4. ASSUME NEW r \in Requests, Found(r) \/ Admit(r) \/ RecordSuccess(r)
      PROVE  UNCHANGED Promise!vars
  BY <1>4, PassingRefines
<1>5. ASSUME NEW r \in Requests, NotFound(r) \/ Refuse(r) PROVE Promise!Next
  BY <1>5, RefusalRefines DEF Promise!Next
<1>6. ASSUME NEW r \in Requests, NEW id \in Ids, Create(r, id) PROVE Promise!Next
  BY <1>6, CreateRefines DEF Promise!Next
<1>7. ASSUME NEW r \in Requests, CreateFails(r) PROVE Promise!Next
  BY <1>7, FailureRefines DEF Promise!Next
<1>8. ASSUME NEW r \in Requests, RecordFailure(r) PROVE Promise!Next
  BY <1>8, ErrorRefines DEF Promise!Next
<1>9. ASSUME NEW r \in Requests, Track(r) PROVE Promise!Next
  BY <1>9, TrackRefines DEF Promise!Next
<1>10. ASSUME NEW r \in Requests, Handle(r) PROVE Promise!Next \/ UNCHANGED Promise!vars
  BY <1>4, <1>5, <1>6, <1>7, <1>8, <1>10 DEF Handle
<1>11. ASSUME \/ \E id \in Ids : Logout(id) \/ CleanupOne(id) \/ EbsActivity(id)
              \/ StartCleanup \/ Tick \/ Wait \/ Restart
              \/ \E r \in Requests : ClientLeaves(r)
       PROVE  Promise!Next \/ UNCHANGED Promise!vars
  BY <1>11, OthersRefine DEF Promise!Next
<1>12. QED BY <1>2, <1>3, <1>9, <1>10, <1>11 DEF Next

(* At first nobody signs in and nobody holds a session. *)
LEMMA InitRefines == Init => Promise!Init
<1> SUFFICES ASSUME Init PROVE Promise!Init
  OBVIOUS
<1>1. DOMAIN call = {} /\ DOMAIN pending = {} /\ DOMAIN icx = {} /\ cookies = {}
  BY DEF Init, S!Init, S!IcxInit
<1>2. Signing = {} /\ Carrying = {} /\ Failing = {} /\ Made = {}
  BY <1>1 DEF Signing, Carrying, Failing, Made
<1>3. QED BY <1>1, <1>2 DEF Promise!Init

(* Whatever fails, is lost or is repeated on the way, a sign-in makes at   *)
(* most one session, for a user who is let in, and hands out no other.     *)
THEOREM SignOnImplemented == Spec => ImplementsSignOn
<1>1. Init => Promise!Init
  BY InitRefines
<1>2. IInv /\ [Next]_vars => [Promise!Next]_(Promise!vars)
  BY StepRefines
<1>3. QED BY <1>1, <1>2, Invariance, PTL DEF Spec, ImplementsSignOn, Promise!Spec

---------------------------------------------------------------------------
(* No session comes to life again. *)
LEMMA EndedBefore ==
  ASSUME M!IInv, NEW x, S!ValidateSession(x)',
         S!IcxTick \/ (\E id : S!EndSession(id) \/ S!IcxActivity(id)) \/ icx' = icx
  PROVE  S!ValidateSession(x)
<1>1. icx \in [DOMAIN icx -> M!Row] /\ x \in DOMAIN icx' /\ icx'[x].left > 0
  BY DEF M!IInv, M!TypeOK, S!ValidateSession
<1>2. ASSUME NEW t, t \in Nat PROVE \A y : S!WithLeft(y, t).left = t
  BY DEF S!WithLeft
<1>3. CASE S!IcxTick
  <2>1. x \in DOMAIN icx
    BY <1>1, <1>3 DEF S!IcxTick
  <2>2. ~(icx[x].left > 0) => icx'[x].left = 0
    BY <1>3, <2>1 DEF S!IcxTick, S!WithLeft
  <2>3. QED BY <1>1, <2>1, <2>2 DEF S!ValidateSession
<1>4. ASSUME NEW id, S!EndSession(id) PROVE S!ValidateSession(x)
  <2>1. CASE icx' = icx
    BY <1>1, <2>1 DEF S!ValidateSession
  <2>2. CASE id \in DOMAIN icx /\ icx' = [icx EXCEPT ![id] = S!WithLeft(@, 0)]
    <3>1. x \in DOMAIN icx /\ (x # id => icx'[x] = icx[x])
      BY <1>1, <2>2
    <3>2. x # id
      <4>1. icx'[id] = S!WithLeft(icx[id], 0)
        BY <1>1, <2>2
      <4>2. icx'[id].left = 0
        BY <1>2, <4>1
      <4>3. QED BY <1>1, <4>2
    <3>3. QED BY <1>1, <3>1, <3>2 DEF S!ValidateSession
  <2>3. QED BY <1>4, <2>1, <2>2 DEF S!EndSession, S!EndRow
<1>5. ASSUME NEW id, S!IcxActivity(id) PROVE S!ValidateSession(x)
  BY <1>1, <1>5 DEF S!IcxActivity, S!ValidateSession
<1>6. CASE icx' = icx
  BY <1>1, <1>6 DEF S!ValidateSession
<1>7. QED BY <1>3, <1>4, <1>5, <1>6

(* A session that somebody knows of is not astray. *)
LEMMA StrayBefore ==
  ASSUME M!IInv, NEW id, Stray(id)',
         S!IcxTick \/ (\E i : S!EndSession(i) \/ S!IcxActivity(i)) \/ icx' = icx,
         id \in DOMAIN sessions => id \in DOMAIN sessions', UNCHANGED pending
  PROVE  Stray(id)
BY EndedBefore DEF Stray, S!Tracked

(* What TrackSession does to the two places a session can be known in. *)
LEMMA TrackMoves ==
  ASSUME NEW r, S!TrackSession(r)
  PROVE  /\ r \in DOMAIN pending /\ pending[r].id \in DOMAIN sessions' /\ icx' = icx
         /\ DOMAIN pending' = DOMAIN pending \ {r}
         /\ \A x \in DOMAIN pending' : pending'[x] = pending[x]
BY DEF S!TrackSession, S!Put, S!Delete, S!Restrict

(* A session that is alive is out of the gateway's sight only after a lost *)
(* reply, a restart, an eviction or a cleanup that could not end it.       *)
THEOREM StraysHaveCauses == Spec => StraysForCause
<1> DEFINE Cause(id) == \/ Restart \/ CleanupOne(id)
                        \/ \E r \in Requests : CreateFails(r) \/ (Track(r) /\ id \in DOMAIN sessions)
           Act == \A id \in Ids : Stray(id)' /\ ~Stray(id) => Cause(id)
<1>1. IInv /\ [Next]_vars => [Act]_vars
  <2> SUFFICES ASSUME IInv, Next, NEW id \in Ids, Stray(id)' PROVE Stray(id) \/ Cause(id)
    OBVIOUS
  <2>1. M!IInv /\ Holders
    BY DEF IInv
  <2>2. ASSUME UNCHANGED <<icx, sessions, pending>> PROVE Stray(id)
    BY <2>1, <2>2, StrayBefore
  <2>3. ASSUME NEW r \in Requests,
               \/ \E u \in Users : Begin(r, u)
               \/ Found(r) \/ NotFound(r) \/ Admit(r) \/ Refuse(r)
               \/ RecordSuccess(r) \/ RecordFailure(r) \/ ClientLeaves(r)
        PROVE  Stray(id)
    BY <2>2, <2>3 DEF Begin, Found, NotFound, Admit, Refuse, RecordSuccess, RecordFailure,
                      ClientLeaves, managerVars
  <2>4. ASSUME NEW r \in Requests, NEW new \in Ids, Create(r, new) PROVE Stray(id)
    <3>1. r \notin DOMAIN pending /\ new \notin DOMAIN icx /\ UNCHANGED sessions
      BY <2>4, GatewayAssumption DEF Create, S!Login, S!CreateEBSSession, S!NewIds
    <3>2. pending' = [x \in DOMAIN pending \union {r} |->
                        IF x = r THEN [id |-> new, user |-> call[r].user] ELSE pending[x]]
      BY <2>4 DEF Create, S!Login, S!Put
    <3>3. /\ r \in DOMAIN pending' /\ pending'[r].id = new
          /\ \A x \in DOMAIN pending : x \in DOMAIN pending' /\ pending'[x] = pending[x]
      BY <3>1, <3>2
    <3>4. id # new
      BY <3>3 DEF Stray
    <3>5. id \in DOMAIN icx' => id \in DOMAIN icx /\ icx'[id] = icx[id]
      BY <2>4, <3>4 DEF Create, S!Login, S!CreateEBSSession, S!Put
    <3>6. QED BY <3>1, <3>3, <3>5 DEF Stray, S!ValidateSession, S!Tracked
  <2>5. ASSUME NEW r \in Requests, Track(r) PROVE Stray(id) \/ Cause(id)
    <3>1. CASE id \in DOMAIN sessions
      BY <2>5, <3>1
    <3>2. CASE id \notin DOMAIN sessions
      <4>1. S!TrackSession(r)
        BY <2>5 DEF Track
      <4>2. S!ValidateSession(id) /\ id \notin DOMAIN sessions'
        BY <2>1, <4>1, TrackMoves, EndedBefore DEF Stray, S!Tracked
      <4>3. \A x \in DOMAIN pending : pending[x].id # id
        BY <4>1, <4>2, TrackMoves DEF Stray
      <4>4. QED BY <3>2, <4>2, <4>3 DEF Stray, S!Tracked
    <3>3. QED BY <3>1, <3>2
  <2>6. ASSUME NEW r \in Requests, CreateFails(r) PROVE Cause(id)
    BY <2>6
  <2>7. ASSUME NEW i \in Ids, Logout(i) \/ EbsActivity(i) PROVE Stray(id)
    BY <2>1, <2>7, StrayBefore DEF Logout, EbsActivity, S!Logout, S!EbsActivity, S!memory
  <2>8. ASSUME NEW i \in Ids, CleanupOne(i) PROVE Stray(id) \/ Cause(id)
    <3>1. CASE i = id
      BY <2>8, <3>1
    <3>2. CASE i # id
      <4>1. S!EndSession(i) /\ UNCHANGED pending /\ (id \in DOMAIN sessions => id \in DOMAIN sessions')
        BY <2>8, <3>2 DEF CleanupOne, S!CleanupOne, S!RemovedFrom, S!Delete, S!Restrict
      <4>2. QED BY <2>1, <4>1, StrayBefore
    <3>3. QED BY <3>1, <3>2
  <2>9. CASE Tick
    BY <2>1, <2>9, StrayBefore DEF Tick, S!Tick
  <2>10. CASE StartCleanup \/ Wait
    BY <2>2, <2>10 DEF StartCleanup, S!StartCleanup, Wait, managerVars
  <2>11. CASE Restart
    BY <2>11
  <2>12. ASSUME NEW r \in Requests, Handle(r) PROVE Stray(id) \/ Cause(id)
    BY <2>3, <2>4, <2>6, <2>12 DEF Handle
  <2>13. QED BY <2>3, <2>5, <2>7, <2>8, <2>9, <2>10, <2>11, <2>12 DEF Next
<1>2. QED BY <1>1, Invariance, PTL DEF Spec, StraysForCause
============================================================================
