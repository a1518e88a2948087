------------------------------ MODULE Gateway ------------------------------
(***************************************************************************)
(* Callback (handlers/auth.go) as a whole: several requests go through its *)
(* stages side by side, over one circuit breaker, one session manager and  *)
(* one database, while clients go away, users work in EBS and sign out,    *)
(* the cleanup runs and the process restarts.                              *)
(*                                                                         *)
(* The parts are the modules of the components.  The session manager and   *)
(* the database are SessionManager, of which the gateway takes exactly the *)
(* steps that have a caller: nothing calls UpdateActivity, RefreshSession  *)
(* or RemoveSession.  The breaker is BreakerLifecycle, which CircuitBreaker*)
(* is proved to implement; it may stay open longer than its timeout.  Of   *)
(* LoginStates and Authorization a request needs their answer alone, so it *)
(* begins when both have let it pass.                                      *)
(***************************************************************************)
EXTENDS Naturals

CONSTANTS
  Users, Allowed,          \* Allowed: the users AuthorizeUser lets in
  Homonyms,                \* see IcxSessions
  Ids, NoId, EbsLimit,
  Requests, MaxConcurrentSessions, SessionTimeout,
  FailureThreshold, SuccessThreshold, CircuitTimeout

VARIABLES
  icx, sessions, userSessions, queue, pending, cookies,   \* see SessionManager
  mode, misses, probes, waited,                           \* see BreakerLifecycle
  call,     \* by request: the stage of Callback it is in, and its user
  gone      \* the requests whose context is cancelled: the client went away

(* No RefreshSession is ever under way. *)
S == INSTANCE SessionManager WITH UseDBC <- TRUE, EnableAutoRefresh <- TRUE, validated <- {}

B == INSTANCE BreakerLifecycle WITH Timeout <- CircuitTimeout

managerVars == <<icx, sessions, userSessions, queue, pending, cookies>>
breakerVars == <<mode, misses, probes, waited>>
vars == <<managerVars, breakerVars, call, gone>>

ASSUME GatewayAssumption ==
  /\ Allowed \subseteq Users /\ Homonyms \subseteq Users \X Users
  /\ NoId \notin Ids /\ EbsLimit \in Nat \ {0}
  /\ MaxConcurrentSessions \in Nat /\ SessionTimeout \in Nat
  /\ FailureThreshold \in Nat \ {0} /\ SuccessThreshold \in Nat \ {0}
  /\ CircuitTimeout \in Nat

Stages == {"lookup", "admission", "create", "created", "failed", "track"}
Call == [stage : Stages, user : Users]

Init == S!Init /\ B!Init /\ call = <<>> /\ gone = {}

At(r, s) == r \in DOMAIN call /\ call[r].stage = s
GoOn(r, s) == call' = S!Put(call, r, [stage |-> s, user |-> call[r].user]) /\ UNCHANGED gone

---------------------------------------------------------------------------
(* Deliberately faulty variants of operators below, for mutation runs. *)

(* the context outlives its request *)
ReturnKeepsGone(r) == call' = S!Delete(call, r) /\ UNCHANGED gone

(* a denied user is logged and let through *)
AdmitsAll(u) == TRUE

(* the creation is retried like the look-up *)
RecordFailureRetries(r) ==
  /\ At(r, "failed")
  /\ \/ B!Miss \/ B!Trip \/ B!ProbeFails
     \/ mode = "open" /\ UNCHANGED breakerVars
  /\ GoOn(r, "admission")
  /\ UNCHANGED managerVars

(* a sign-out stops tracking the session before it ends it *)
LogoutUntracks(id) ==
  /\ S!EndSession(id)
  /\ sessions' = S!RemovedFrom(sessions, id)
  /\ userSessions' = S!RemovedList(userSessions, sessions, id)
  /\ id \in cookies /\ cookies' = cookies \ {id}
  /\ UNCHANGED <<queue, pending, breakerVars, call, gone>>

(* a refused request waits for the breaker to close *)
RefuseWaits(r) ==
  /\ At(r, "admission") /\ mode = "open"
  /\ UNCHANGED vars

(* the cleanup leaves out whatever it cannot end *)
CleanupOneSkips(id) ==
  /\ id \in queue /\ queue' = queue \ {id}
  /\ UNCHANGED <<icx, sessions, userSessions, pending, cookies, breakerVars, call, gone>>

---------------------------------------------------------------------------
(* The handler returns. *)
Return(r) == call' = S!Delete(call, r) /\ gone' = gone \ {r}

(* AuthorizeUser's answer; see Authorization. *)
Admits(u) == u \in Allowed

(* Callback up to AuthorizeUser: the state is good, the provider's answer  *)
(* too, and the user may come in.  Every other request ends here and       *)
(* changes nothing.                                                        *)
Begin(r, u) ==
  /\ r \notin DOMAIN call /\ Admits(u)
  /\ call' = S!Put(call, r, [stage |-> "lookup", user |-> u])
  /\ UNCHANGED <<managerVars, breakerVars, gone>>

(* ExecuteWithRetry over GetUserByEmail ends with the user's name ... *)
Found(r) ==
  /\ At(r, "lookup") /\ r \notin gone
  /\ GoOn(r, "admission")
  /\ UNCHANGED <<managerVars, breakerVars>>

(* ... or with an error. *)
NotFound(r) == At(r, "lookup") /\ Return(r) /\ UNCHANGED <<managerVars, breakerVars>>

(* ExecuteWithCircuitBreaker: canExecute lets the call through, as a test  *)
(* of an open breaker whose time-out has passed, ...                       *)
Admit(r) ==
  /\ At(r, "admission")
  /\ \/ mode # "open" /\ UNCHANGED breakerVars
     \/ B!Test
  /\ GoOn(r, "create")
  /\ UNCHANGED managerVars

(* ... or refuses it. *)
Refuse(r) ==
  /\ At(r, "admission") /\ mode = "open"
  /\ Return(r)
  /\ UNCHANGED <<managerVars, breakerVars>>

(* CreateEBSSession answers with an id. *)
Create(r, id) ==
  /\ At(r, "create") /\ r \notin gone
  /\ S!Login(r, call[r].user, id)
  /\ GoOn(r, "created")
  /\ UNCHANGED breakerVars

(* CreateEBSSession fails: the database does, the user's account has ended *)
(* meanwhile, or the client is gone.  All are alike to the breaker.  The   *)
(* session may exist all the same.                                         *)
CreateFails(r) ==
  /\ At(r, "create")
  /\ \/ UNCHANGED managerVars
     \/ \E id \in Ids : S!LoginLost(call[r].user, id)
  /\ GoOn(r, "failed")
  /\ UNCHANGED breakerVars

(* recordSuccess, which changes nothing on a breaker opened meanwhile, and *)
(* recordFailure, after which Callback answers with an error.              *)
RecordSuccess(r) ==
  /\ At(r, "created")
  /\ \/ B!Hit \/ B!ProbeSucceeds \/ B!Recover
     \/ mode = "open" /\ UNCHANGED breakerVars
  /\ GoOn(r, "track")
  /\ UNCHANGED managerVars

RecordFailure(r) ==
  /\ At(r, "failed")
  /\ \/ B!Miss \/ B!Trip \/ B!ProbeFails
     \/ mode = "open" /\ UNCHANGED breakerVars
  /\ Return(r)
  /\ UNCHANGED managerVars

(* TrackSession, setEBSCookies and the redirect.  Neither looks at the     *)
(* context; the answer does not reach a client that is gone, nor one that  *)
(* WriteTimeout has cut off.                                               *)
Track(r) ==
  /\ At(r, "track")
  /\ S!TrackSession(r)
  /\ r \in gone => cookies' = cookies
  /\ Return(r)
  /\ UNCHANGED breakerVars

ClientLeaves(r) ==
  /\ r \in DOMAIN call \ gone
  /\ gone' = gone \union {r}
  /\ UNCHANGED <<managerVars, breakerVars, call>>

(* The other handlers and goroutines, and the world outside. *)
Alone == UNCHANGED <<breakerVars, call, gone>>

Logout(id) == S!Logout(id) /\ Alone
StartCleanup == S!StartCleanup /\ Alone
CleanupOne(id) == S!CleanupOne(id) /\ Alone
EbsActivity(id) == S!EbsActivity(id) /\ Alone
Tick == S!Tick /\ Alone
Wait == B!Wait /\ UNCHANGED <<managerVars, call, gone>>

(* main: the process ends and starts again with a closed breaker.  The     *)
(* five seconds of Shutdown are not enough for every request.              *)
Restart ==
  /\ S!Restart /\ call' = <<>> /\ gone' = {}
  /\ mode' = "closed" /\ misses' = 0 /\ probes' = 0 /\ waited' = 0

Handle(r) ==
  \/ Found(r) \/ NotFound(r) \/ Admit(r) \/ Refuse(r)
  \/ \E id \in Ids : Create(r, id)
  \/ CreateFails(r) \/ RecordSuccess(r) \/ RecordFailure(r)

Next ==
  \/ \E r \in Requests :
       (\E u \in Users : Begin(r, u)) \/ Handle(r) \/ Track(r) \/ ClientLeaves(r)
  \/ \E id \in Ids : Logout(id) \/ CleanupOne(id) \/ EbsActivity(id)
  \/ StartCleanup \/ Tick \/ Wait \/ Restart

Spec == Init /\ [][Next]_vars

(* Each handler runs until it answers, given that the database and the     *)
(* provider answer in the end or the client goes away: the gateway sets    *)
(* them no limit of its own.  The cleanup's ticker fires for ever, each    *)
(* EndSession takes five seconds at most, and the mutex lets every writer  *)
(* in some time, however often it is taken meanwhile.  Nothing is assumed  *)
(* of clients, of the clock or of EBS.                                     *)
Fairness ==
  /\ \A r \in Requests : WF_vars(Handle(r)) /\ SF_vars(Track(r))
  /\ WF_vars(StartCleanup)
  /\ WF_vars(\E id \in Ids : CleanupOne(id))

FairSpec == Spec /\ Fairness

---------------------------------------------------------------------------
(* The types, and who holds a session: a request between the answer of     *)
(* CreateEBSSession and TrackSession, for its own user.                    *)
TypeOK ==
  /\ S!TypeOK
  /\ DOMAIN call \subseteq Requests /\ call \in [DOMAIN call -> Call]
  /\ gone \subseteq DOMAIN call
  /\ DOMAIN pending = {r \in DOMAIN call : call[r].stage \in {"created", "track"}}
  /\ \A r \in DOMAIN pending : pending[r].user = call[r].user
  /\ mode \in {"closed", "open", "halfOpen"}
  /\ misses \in 0 .. FailureThreshold - 1 /\ probes \in 0 .. SuccessThreshold - 1
  /\ waited \in 0 .. CircuitTimeout + 1

(* What each sign-in comes to: at most one session in EBS, only if         *)
(* authorization let its user in, and only this session for the browser -- *)
(* whatever fails, is lost or is repeated on the way.  The session is the  *)
(* user's own, or that of somebody whose address is the user's name.       *)
Signing ==
  LET early == {r \in DOMAIN call : call[r].stage \in {"lookup", "admission", "create"}}
  IN {<<r, call[r].user>> : r \in early}
Carrying == {<<r, pending[r].id>> : r \in DOMAIN pending}
Failing == {r \in DOMAIN call : call[r].stage = "failed"}
Made == {<<id, icx[id].user>> : id \in DOMAIN icx}

Promise == INSTANCE SignOn WITH
  Accounts <- [u \in Users |-> S!AccountsOf(u)],
  signing <- Signing, carrying <- Carrying, failing <- Failing, made <- Made, held <- cookies

ImplementsSignOn == Promise!Spec

(* A session that is alive in EBS while the gateway knows nothing of it:   *)
(* no cleanup will end it.                                                 *)
Stray(id) ==
  /\ S!ValidateSession(id) /\ ~S!Tracked(id)
  /\ \A r \in DOMAIN pending : pending[r].id # id

(* A session goes astray only when the reply of its creation is lost, the  *)
(* process restarts, its user's next sign-in evicts it, or the cleanup     *)
(* fails to end it.  Neither a sign-out whose EndSession fails, nor a      *)
(* client that goes away, nor a breaker that opens meanwhile has that      *)
(* effect: the cleanup still gets to the session.                          *)
StraysForCause ==
  [][\A id \in Ids : Stray(id)' /\ ~Stray(id) =>
       \/ Restart \/ CleanupOne(id)
       \/ \E r \in Requests : CreateFails(r) \/ (Track(r) /\ id \in DOMAIN sessions)]_vars

(* A callback comes to an end, whatever the breaker, the cleanup and the   *)
(* other requests do.                                                      *)
CallbackEnds == \A r \in Requests : r \in DOMAIN call ~> r \notin DOMAIN call

(* An expired session does not stay tracked, whether or not EBS ends it.   *)
ExpiredIsDropped ==
  \A id \in Ids : (S!Tracked(id) /\ S!Expired(id)) ~> ~(S!Tracked(id) /\ S!Expired(id))

(* RESILIENCE_SUMMARY.md on session management: "Auto-refresh keeps active *)
(* users logged in".  So the cleanup ends no session whose user has worked *)
(* in EBS since the clock last moved.                                      *)
ActiveUsersStay ==
  [][\A id \in DOMAIN icx : CleanupOne(id) /\ icx[id].left = EbsLimit => UNCHANGED icx]_vars
============================================================================
