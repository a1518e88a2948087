-------------------------- MODULE SessionManager --------------------------
(***************************************************************************)
(* handlers/session_manager.go, the login requests that call TrackSession  *)
(* at the end of Callback (handlers/auth.go), and the browsers that hold   *)
(* the session cookies they answer with.                                   *)
(*                                                                         *)
(* Every method holds sm.mutex throughout and is one action, with two      *)
(* exceptions: RefreshSession asks the database before it takes the mutex, *)
(* and performCleanup keeps the mutex over one EndSession call per expired *)
(* session.  queue holds the sessions performCleanup still has to remove:  *)
(* the mutex is taken as long as queue is not empty.                       *)
(*                                                                         *)
(* UpdateActivity, RemoveSession and RefreshSession are exported and have  *)
(* no caller in the repository yet; they are modelled as callable at any   *)
(* time, so that what holds here holds however they come to be called.     *)
(*                                                                         *)
(* Time is kept as differences: ttl is ExpiresAt minus now, in units of    *)
(* Tick, down to -1, which stands for every expiry in the past.            *)
(***************************************************************************)
EXTENDS IcxSessions, Integers, Sequences, SequencesExt

CONSTANTS
  Requests,                \* the goroutines serving /callback
  MaxConcurrentSessions,   \* 0 means no limit
  SessionTimeout,          \* session.timeout_minutes
  EnableAutoRefresh        \* session.enable_auto_refresh

ASSUME ManagerAssumption ==
  /\ MaxConcurrentSessions \in Nat
  /\ SessionTimeout \in Nat
  /\ EnableAutoRefresh \in BOOLEAN

VARIABLES
  sessions,       \* sm.sessions, by session id
  userSessions,   \* sm.userSessions; an absent key is the empty list
  queue,          \* the sessions the running performCleanup still has to remove
  pending,        \* by request: the session it created and does not track yet
  validated,      \* sessions a RefreshSession found valid, waiting for the mutex
  cookies         \* session ids that a browser holds

memory == <<sessions, userSessions, queue, pending, validated>>
vars == <<icx, memory, cookies>>

AnyId == Ids \union {NoId}
Info == [user : Users, ttl : -1 .. SessionTimeout]
WithTtl(info, t) == [user |-> info.user, ttl |-> t]

Init ==
  /\ IcxInit
  /\ sessions = <<>> /\ userSessions = [u \in Users |-> <<>>]
  /\ queue = {} /\ pending = <<>> /\ validated = {}
  /\ cookies = {}

Tracked(id) == id \in DOMAIN sessions

---------------------------------------------------------------------------
(* Deliberately faulty variants of operators below, for mutation runs. *)

(* the entry of a removed session is set to nil instead of deleted *)
RemovedToNil(ss, id) == IF id \in DOMAIN ss THEN [ss EXCEPT ![id] = NoId] ELSE ss

(* removal leaves the list of the user as it is *)
ListKept(list, id) == list

(* the limit is tested with > *)
AtLimitOffByOne(u) ==
  MaxConcurrentSessions > 0 /\ Len(userSessions[u]) > MaxConcurrentSessions

(* the newest session of the user is evicted *)
VictimNewest(u) == userSessions[u][Len(userSessions[u])]

(* performCleanup does not keep the mutex while it talks to the database *)
NeverLocked == TRUE

(* an active session goes to the end of its user's list *)
UpdateActivityToEnd(id) ==
  /\ queue = {} /\ Tracked(id) /\ EnableAutoRefresh
  /\ sessions' = [sessions EXCEPT ![id] = WithTtl(@, SessionTimeout)]
  /\ userSessions' = [userSessions EXCEPT ![sessions[id].user] =
                        Append(SelectSeq(@, LAMBDA other : other # id), id)]
  /\ UNCHANGED <<icx, queue, pending, validated, cookies>>

(* a refresh writes back the session it looked up before it took the mutex *)
ExtendResurrects(id) ==
  sessions' = IF Tracked(id)
              THEN [sessions EXCEPT ![id] = WithTtl(@, SessionTimeout)]
              ELSE Put(sessions, id, [user |-> icx[id].user, ttl |-> SessionTimeout])

---------------------------------------------------------------------------
(* now.After(session.ExpiresAt) *)
Expired(id) == sessions[id].ttl < 0

(* sm.mutex is free. *)
Unlocked == queue = {}

(* Callback: CreateEBSSession returned id.  The request goes on to         *)
(* TrackSession; nothing but the request knows the session until then.     *)
Login(r, u, id) ==
  /\ r \notin DOMAIN pending
  /\ CreateEBSSession(id, u)
  /\ pending' = Put(pending, r, [id |-> id, user |-> u])
  /\ UNCHANGED <<sessions, userSessions, queue, validated, cookies>>

(* Callback: CreateEBSSession inserted a row and its reply was lost, so    *)
(* the request fails.                                                      *)
LoginLost(u, id) == CreateEBSSession(id, u) /\ UNCHANGED <<memory, cookies>>

(* removeSessionLocked on the two maps. *)
ListWithout(list, id) ==
  LET places == {i \in DOMAIN list : list[i] = id}
  IN IF places = {} THEN list ELSE RemoveAt(list, Min(places))

RemovedFrom(ss, id) == Delete(ss, id)
RemovedList(us, ss, id) ==
  IF id \in DOMAIN ss THEN [us EXCEPT ![ss[id].user] = ListWithout(@, id)] ELSE us

(* TrackSession, then setEBSCookies.  At the limit the head of the user's  *)
(* list goes first; it is removed from the tracking only.  The answer with *)
(* the cookies may not reach the browser any more.                         *)
AtLimit(u) ==
  MaxConcurrentSessions > 0 /\ Len(userSessions[u]) >= MaxConcurrentSessions

Victim(u) == userSessions[u][1]

Append1(us, u, id) == [us EXCEPT ![u] = Append(@, id)]

TrackSession(r) ==
  /\ r \in DOMAIN pending /\ Unlocked
  /\ LET id == pending[r].id
         u == pending[r].user
         new == [user |-> u, ttl |-> SessionTimeout]
     IN /\ \/ /\ AtLimit(u)
              /\ sessions' = Put(RemovedFrom(sessions, Victim(u)), id, new)
              /\ userSessions' =
                   Append1(RemovedList(userSessions, sessions, Victim(u)), u, id)
           \/ /\ ~AtLimit(u)
              /\ sessions' = Put(sessions, id, new)
              /\ userSessions' = Append1(userSessions, u, id)
        /\ cookies' \in {cookies, cookies \union {id}}
  /\ pending' = Delete(pending, r)
  /\ UNCHANGED <<icx, queue, validated>>

(* UpdateActivity: only the expiry matters, LastActivity is never read. *)
UpdateActivity(id) ==
  /\ Unlocked /\ Tracked(id) /\ EnableAutoRefresh
  /\ sessions' = [sessions EXCEPT ![id] = WithTtl(@, SessionTimeout)]
  /\ UNCHANGED <<icx, userSessions, queue, pending, validated, cookies>>

(* RemoveSession *)
RemoveSession(id) ==
  /\ Unlocked /\ Tracked(id)
  /\ sessions' = RemovedFrom(sessions, id)
  /\ userSessions' = RemovedList(userSessions, sessions, id)
  /\ UNCHANGED <<icx, queue, pending, validated, cookies>>

(* RefreshSession up to the mutex: refused unless EBS finds it valid. *)
RefreshValidate(id) ==
  /\ EnableAutoRefresh /\ ValidateSession(id)
  /\ validated' = validated \union {id}
  /\ UNCHANGED <<icx, sessions, userSessions, queue, pending, cookies>>

(* RefreshSession under the mutex: a session that is no longer tracked is  *)
(* not refreshed.  The row in EBS is left as it is.                        *)
Extend(id) ==
  sessions' = IF Tracked(id) THEN [sessions EXCEPT ![id] = WithTtl(@, SessionTimeout)] ELSE sessions

RefreshExtend(id) ==
  /\ id \in validated /\ Unlocked
  /\ Extend(id)
  /\ validated' = validated \ {id}
  /\ UNCHANGED <<icx, userSessions, queue, pending, cookies>>

(* performCleanup: take the mutex and collect what has expired. *)
StartCleanup ==
  /\ Unlocked
  /\ queue' = {id \in DOMAIN sessions : Expired(id)}
  /\ UNCHANGED <<icx, sessions, userSessions, pending, validated, cookies>>

(* performCleanup: end one of them in EBS and stop tracking it, whether or *)
(* not EndSession succeeded.  Map iteration gives them in any order.       *)
CleanupOne(id) ==
  /\ id \in queue
  /\ EndSession(id)
  /\ sessions' = RemovedFrom(sessions, id)
  /\ userSessions' = RemovedList(userSessions, sessions, id)
  /\ queue' = queue \ {id}
  /\ UNCHANGED <<pending, validated, cookies>>

(* Logout: ends the session of the cookie in EBS, logs a failure, clears   *)
(* the cookie; the tracking is not told.                                   *)
Logout(id) ==
  /\ id \in cookies
  /\ EndSession(id)
  /\ cookies' = cookies \ {id}
  /\ UNCHANGED memory

(* The process stops and starts again: its memory is gone, EBS and the     *)
(* browsers keep what they have.                                           *)
Restart ==
  /\ sessions' = <<>> /\ userSessions' = [u \in Users |-> <<>>]
  /\ queue' = {} /\ pending' = <<>> /\ validated' = {}
  /\ UNCHANGED <<icx, cookies>>

(* A user works in EBS with the cookie. *)
EbsActivity(id) == id \in cookies /\ IcxActivity(id) /\ UNCHANGED <<memory, cookies>>

Tick ==
  /\ IcxTick
  /\ sessions' = [id \in DOMAIN sessions |->
                    WithTtl(sessions[id],
                            IF Expired(id) THEN sessions[id].ttl ELSE sessions[id].ttl - 1)]
  /\ UNCHANGED <<userSessions, queue, pending, validated, cookies>>

Next ==
  \/ \E r \in Requests :
       \/ \E u \in Users, id \in AnyId : Login(r, u, id)
       \/ TrackSession(r)
  \/ \E u \in Users, id \in Ids : LoginLost(u, id)
  \/ \E id \in AnyId :
       \/ UpdateActivity(id) \/ RemoveSession(id)
       \/ RefreshValidate(id) \/ RefreshExtend(id)
       \/ CleanupOne(id) \/ Logout(id) \/ EbsActivity(id)
  \/ StartCleanup \/ Restart \/ Tick

Spec == Init /\ [][Next]_vars

---------------------------------------------------------------------------
(* The types of the maps and of what the goroutines hold. *)
TypeOK ==
  /\ DOMAIN icx \subseteq Ids /\ icx \in [DOMAIN icx -> Row]
  /\ DOMAIN sessions \subseteq AnyId /\ sessions \in [DOMAIN sessions -> Info]
  /\ userSessions \in [Users -> Seq(AnyId)]
  /\ DOMAIN pending \subseteq Requests
  /\ pending \in [DOMAIN pending -> [id : AnyId, user : Users]]
  /\ queue \subseteq AnyId /\ validated \subseteq AnyId /\ cookies \subseteq AnyId

(* Each list names the tracked sessions of its user, each once. *)
Agree(us, ss) ==
  \A u \in Users :
    IsInjective(us[u]) /\ ToSet(us[u]) = {id \in DOMAIN ss : ss[id].user = u}

(* The two maps agree in every state: a user's list names exactly the      *)
(* tracked sessions of that user, each once.  TrackSession, eviction,      *)
(* removal and cleanup each update both maps, and the ids EBS hands out    *)
(* keep two logins from tracking the same id.                              *)
IndexAgrees == Agree(userSessions, sessions)

(* No user has more tracked sessions than max_concurrent_sessions, however *)
(* many of the user's logins are in flight.                                *)
LimitRespected ==
  MaxConcurrentSessions > 0 =>
    \A u \in Users : Len(userSessions[u]) =< MaxConcurrentSessions

(* What performCleanup collected is still tracked and still expired when   *)
(* it gets to it: no session is refreshed, evicted or removed under its    *)
(* hands, so it ends no session in EBS that its user has just extended.    *)
CleanupIsCurrent == \A id \in queue : Tracked(id) /\ Expired(id)

(* A session leaves the tracking before it has expired only because        *)
(* somebody removed it, the process restarted, or its own user signed in   *)
(* at the limit and it was the first of that user's list.                  *)
LosesOnlyOldest ==
  [][\A id \in DOMAIN sessions \ DOMAIN sessions' :
       \/ Expired(id) \/ RemoveSession(id) \/ Restart
       \/ \E r \in Requests : /\ TrackSession(r)
                              /\ sessions[id].user = pending[r].user
                              /\ AtLimit(pending[r].user)
                              /\ Head(userSessions[pending[r].user]) = id]_vars

(* Only the login that created a session brings it into the tracking: a    *)
(* RefreshSession that lost the session to a cleanup or an eviction while  *)
(* it asked the database does not bring it back.                           *)
TrackedByLoginOnly ==
  [][\A id \in DOMAIN sessions' \ DOMAIN sessions :
       \E r \in DOMAIN pending : pending[r].id = id /\ r \notin DOMAIN pending']_vars

(* The two maps are together one table: a queue of sessions per user, in   *)
(* the order of their logins.  What removal, eviction, refresh and cleanup *)
(* do to the maps they do to that table -- no step changes the order of    *)
(* what it leaves, so that "oldest" stays the first login however often    *)
(* other sessions went or were refreshed.                                  *)
Listed(list, ss) == [i \in DOMAIN list |-> [id |-> list[i], ttl |-> ss[list[i]].ttl]]

Table == INSTANCE SessionTable WITH
  table <- [u \in Users |-> Listed(userSessions[u], sessions)],
  Ids <- AnyId, Limit <- MaxConcurrentSessions, Lifetime <- SessionTimeout

ImplementsTable == Table!Spec

(* DEPENDENCIES_AND_FAILURES.md on concurrent session management:          *)
(* "Automatically terminate oldest session when limit reached".  So a      *)
(* session that TrackSession evicts is no longer valid in EBS.             *)
EvictionTerminates ==
  [][\A r \in Requests : TrackSession(r) =>
       \A id \in DOMAIN sessions \ DOMAIN sessions' : ~ValidateSession(id)']_vars
===========================================================================
