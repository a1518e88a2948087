---------------------------- MODULE IcxSessions ----------------------------
(***************************************************************************)
(* The EBS table ICX_SESSIONS, as the gateway sees it: db/oracle.go        *)
(* creates, validates and ends sessions in it, and EBS itself keeps a      *)
(* session alive while its user works and lets it time out otherwise.      *)
(* Every operator is an action on the variable icx alone; the modules that *)
(* call the database conjoin it with what they do themselves.              *)
(*                                                                         *)
(* A row holds the session's user and the time it stays valid, left.  A    *)
(* disabled row and a row that timed out are alike to ValidateSession, the *)
(* only reader: both have left = 0.                                        *)
(***************************************************************************)
EXTENDS Naturals, Functions

CONSTANTS
  Users,      \* the users, by the e-mail address they sign in with
  Ids,        \* the session ids EBS hands out, each once
  NoId,       \* what createSession may return instead of an id: "-1"
  UseDBC,     \* database.use_dbc: sessions are created through fnd_api.go
  Homonyms,   \* <<u, v>>: the name of u's account is the e-mail address of v's
  EbsLimit    \* LIMIT_TIME of a session

ASSUME EbsAssumption ==
  /\ NoId \notin Ids /\ UseDBC \in BOOLEAN /\ EbsLimit \in Nat \ {0}
  /\ Homonyms \subseteq Users \X Users

VARIABLE icx    \* the rows, by session id

IcxInit == icx = <<>>

Row == [user : Users, left : 0 .. EbsLimit]
WithLeft(row, t) == [user |-> row.user, left |-> t]

(* f with key k set to v, and f without key k, as Go maps do it. *)
Put(f, k, v) == [x \in DOMAIN f \union {k} |-> IF x = k THEN v ELSE f[x]]
Delete(f, k) == Restrict(f, DOMAIN f \ {k})

(* What CreateEBSSession may return.  The SSO path of fnd_api.go refuses an *)
(* id that is not positive; the legacy path hands on whatever createSession *)
(* returned, which may be no id at all.                                     *)
NewIds == (Ids \ DOMAIN icx) \union (IF UseDBC THEN {} ELSE {NoId})

(* Whose session a sign-in of u makes.  With use_dbc CreateEBSSession looks *)
(* for an account that has u's name as its address, and for u's own if      *)
(* there is none or the look-up fails.                                      *)
AccountsOf(u) == {u} \union {v \in Users : UseDBC /\ <<u, v>> \in Homonyms}

(* CreateEBSSession inserts a row under the id, if it is one. *)
CreateEBSSession(id, u) ==
  /\ id \in NewIds
  /\ \E account \in AccountsOf(u) :
       icx' = IF id \in Ids THEN Put(icx, id, [user |-> account, left |-> EbsLimit]) ELSE icx

(* ValidateSession: is there an enabled row that has not timed out? *)
ValidateSession(id) == id \in DOMAIN icx /\ icx[id].left > 0

(* EndSession disables the row, if there is one.  It may report an error,  *)
(* before or after the update took effect.                                 *)
EndRow(id) ==
  icx' = IF id \in DOMAIN icx THEN [icx EXCEPT ![id] = WithLeft(@, 0)] ELSE icx

EndSession(id) == EndRow(id) \/ UNCHANGED icx

(* EBS serves a request of a valid session: LAST_CONNECT is now. *)
IcxActivity(id) == ValidateSession(id) /\ icx' = [icx EXCEPT ![id] = WithLeft(@, EbsLimit)]

(* Time passes for every session. *)
IcxTick ==
  icx' = [id \in DOMAIN icx |->
            WithLeft(icx[id], IF icx[id].left > 0 THEN icx[id].left - 1 ELSE 0)]
============================================================================
