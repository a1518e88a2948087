------------------------------- MODULE SignOn -------------------------------
(***************************************************************************)
(* What the gateway promises about a sign-in, whatever its components do:  *)
(* an accepted sign-in of a user who may use EBS makes at most one session *)
(* in EBS, for an account that the user's name may stand for, and hands    *)
(* that session and no other to the browser that asked.  Gateway is shown  *)
(* to implement this.                                                      *)
(***************************************************************************)
CONSTANTS
  Users,
  Allowed,    \* the users that authorization lets in
  Accounts,   \* by user: whose sessions the sign-in may make
  Ids,        \* the session ids EBS hands out
  Requests    \* the goroutines that serve a sign-in

VARIABLES
  signing,    \* pairs <<request, user>>: accepted, without a session so far
  carrying,   \* pairs <<request, session>>: made, not handed out yet
  failing,    \* requests whose sign-in has failed, not answered yet
  made,       \* pairs <<session, user>>: every session ever made
  held        \* the sessions that browsers hold

vars == <<signing, carrying, failing, made, held>>

Init == signing = {} /\ carrying = {} /\ failing = {} /\ made = {} /\ held = {}

Busy(r) == \/ \E u \in Users : <<r, u>> \in signing
           \/ \E id \in Ids : <<r, id>> \in carrying
           \/ r \in failing

Begin(r, u) ==
  /\ ~Busy(r) /\ u \in Allowed
  /\ signing' = signing \union {<<r, u>>}
  /\ UNCHANGED <<carrying, failing, made, held>>

(* The sign-in comes to nothing. *)
GiveUp(r, u) ==
  /\ signing' = signing \ {<<r, u>>}
  /\ failing' \in {failing, failing \union {r}}
  /\ UNCHANGED <<carrying, made, held>>

(* The one session of this sign-in.  The answer may get lost on its way    *)
(* back; the sign-in has failed then.                                      *)
Issue(r, u, id) ==
  /\ <<r, u>> \in signing /\ \A v \in Users : <<id, v>> \notin made
  /\ signing' = signing \ {<<r, u>>}
  /\ \E account \in Accounts[u] : made' = made \union {<<id, account>>}
  /\ \/ carrying' = carrying \union {<<r, id>>} /\ UNCHANGED failing
     \/ failing' = failing \union {r} /\ UNCHANGED carrying
  /\ UNCHANGED held

Deliver(r, id) ==
  /\ <<r, id>> \in carrying
  /\ carrying' = carrying \ {<<r, id>>}
  /\ held' \in {held, held \union {id}}
  /\ UNCHANGED <<signing, failing, made>>

AnswerError(r) ==
  /\ failing' = failing \ {r}
  /\ UNCHANGED <<signing, carrying, made, held>>

SignOut(id) == held' = held \ {id} /\ UNCHANGED <<signing, carrying, failing, made>>

(* The process stops: what was under way is forgotten, EBS and the         *)
(* browsers keep what they have.                                           *)
Stop == signing' = {} /\ carrying' = {} /\ failing' = {} /\ UNCHANGED <<made, held>>

Next ==
  \/ \E r \in Requests :
       \/ \E u \in Users : Begin(r, u) \/ GiveUp(r, u) \/ \E id \in Ids : Issue(r, u, id)
       \/ \E id \in Ids : Deliver(r, id)
       \/ AnswerError(r)
  \/ \E id \in Ids : SignOut(id)
  \/ Stop

Spec == Init /\ [][Next]_vars
=============================================================================
