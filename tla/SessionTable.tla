--------------------------- MODULE SessionTable ---------------------------
(***************************************************************************)
(* What the session manager promises, without its two maps: every user has *)
(* a queue of sessions in the order in which they were tracked.  A new     *)
(* session goes to the end and, at the limit, pushes out the first; one    *)
(* session may leave from any place, and may have its time extended, which *)
(* gives it no other place; and no step of one user touches the queue of   *)
(* another.  SessionManager is shown to implement this.                    *)
(***************************************************************************)
EXTENDS Integers, Sequences, SequencesExt

CONSTANTS
  Users,
  Ids,       \* the session ids
  Limit,     \* sessions of a user, 0 for any number
  Lifetime   \* what a new or extended session has left

VARIABLE table   \* by user, [id, ttl] of each session, oldest first

vars == <<table>>

IdsOf(list) == {list[i].id : i \in DOMAIN list}

Init == table = [u \in Users |-> <<>>]

Room(list) == IF Limit > 0 /\ Len(list) >= Limit THEN Tail(list) ELSE list

Track(u, id) ==
  /\ \A w \in Users : id \notin IdsOf(table[w])
  /\ table' = [table EXCEPT ![u] = Append(Room(@), [id |-> id, ttl |-> Lifetime])]

Drop(u, i) == table' = [table EXCEPT ![u] = RemoveAt(@, i)]

Fresh(entry) == [entry EXCEPT !.ttl = Lifetime]

Renew(u, i) == table' = [table EXCEPT ![u][i] = Fresh(@)]

(* Time passes for all of them alike; -1 stands for every past expiry. *)
Older(entry) == [entry EXCEPT !.ttl = IF @ < 0 THEN @ ELSE @ - 1]

Age == table' = [u \in Users |-> [i \in DOMAIN table[u] |-> Older(table[u][i])]]

(* The process starts anew. *)
Forget == table' = [u \in Users |-> <<>>]

Change ==
  \/ \E u \in Users :
       \/ \E id \in Ids : Track(u, id)
       \/ \E i \in DOMAIN table[u] : Drop(u, i) \/ Renew(u, i)
  \/ Age \/ Forget

(* To extend the time of a session that has it all is no step. *)
Next == table' # table /\ Change

Spec == Init /\ [][Next]_vars
===========================================================================
