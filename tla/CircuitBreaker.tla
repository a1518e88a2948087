-------------------------- MODULE CircuitBreaker --------------------------
(***************************************************************************)
(* handlers/resilience.go: one CircuitBreaker and the request goroutines   *)
(* that call Execute on it.  Execute is three steps of its caller --       *)
(* canExecute (under the mutex), fn (outside it), recordFailure or         *)
(* recordSuccess (under the mutex again) -- so the breaker may change      *)
(* state any number of times while a call is in flight.                    *)
(*                                                                         *)
(* Time is kept as differences.  The code reads only                       *)
(* time.Since(lastFailureTime) > timeout, so the model keeps sinceFailure, *)
(* the time since the last failure, no further than Timeout + 1.           *)
(***************************************************************************)
EXTENDS Naturals

CONSTANTS
  Callers,            \* the request goroutines
  FailureThreshold,   \* failures that open the breaker
  SuccessThreshold,   \* successes that close it again
  Timeout             \* time it stays open after a failure

ASSUME CallersAssumption == Callers # {}
(* config.Validate replaces 0 by a default, and the shipped values are     *)
(* positive.                                                               *)
ASSUME ThresholdAssumption ==
  /\ FailureThreshold \in Nat \ {0}
  /\ SuccessThreshold \in Nat \ {0}
  /\ Timeout \in Nat

VARIABLES
  state,          \* cb.state
  failures,       \* cb.failures
  successes,      \* cb.successes
  sinceFailure,   \* time.Since(cb.lastFailureTime), at most Timeout + 1
  running,        \* callers between canExecute and record...
  \* History, read by no guard:
  openFor,        \* while open: time since the breaker opened, at most Timeout + 1
  streak,         \* while closed: failures recorded since closing or the last success
  hits,           \* while half-open: successes recorded since the test began
  probing         \* running callers admitted since the last change of state

history == <<openFor, streak, hits, probing>>
vars == <<state, failures, successes, sinceFailure, running, history>>

Init ==
  /\ state = "closed"
  /\ failures = 0 /\ successes = 0
  /\ sinceFailure = Timeout + 1       \* lastFailureTime is the zero time
  /\ running = {}
  /\ openFor = 0 /\ streak = 0 /\ hits = 0 /\ probing = {}

(* What is remembered when c's call ends and when a call is admitted.  A   *)
(* change of state starts every record over.                               *)
Remember(c, missed) ==
  IF state' = state
  THEN /\ streak' = IF missed /\ state = "closed" THEN streak + 1 ELSE 0
       /\ hits' = IF ~missed /\ state = "halfOpen" THEN hits + 1 ELSE hits
       /\ probing' = probing \ {c}
       /\ UNCHANGED openFor
  ELSE streak' = 0 /\ hits' = 0 /\ probing' = {} /\ openFor' = 0

RememberAdmission(c) ==
  IF state' = state
  THEN probing' = probing \union {c} /\ UNCHANGED <<openFor, streak, hits>>
  ELSE probing' = {c} /\ openFor' = 0 /\ streak' = 0 /\ hits' = 0

---------------------------------------------------------------------------
(* Deliberately faulty variants of the operators below.  Each stands in    *)
(* for one of them in a mutation run and must make a property fail.        *)

(* half-open lets nothing through but the call that opened the test *)
AdmitOneProbe(c) ==
  /\ c \notin running
  /\ \/ state = "closed" /\ UNCHANGED <<state, successes>>
     \/ state = "open" /\ sinceFailure > Timeout /\ state' = "halfOpen" /\ successes' = 0
  /\ running' = running \union {c}
  /\ RememberAdmission(c)
  /\ UNCHANGED <<failures, sinceFailure>>

(* a refused call is counted as one more failure *)
RejectAsFailure(c) ==
  /\ c \notin running
  /\ state = "open" /\ sinceFailure =< Timeout
  /\ sinceFailure' = 0
  /\ UNCHANGED <<state, failures, successes, running, history>>

(* a failed test is one failure among others *)
OpensByCountOnly == failures + 1 >= FailureThreshold

(* a success while closed forgives one failure, not all of them *)
RecordSuccessForgivesOne(c) ==
  /\ c \in running
  /\ running' = running \ {c}
  /\ failures' = IF state = "closed" THEN failures - 1 ELSE failures
  /\ UNCHANGED <<state, successes, sinceFailure>>
  /\ Remember(c, FALSE)

(* a success while closed leaves the failures counted so far *)
KeepsFailures == state = "halfOpen" /\ successes + 1 >= SuccessThreshold

---------------------------------------------------------------------------
(* canExecute: an open breaker lets a call through, and becomes half-open, *)
(* once the timeout has passed; the other states let every call through.   *)
TimeoutElapsed == sinceFailure > Timeout

Admit(c) ==
  /\ c \notin running
  /\ \/ state # "open" /\ UNCHANGED <<state, successes>>
     \/ state = "open" /\ TimeoutElapsed /\ state' = "halfOpen" /\ successes' = 0
  /\ running' = running \union {c}
  /\ RememberAdmission(c)
  /\ UNCHANGED <<failures, sinceFailure>>

(* canExecute returns false: Execute answers an error and calls nothing.   *)
Reject(c) ==
  /\ c \notin running
  /\ state = "open" /\ ~TimeoutElapsed
  /\ UNCHANGED vars

(* recordFailure: the failure that opens the breaker. *)
Opens == state = "halfOpen" \/ failures + 1 >= FailureThreshold

RecordFailure(c) ==
  /\ c \in running
  /\ running' = running \ {c}
  /\ failures' = IF state = "halfOpen" THEN 0 ELSE failures + 1
  /\ sinceFailure' = 0
  /\ state' = IF Opens THEN "open" ELSE state
  /\ Remember(c, TRUE)
  /\ UNCHANGED successes

(* recordSuccess: while closed it forgets the failures, while half-open it *)
(* counts towards closing, while open it changes nothing.                  *)
ForgetsFailures ==
  state = "closed" \/ (state = "halfOpen" /\ successes + 1 >= SuccessThreshold)

RecordSuccess(c) ==
  /\ c \in running
  /\ running' = running \ {c}
  /\ failures' = IF ForgetsFailures THEN 0 ELSE failures
  /\ \/ state # "halfOpen" /\ UNCHANGED <<state, successes>>
     \/ state = "halfOpen" /\ successes + 1 < SuccessThreshold
        /\ successes' = successes + 1 /\ UNCHANGED state
     \/ state = "halfOpen" /\ successes + 1 >= SuccessThreshold
        /\ state' = "closed" /\ successes' = 0
  /\ Remember(c, FALSE)
  /\ UNCHANGED sinceFailure

(* Time passes by one unit. *)
Later(t) == IF t > Timeout THEN t ELSE t + 1

Tick ==
  /\ sinceFailure' = Later(sinceFailure)
  /\ openFor' = IF state = "open" THEN Later(openFor) ELSE openFor
  /\ UNCHANGED <<state, failures, successes, running, streak, hits, probing>>

Next ==
  \/ \E c \in Callers : Admit(c) \/ Reject(c) \/ RecordFailure(c) \/ RecordSuccess(c)
  \/ Tick

Spec == Init /\ [][Next]_vars

(* Time passes, a call in flight returns (CreateEBSSession runs under the  *)
(* request's context and driver timeouts), and users keep logging in.      *)
Fairness ==
  /\ WF_vars(Tick)
  /\ \A c \in Callers : WF_vars(RecordFailure(c) \/ RecordSuccess(c))
  /\ WF_vars(\E c \in Callers : Admit(c))

FairSpec == Spec /\ Fairness

---------------------------------------------------------------------------
(* The types of the breaker's fields and of the history. *)
TypeOK ==
  /\ state \in {"closed", "open", "halfOpen"}
  /\ failures \in Nat /\ successes \in Nat
  /\ sinceFailure \in 0 .. Timeout + 1
  /\ running \subseteq Callers /\ probing \subseteq running
  /\ openFor \in 0 .. Timeout + 1 /\ streak \in Nat /\ hits \in Nat

(* The breaker never rests in a state whose exit has been earned: closed   *)
(* with FailureThreshold failures on the counter, or half-open with        *)
(* SuccessThreshold successes, whatever calls from earlier states report.  *)
CountsBelowThresholds ==
  /\ state = "closed" => failures < FailureThreshold
  /\ state = "halfOpen" => successes < SuccessThreshold

(* lastFailureTime is never older than the opening it is measured for, so  *)
(* a breaker that reopens waits for its own timeout and not for the last   *)
(* one's.                                                                  *)
FailureClockFollowsOpening == state = "open" => sinceFailure =< openFor

(* In the state that uses it, each field is what the callers reported:     *)
(* failures is the current run of failures of a closed breaker, successes  *)
(* the successes of this test, both short of what ends the state, and      *)
(* lastFailureTime no older than the opening, with nothing left over from  *)
(* earlier states.                                                         *)
CountersAgree ==
  /\ CountsBelowThresholds
  /\ FailureClockFollowsOpening
  /\ state = "closed" => streak = failures /\ hits = 0
  /\ state = "open" => streak = 0 /\ hits = 0
  /\ state = "halfOpen" => streak = 0 /\ hits = successes
  /\ state # "open" => openFor = 0

(* The breaker implements the lifecycle of RESILIENCE_SUMMARY.md over what *)
(* its callers reported: it opens on the FailureThreshold-th failure in a  *)
(* row and closes on the SuccessThreshold-th success of a test, although   *)
(* its own counters run on outside the state that uses them (recordFailure *)
(* counts while open, and half-open keeps the failures that opened it).    *)
Lifecycle == INSTANCE BreakerLifecycle WITH
  mode <- state, misses <- streak, probes <- hits, waited <- openFor

ImplementsLifecycle == Lifecycle!Spec

(* The lifecycle as each call meets it, which is what Gateway takes the    *)
(* breaker to be: no admission, failure or success is lost, however many   *)
(* calls overlap.  An admission changes nothing but that it starts the     *)
(* test of an open breaker, not before its timeout; a failure or a success *)
(* is, unless the breaker has opened meanwhile, the lifecycle's step for   *)
(* the mode it finds.                                                      *)
CallsMoveLifecycle ==
  [][\A c \in Callers :
       /\ Admit(c) => \/ state # "open" /\ UNCHANGED Lifecycle!vars
                      \/ Lifecycle!Test
       /\ RecordFailure(c) => \/ state = "open" /\ UNCHANGED Lifecycle!vars
                              \/ Lifecycle!Miss \/ Lifecycle!Trip \/ Lifecycle!ProbeFails
       /\ RecordSuccess(c) => \/ state = "open" /\ UNCHANGED Lifecycle!vars
                              \/ Lifecycle!Hit \/ Lifecycle!ProbeSucceeds \/ Lifecycle!Recover]_vars

(* Once calls stop failing, the breaker closes for good, whatever it had   *)
(* counted before: every stale count is dropped on the way.                *)
Recovers ==
  <>[][\A c \in Callers : ~RecordFailure(c)]_vars => <>[](state = "closed")

(* An open breaker gets to test its dependency: failures that arrive late  *)
(* postpone the test but cannot do so for ever, since no call is admitted  *)
(* meanwhile.                                                              *)
OpenIsTemporary == state = "open" ~> state = "halfOpen"

(* RESILIENCE_SUMMARY.md describes half-open as testing recovery: it is    *)
(* left for closed after successful requests made to test the dependency.  *)
(* So no success counts but that of a call admitted in this half-open      *)
(* period.                                                                 *)
OnlyProbesClose ==
  [][\A c \in Callers : state = "halfOpen" /\ RecordSuccess(c) => c \in probing]_vars
===========================================================================
