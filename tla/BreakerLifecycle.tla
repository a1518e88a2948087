------------------------- MODULE BreakerLifecycle -------------------------
(***************************************************************************)
(* What a circuit breaker promises its callers, as the lifecycle diagram   *)
(* of RESILIENCE_SUMMARY.md puts it: FailureThreshold consecutive failures *)
(* open it, it stays open for more than Timeout, SuccessThreshold          *)
(* successes while it is testing recovery close it, and one failure while  *)
(* it is testing opens it again.  A count has a meaning in one mode only   *)
(* and is 0 in the others.  CircuitBreaker is shown to implement this.     *)
(***************************************************************************)
EXTENDS Naturals

CONSTANTS FailureThreshold, SuccessThreshold, Timeout

VARIABLES
  mode,     \* "closed", "open" or "halfOpen"
  misses,   \* closed: consecutive failures
  probes,   \* halfOpen: successes since the test began
  waited    \* open: time since the breaker opened, no further than Timeout + 1

vars == <<mode, misses, probes, waited>>

Init == mode = "closed" /\ misses = 0 /\ probes = 0 /\ waited = 0

(* The breaker opens: the wait starts over and every count is dropped. *)
Open == mode' = "open" /\ misses' = 0 /\ probes' = 0 /\ waited' = 0

Miss ==
  /\ mode = "closed" /\ misses + 1 < FailureThreshold
  /\ misses' = misses + 1
  /\ UNCHANGED <<mode, probes, waited>>

Trip == mode = "closed" /\ misses + 1 = FailureThreshold /\ Open

Hit == mode = "closed" /\ misses' = 0 /\ UNCHANGED <<mode, probes, waited>>

Wait ==
  /\ mode = "open" /\ waited =< Timeout
  /\ waited' = waited + 1
  /\ UNCHANGED <<mode, misses, probes>>

Test ==
  /\ mode = "open" /\ waited > Timeout
  /\ mode' = "halfOpen" /\ waited' = 0
  /\ UNCHANGED <<misses, probes>>

ProbeFails == mode = "halfOpen" /\ Open

ProbeSucceeds ==
  /\ mode = "halfOpen" /\ probes + 1 < SuccessThreshold
  /\ probes' = probes + 1
  /\ UNCHANGED <<mode, misses, waited>>

Recover ==
  /\ mode = "halfOpen" /\ probes + 1 = SuccessThreshold
  /\ mode' = "closed" /\ probes' = 0
  /\ UNCHANGED <<misses, waited>>

Next == Miss \/ Trip \/ Hit \/ Wait \/ Test \/ ProbeFails \/ ProbeSucceeds \/ Recover

Spec == Init /\ [][Next]_vars
===========================================================================
