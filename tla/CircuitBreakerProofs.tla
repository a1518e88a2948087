----------------------- MODULE CircuitBreakerProofs -----------------------
(***************************************************************************)
(* CircuitBreaker for any set of callers, any thresholds and any timeout:  *)
(* its invariants, that it never probes early, and that it implements      *)
(* BreakerLifecycle.                                                       *)
(***************************************************************************)
EXTENDS CircuitBreaker, TLAPS

(* The conjuncts of the invariant lean on one another: the bound on        *)
(* failures needs its type, and the agreement of the history needs to know *)
(* that a counter below its threshold has not closed or opened anything.   *)
IInv == TypeOK /\ CountersAgree

(* A new breaker satisfies the invariant. *)
LEMMA InitInv == Init => IInv
BY ThresholdAssumption
   DEF Init, IInv, TypeOK, CountsBelowThresholds, FailureClockFollowsOpening, CountersAgree

(* Every step of the breaker, of a caller or of time preserves it. *)
LEMMA StepInv == IInv /\ [Next]_vars => IInv'
<1> SUFFICES ASSUME IInv, [Next]_vars PROVE IInv'
  OBVIOUS
<1> USE ThresholdAssumption
    DEF IInv, TypeOK, CountsBelowThresholds, FailureClockFollowsOpening, CountersAgree
<1>1. ASSUME NEW c \in Callers, Admit(c) PROVE IInv'
  <2>1. CASE state # "open"
    BY <1>1, <2>1 DEF Admit, RememberAdmission
  <2>2. CASE state = "open"
    BY <1>1, <2>2 DEF Admit, RememberAdmission
  <2>3. QED BY <2>1, <2>2
<1>2. ASSUME NEW c \in Callers, Reject(c) PROVE IInv'
  BY <1>2 DEF Reject, vars, history
<1>3. ASSUME NEW c \in Callers, RecordFailure(c) PROVE IInv'
  <2>1. CASE state = "halfOpen"
    BY <1>3, <2>1 DEF RecordFailure, Opens, Remember
  <2>2. CASE state = "closed"
    BY <1>3, <2>2 DEF RecordFailure, Opens, Remember
  <2>3. CASE state = "open"
    BY <1>3, <2>3 DEF RecordFailure, Opens, Remember
  <2>4. QED BY <2>1, <2>2, <2>3
<1>4. ASSUME NEW c \in Callers, RecordSuccess(c) PROVE IInv'
  <2>1. CASE state # "halfOpen"
    BY <1>4, <2>1 DEF RecordSuccess, ForgetsFailures, Remember
  <2>2. CASE state = "halfOpen" /\ successes + 1 < SuccessThreshold
    BY <1>4, <2>2 DEF RecordSuccess, ForgetsFailures, Remember
  <2>3. CASE state = "halfOpen" /\ successes + 1 >= SuccessThreshold
    BY <1>4, <2>3 DEF RecordSuccess, ForgetsFailures, Remember
  <2>4. QED BY <2>1, <2>2, <2>3
<1>5. CASE Tick
  BY <1>5 DEF Tick, Later
<1>6. CASE UNCHANGED vars
  BY <1>6 DEF vars, history
<1>7. QED BY <1>1, <1>2, <1>3, <1>4, <1>5, <1>6 DEF Next

(* Every reachable state of the breaker satisfies the invariant. *)
THEOREM Invariance == Spec => []IInv
BY InitInv, StepInv, PTL DEF Spec

(* Type correctness of the breaker. *)
THEOREM TypeCorrect == Spec => []TypeOK
<1>1. IInv => TypeOK BY DEF IInv
<1>2. QED BY <1>1, Invariance, PTL

(* A breaker never rests in a state whose exit has been earned. *)
THEOREM ThresholdsHold == Spec => []CountsBelowThresholds
<1>1. IInv => CountsBelowThresholds BY DEF IInv, CountersAgree
<1>2. QED BY <1>1, Invariance, PTL

(* A breaker that reopens waits for its own timeout: lastFailureTime is    *)
(* never older than the opening.                                           *)
THEOREM ClockFollows == Spec => []FailureClockFollowsOpening
<1>1. IInv => FailureClockFollowsOpening BY DEF IInv, CountersAgree
<1>2. QED BY <1>1, Invariance, PTL

(* In the state that uses it, each field is what the callers reported.     *)
THEOREM CountersCorrect == Spec => []CountersAgree
<1>1. IInv => CountersAgree BY DEF IInv
<1>2. QED BY <1>1, Invariance, PTL

(* The open state is left only for a test and only after the timeout:      *)
(* lastFailureTime is no older than the opening, so a failure clock that   *)
(* ran out means that the breaker has been open that long.                 *)
THEOREM ProbesWait ==
  Spec => [][state = "open" /\ state' # "open" => state' = "halfOpen" /\ openFor > Timeout]_vars
<1>1. IInv /\ [Next]_vars =>
        [state = "open" /\ state' # "open" => state' = "halfOpen" /\ openFor > Timeout]_vars
  <2> SUFFICES ASSUME IInv, Next, state = "open", state' # "open"
               PROVE  state' = "halfOpen" /\ openFor > Timeout
    BY DEF vars, history
  <2>1. ASSUME NEW c \in Callers, Admit(c) PROVE state' = "halfOpen" /\ openFor > Timeout
    BY <2>1, ThresholdAssumption
       DEF Admit, TimeoutElapsed, IInv, TypeOK, CountersAgree, FailureClockFollowsOpening
  <2>2. ASSUME NEW c \in Callers, RecordFailure(c) PROVE FALSE
    BY <2>2 DEF RecordFailure
  <2>3. ASSUME NEW c \in Callers, RecordSuccess(c) PROVE FALSE
    BY <2>3 DEF RecordSuccess
  <2>4. ASSUME NEW c \in Callers, Reject(c) PROVE FALSE
    BY <2>4 DEF Reject, vars
  <2>5. CASE Tick
    BY <2>5 DEF Tick
  <2>6. QED BY <2>1, <2>2, <2>3, <2>4, <2>5 DEF Next
<1>2. QED BY <1>1, Invariance, PTL DEF Spec

(* An admission starts a test or leaves the lifecycle alone: with the      *)
(* failure clock run out, the breaker has been open for long enough.       *)
LEMMA AdmitMoves ==
  ASSUME IInv, NEW c \in Callers, Admit(c)
  PROVE  \/ state # "open" /\ UNCHANGED Lifecycle!vars
         \/ Lifecycle!Test
BY ThresholdAssumption
   DEF IInv, TypeOK, CountersAgree, FailureClockFollowsOpening, Admit, RememberAdmission,
       TimeoutElapsed, Lifecycle!Test, Lifecycle!vars

(* A failure is a miss, or opens the breaker, from whichever mode it       *)
(* finds; a failure that finds it open changes nothing the lifecycle sees. *)
LEMMA FailureMoves ==
  ASSUME IInv, NEW c \in Callers, RecordFailure(c)
  PROVE  \/ state = "open" /\ UNCHANGED Lifecycle!vars
         \/ Lifecycle!Miss \/ Lifecycle!Trip \/ Lifecycle!ProbeFails
<1> USE ThresholdAssumption
    DEF IInv, TypeOK, CountsBelowThresholds, CountersAgree, RecordFailure, Opens, Remember
<1>1. CASE state = "halfOpen"
  BY <1>1 DEF Lifecycle!ProbeFails, Lifecycle!Open
<1>2. CASE state = "closed" /\ failures + 1 < FailureThreshold
  BY <1>2 DEF Lifecycle!Miss
<1>3. CASE state = "closed" /\ failures + 1 >= FailureThreshold
  <2>1. failures + 1 = FailureThreshold
    BY <1>3
  <2>2. QED BY <1>3, <2>1 DEF Lifecycle!Trip, Lifecycle!Open
<1>4. CASE state = "open"
  BY <1>4 DEF Lifecycle!vars
<1>5. QED BY <1>1, <1>2, <1>3, <1>4

(* A success clears the misses, counts towards closing, or closes.         *)
LEMMA SuccessMoves ==
  ASSUME IInv, NEW c \in Callers, RecordSuccess(c)
  PROVE  \/ state = "open" /\ UNCHANGED Lifecycle!vars
         \/ Lifecycle!Hit \/ Lifecycle!ProbeSucceeds \/ Lifecycle!Recover
<1> USE ThresholdAssumption
    DEF IInv, TypeOK, CountsBelowThresholds, CountersAgree, RecordSuccess, Remember
<1>1. CASE state = "closed"
  BY <1>1 DEF Lifecycle!Hit
<1>2. CASE state = "open"
  BY <1>2 DEF Lifecycle!vars
<1>3. CASE state = "halfOpen" /\ successes + 1 < SuccessThreshold
  BY <1>3 DEF Lifecycle!ProbeSucceeds
<1>4. CASE state = "halfOpen" /\ successes + 1 >= SuccessThreshold
  <2>1. successes + 1 = SuccessThreshold
    BY <1>4
  <2>2. QED BY <1>4, <2>1 DEF Lifecycle!Recover
<1>5. QED BY <1>1, <1>2, <1>3, <1>4

(* Every call that is admitted, fails or succeeds makes the step of the    *)
(* lifecycle that Gateway takes it to make: none is lost in the overlap of *)
(* calls.                                                                  *)
THEOREM CallsMove == Spec => CallsMoveLifecycle
<1> DEFINE Moves ==
      \A c \in Callers :
        /\ Admit(c) => \/ state # "open" /\ UNCHANGED Lifecycle!vars
                       \/ Lifecycle!Test
        /\ RecordFailure(c) => \/ state = "open" /\ UNCHANGED Lifecycle!vars
                               \/ Lifecycle!Miss \/ Lifecycle!Trip \/ Lifecycle!ProbeFails
        /\ RecordSuccess(c) => \/ state = "open" /\ UNCHANGED Lifecycle!vars
                               \/ Lifecycle!Hit \/ Lifecycle!ProbeSucceeds \/ Lifecycle!Recover
<1>1. IInv => [Moves]_vars
  BY AdmitMoves, FailureMoves, SuccessMoves
<1>2. QED BY <1>1, Invariance, PTL DEF CallsMoveLifecycle

(* The breaker implements its lifecycle.  Calls that report while the      *)
(* breaker is open, admissions in a state that admits everyone, refusals,  *)
(* and time while it is not open are stuttering steps.                     *)
LEMMA InitRefines == Init => Lifecycle!Init
BY DEF Init, Lifecycle!Init

(* Each of the breaker's steps is a step of the lifecycle or a stutter. *)
LEMMA StepRefines == IInv /\ [Next]_vars => [Lifecycle!Next]_(Lifecycle!vars)
<1> SUFFICES ASSUME IInv, [Next]_vars
             PROVE  Lifecycle!Next \/ UNCHANGED Lifecycle!vars
  OBVIOUS
<1>1. ASSUME NEW c \in Callers, Admit(c) PROVE Lifecycle!Next \/ UNCHANGED Lifecycle!vars
  BY <1>1, AdmitMoves DEF Lifecycle!Next
<1>2. ASSUME NEW c \in Callers, Reject(c) PROVE UNCHANGED Lifecycle!vars
  BY <1>2 DEF Reject, vars, history, Lifecycle!vars
<1>3. ASSUME NEW c \in Callers, RecordFailure(c)
      PROVE  Lifecycle!Next \/ UNCHANGED Lifecycle!vars
  BY <1>3, FailureMoves DEF Lifecycle!Next
<1>4. ASSUME NEW c \in Callers, RecordSuccess(c)
      PROVE  Lifecycle!Next \/ UNCHANGED Lifecycle!vars
  BY <1>4, SuccessMoves DEF Lifecycle!Next
<1>5. ASSUME Tick PROVE Lifecycle!Wait \/ UNCHANGED Lifecycle!vars
  BY <1>5, ThresholdAssumption
     DEF IInv, TypeOK, CountersAgree, Tick, Later, Lifecycle!Wait, Lifecycle!vars
<1>6. ASSUME UNCHANGED vars PROVE UNCHANGED Lifecycle!vars
  BY <1>6 DEF vars, history, Lifecycle!vars
<1>7. QED BY <1>1, <1>2, <1>3, <1>4, <1>5, <1>6 DEF Next, Lifecycle!Next

(* Calls that run concurrently and report late leave the documented lifecycle intact. *)
THEOREM LifecycleImplemented == Spec => ImplementsLifecycle
BY InitRefines, StepRefines, Invariance, PTL
   DEF Spec, ImplementsLifecycle, Lifecycle!Spec
===========================================================================
