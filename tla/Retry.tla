------------------------------- MODULE Retry -------------------------------
(***************************************************************************)
(* handlers/resilience.go: one ExecuteWithRetry, as Callback runs it       *)
(* around GetUserByEmail, beside a browser that may go away at any time    *)
(* (which cancels the request's context) and a database that answers,      *)
(* fails for a while or finds no user.                                     *)
(*                                                                         *)
(* An error message is the set of retryable patterns that occur in it: the *)
(* classification reads nothing else.  A message that names the user may   *)
(* contain a pattern because the user's address does.                      *)
(***************************************************************************)
EXTENDS Integers

CONSTANTS
  Files,          \* resilience settings as a file gives them
  AddressWords    \* the patterns that occur in the user's e-mail address

ASSUME RetryAssumption ==
  Files \subseteq [enabled : BOOLEAN, maxRetries : Int, delay : Int, backoff : BOOLEAN]

VARIABLES
  config,      \* the settings of this process
  pc,          \* "head" of the loop, "sleep", "calling" fn, "done"
  attempt,     \* the loop variable
  left,        \* the rest of the sleep
  lastErr,     \* what the last call of fn failed with, or NoError
  cancelled,   \* ctx.Err() # nil
  outcome,     \* what ExecuteWithRetry returned
  \* History, read by no guard:
  calls,       \* calls of fn begun
  late,        \* those of them begun after ctx was cancelled
  waited,      \* time slept
  since,       \* the part of it since the last call
  before       \* the part of it between the last call and the one before

history == <<calls, late, waited, since, before>>
vars == <<config, pc, attempt, left, lastErr, cancelled, outcome, history>>

retryablePatterns ==
  {"timeout", "temporary", "connection refused", "connection reset",
   "network unreachable", "no such host", "EOF", "broken pipe"}

(* What GetUserByEmail may fail with.  The context's own error, "context   *)
(* canceled", contains no pattern.                                         *)
NoError == [kind |-> "none", words |-> {}]
NotFound == [kind |-> "notFound", words |-> AddressWords]
Network == [kind |-> "network", words |-> {"connection reset"}]
Other == [kind |-> "other", words |-> {}]
Canceled == [kind |-> "canceled", words |-> {}]
Errors == {NotFound, Network, Other} \union (IF cancelled THEN {Canceled} ELSE {})

(* config.Validate: a zero, which is also what an absent setting is read   *)
(* as, stands for the default; a negative number stays.                    *)
WithDefault(value, default) == IF value = 0 THEN default ELSE value

Validate(file) ==
  [enabled |-> file.enabled, backoff |-> file.backoff,
   maxRetries |-> WithDefault(file.maxRetries, 3), delay |-> WithDefault(file.delay, 2)]

Init ==
  /\ \E file \in Files : config = Validate(file)
  /\ pc = "head" /\ attempt = 0 /\ left = 0
  /\ lastErr = NoError /\ cancelled = FALSE /\ outcome = "none"
  /\ calls = 0 /\ late = 0 /\ waited = 0 /\ since = 0 /\ before = 0

Return(result) == pc' = "done" /\ outcome' = result

---------------------------------------------------------------------------
(* Deliberately faulty variants of operators below, for mutation runs. *)

(* the delay grows with the number of calls, not of retries *)
DelayOfNextAttempt == IF config.backoff THEN config.delay * (attempt + 1) ELSE config.delay

(* max_retries is taken for the number of retries after the second call *)
TriesOneMore == attempt =< config.maxRetries + 1

(* the context is asked before the first attempt only *)
SeesCancelFirstOnly == attempt = 0 /\ cancelled

(* a wait that the context interrupts goes on to nothing *)
CallAgainUnlessCancelled ==
  /\ pc = "sleep" /\ left = 0 /\ ~cancelled
  /\ pc' = "calling" /\ calls' = calls + 1 /\ since' = 0 /\ before' = since
  /\ UNCHANGED <<config, attempt, left, lastErr, cancelled, outcome, late, waited>>

(* an error that is not retryable breaks out of the loop *)
FailBreaks(err) ==
  /\ pc = "calling"
  /\ lastErr' = err
  /\ IF err.words \intersect retryablePatterns # {}
     THEN pc' = "head" /\ attempt' = attempt + 1 /\ UNCHANGED outcome
     ELSE Return("exhausted") /\ UNCHANGED attempt
  /\ UNCHANGED <<config, left, cancelled, history>>

(* the loop ends without a result *)
GiveUpSilently ==
  /\ pc = "head" /\ attempt > config.maxRetries
  /\ pc' = "done"
  /\ UNCHANGED <<config, attempt, left, lastErr, cancelled, outcome, history>>

---------------------------------------------------------------------------
isRetryableError(err) == err.words \intersect retryablePatterns # {}

(* The head of the for loop, and the select on ctx.Done that skips the     *)
(* first attempt.                                                          *)
TriesLeft == attempt =< config.maxRetries
SeesCancel == attempt > 0 /\ cancelled

(* The wait before the attempt-th retry; time.Sleep returns at once for a  *)
(* negative one.                                                           *)
Delay == IF config.backoff THEN config.delay * attempt ELSE config.delay

Call ==
  /\ pc' = "calling"
  /\ calls' = calls + 1
  /\ late' = IF cancelled THEN late + 1 ELSE late
  /\ since' = 0 /\ before' = since

(* With retries disabled, or at the first attempt, fn is called at once. *)
CallAtOnce ==
  /\ pc = "head" /\ attempt = 0
  /\ ~config.enabled \/ TriesLeft
  /\ Call
  /\ UNCHANGED <<config, attempt, left, lastErr, cancelled, outcome, waited>>

(* No attempt is left: "operation failed after n attempts". *)
GiveUp ==
  /\ pc = "head" /\ config.enabled /\ ~TriesLeft
  /\ Return("exhausted")
  /\ UNCHANGED <<config, attempt, left, lastErr, cancelled, history>>

(* "context cancelled during retry" *)
StopOnCancel ==
  /\ pc = "head" /\ config.enabled /\ TriesLeft /\ SeesCancel
  /\ Return("stopped")
  /\ UNCHANGED <<config, attempt, left, lastErr, cancelled, history>>

(* time.Sleep, which does not look at the context *)
StartSleep ==
  /\ pc = "head" /\ config.enabled /\ TriesLeft /\ attempt > 0 /\ ~SeesCancel
  /\ pc' = "sleep" /\ left' = IF Delay > 0 THEN Delay ELSE 0
  /\ UNCHANGED <<config, attempt, lastErr, cancelled, outcome, history>>

Sleep ==
  /\ pc = "sleep" /\ left > 0
  /\ left' = left - 1 /\ waited' = waited + 1 /\ since' = since + 1
  /\ UNCHANGED <<config, pc, attempt, lastErr, cancelled, outcome, calls, late, before>>

CallAgain ==
  /\ pc = "sleep" /\ left = 0
  /\ Call
  /\ UNCHANGED <<config, attempt, left, lastErr, cancelled, outcome, waited>>

(* fn returned nil. *)
Succeed ==
  /\ pc = "calling"
  /\ Return("ok")
  /\ lastErr' = NoError
  /\ UNCHANGED <<config, attempt, left, cancelled, history>>

(* fn failed: the loop goes on only after an error that may pass. *)
Fail(err) ==
  /\ pc = "calling"
  /\ lastErr' = err
  /\ \/ /\ config.enabled /\ isRetryableError(err)
        /\ pc' = "head" /\ attempt' = attempt + 1
        /\ UNCHANGED outcome
     \/ /\ ~config.enabled \/ ~isRetryableError(err)
        /\ Return("failed")
        /\ UNCHANGED attempt
  /\ UNCHANGED <<config, left, cancelled, history>>

(* The browser goes away. *)
Cancel ==
  /\ ~cancelled /\ cancelled' = TRUE
  /\ UNCHANGED <<config, pc, attempt, left, lastErr, outcome, history>>

Step ==
  \/ CallAtOnce \/ GiveUp \/ StopOnCancel \/ StartSleep \/ Sleep \/ CallAgain
  \/ Succeed \/ \E err \in Errors : Fail(err)

Next == Step \/ Cancel

Spec == Init /\ [][Next]_vars

(* The goroutine runs, time passes, and the driver returns from a query. *)
FairSpec == Spec /\ WF_vars(Step)

---------------------------------------------------------------------------
(* The types of the loop's state. *)
TypeOK ==
  /\ config \in {Validate(file) : file \in Files}
  /\ pc \in {"head", "sleep", "calling", "done"}
  /\ attempt \in Nat /\ left \in Nat /\ calls \in Nat /\ late \in 0 .. calls
  /\ waited \in Nat /\ since \in Nat /\ before \in Nat
  /\ lastErr \in {NoError, NotFound, Network, Other, Canceled}
  /\ cancelled \in BOOLEAN
  /\ outcome \in {"none", "ok", "failed", "exhausted", "stopped"}
  /\ pc = "done" <=> outcome # "none"

Pause(c) == IF c.delay > 0 THEN c.delay ELSE 0

(* The pauses as every description of the retries has them, those that     *)
(* call the growth exponential and the one that lists 2, 4 and 6 seconds:  *)
(* retry_delay before the first retry, and before every further one longer *)
(* than the last time with retry_backoff, the same without -- counted on   *)
(* the clock between two calls, whatever is asked, slept and cancelled in  *)
(* between.  A negative delay is no delay.                                 *)
PausesIncrease ==
  [][CallAgain =>
       /\ calls = 1 => since = Pause(config)
       /\ calls > 1 => IF config.backoff /\ config.delay > 0
                       THEN since > before
                       ELSE since = before]_vars

(* What Callback is told is what the calls of fn did: success is that of   *)
(* the last call, a plain failure is the last call's and was not to be     *)
(* retried, and giving up means that all of max_retries + 1 calls were     *)
(* made, none if that is negative, and the last failed with an error that  *)
(* may pass.                                                               *)
AnswersLastCall ==
  /\ outcome = "ok" => calls > 0 /\ lastErr = NoError
  /\ outcome = "failed" => lastErr # NoError /\ ~(config.enabled /\ isRetryableError(lastErr))
  /\ outcome = "exhausted" =>
       /\ calls > config.maxRetries
       /\ calls > 0 => calls = config.maxRetries + 1 /\ isRetryableError(lastErr)
  /\ outcome = "stopped" => cancelled /\ isRetryableError(lastErr)

(* Context-aware: once the browser is gone, at most one more query is      *)
(* sent, that of an attempt which had looked at the context before.        *)
OneCallAfterCancel == late =< 1

(* One sign-in costs the database no more than max_retries + 1 queries --  *)
(* none if that is negative, one with retries switched off -- and the user *)
(* no more waiting than the pauses of max_retries retries, the n-th n times*)
(* retry_delay with backoff, at whatever moment it ends.                   *)
Waits(c, n) == IF c.backoff THEN (Pause(c) * n * (n + 1)) \div 2 ELSE Pause(c) * n
MostCalls(c) == IF ~c.enabled THEN 1 ELSE IF c.maxRetries < 0 THEN 0 ELSE c.maxRetries + 1
MostRetries(c) == IF c.enabled /\ c.maxRetries > 0 THEN c.maxRetries ELSE 0

EffortBounded ==
  /\ calls =< MostCalls(config)
  /\ waited + left =< Waits(config, MostRetries(config))

(* ExecuteWithRetry returns, also while the database keeps failing. *)
Returns == <>(pc = "done")
============================================================================
