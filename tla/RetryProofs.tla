---------------------------- MODULE RetryProofs ----------------------------
(***************************************************************************)
(* Retry for any settings a file may hold and any words in the user's      *)
(* address.                                                                *)
(***************************************************************************)
EXTENDS Retry, TLAPS

(* Where the loop stands: how many calls it has made, what the last one    *)
(* failed with, and that it has not gone past a cancelled context.         *)
Place ==
  /\ ~config.enabled => attempt = 0
  /\ pc # "sleep" => left = 0
  /\ pc = "head" => /\ calls = attempt /\ (attempt = 0 \/ attempt =< config.maxRetries + 1)
                    /\ attempt > 0 => config.enabled /\ isRetryableError(lastErr)
  /\ pc = "sleep" => /\ calls = attempt /\ 0 < attempt /\ attempt =< config.maxRetries
                     /\ config.enabled /\ isRetryableError(lastErr)
  /\ pc = "calling" => /\ calls = attempt + 1
                       /\ config.enabled => attempt =< config.maxRetries

(* A call begun after the cancellation is the last one. *)
Lateness ==
  /\ late > 0 => cancelled
  /\ pc = "sleep" => late = 0
  /\ pc = "head" /\ late > 0 => attempt > 0
  /\ pc = "head" => late =< 1

(* The time slept so far: the schedule's, or that of the next call. *)
ScheduleFollowed ==
  /\ pc = "calling" => waited = Waits(config, calls - 1)
  /\ pc = "sleep" => waited + left = Waits(config, calls)

Slept ==
  /\ pc = "head" => waited = IF calls = 0 THEN 0 ELSE Waits(config, calls - 1)
  /\ ScheduleFollowed

(* The pause before the n-th retry, and where it is on the clock. *)
Turn(c, n) == IF c.backoff THEN Pause(c) * n ELSE Pause(c)

Paused ==
  /\ pc \in {"head", "calling"} => since = 0
  /\ pc = "sleep" => since + left = Turn(config, calls)
  /\ pc # "done" => before = IF calls > 1 THEN Turn(config, calls - 1) ELSE 0

IInv == TypeOK /\ Place /\ Lateness /\ OneCallAfterCancel /\ AnswersLastCall /\ Slept /\ Paused

---------------------------------------------------------------------------
(* Half of a sum one of whose parts is even. *)
LEMMA HalfOfSum ==
  ASSUME NEW x \in Nat, NEW y \in Nat
  PROVE  (x + 2 * y) \div 2 = (x \div 2) + y
OBVIOUS

(* The wait before retry n completes the schedule of n retries. *)
LEMMA ScheduleGrows ==
  ASSUME NEW c, c.delay \in Int, c.backoff \in BOOLEAN, NEW n \in Nat, n > 0
  PROVE  /\ Waits(c, n) \in Nat /\ Waits(c, n - 1) \in Nat
         /\ Waits(c, n) = Waits(c, n - 1) + (IF c.backoff THEN Pause(c) * n ELSE Pause(c))
<1>1. Pause(c) \in Nat
  BY DEF Pause
<1>2. CASE ~c.backoff
  <2>1. Pause(c) * n \in Nat /\ Pause(c) * (n - 1) \in Nat
    BY <1>1
  <2>2. Pause(c) * n = Pause(c) * (n - 1) + Pause(c)
    BY <1>1
  <2>3. QED BY <1>2, <2>1, <2>2 DEF Waits
<1>3. CASE c.backoff
  <2> DEFINE x == Pause(c) * (n - 1) * ((n - 1) + 1)
             y == Pause(c) * n
             z == Pause(c) * n * (n + 1)
  <2>1. y \in Nat
    BY <1>1
  <2>2. (n - 1) + 1 = n /\ n - 1 \in Nat
    OBVIOUS
  <2>3. x \in Nat
    <3>1. Pause(c) * (n - 1) \in Nat
      BY <1>1, <2>2
    <3>2. QED BY <2>2, <3>1
  <2>4. z = x + 2 * y
    <3>1. Pause(c) * (n - 1) = y - Pause(c)
      BY <1>1
    <3>2. x = (y - Pause(c)) * n
      BY <2>2, <3>1
    <3>3. (y - Pause(c)) * n = y * n - y
      BY <1>1, <2>1
    <3>4. z = y * n + y
      BY <1>1, <2>1
    <3>5. QED BY <1>1, <2>1, <3>2, <3>3, <3>4
  <2> HIDE DEF x, y, z
  <2>5. z \div 2 = (x \div 2) + y /\ x \div 2 \in Nat /\ z \div 2 \in Nat
    BY <2>1, <2>3, <2>4, HalfOfSum
  <2>6. Waits(c, n) = z \div 2 /\ Waits(c, n - 1) = x \div 2
    BY <1>3 DEF Waits, x, z
  <2>7. QED BY <1>3, <2>5, <2>6 DEF y
<1>4. QED BY <1>2, <1>3

(* No retry, no wait. *)
LEMMA ScheduleStarts ==
  ASSUME NEW c, c.delay \in Int, c.backoff \in BOOLEAN
  PROVE  Waits(c, 0) = 0
<1>1. Pause(c) \in Nat
  BY DEF Pause
<1>2. Pause(c) * 0 = 0 /\ Pause(c) * 0 * (0 + 1) = 0
  BY <1>1
<1>3. QED BY <1>2 DEF Waits

(* What StartSleep waits is what the schedule says. *)
LEMMA WaitIsPause ==
  ASSUME NEW c, c.delay \in Int, NEW n \in Nat, n > 0
  PROVE  /\ Pause(c) * n = IF c.delay * n > 0 THEN c.delay * n ELSE 0
         /\ Pause(c) = IF c.delay > 0 THEN c.delay ELSE 0
<1>1. CASE c.delay > 0
  <2>1. c.delay * n > 0
    BY <1>1
  <2>2. QED BY <1>1, <2>1 DEF Pause
<1>2. CASE ~(c.delay > 0)
  <2>1. ~(c.delay * n > 0)
    BY <1>2
  <2>2. QED BY <1>2, <2>1 DEF Pause
<1>3. QED BY <1>1, <1>2

(* A turn is a length of time, with backoff a longer one than the last. *)
LEMMA TurnGrows ==
  ASSUME NEW c, c.delay \in Int, c.backoff \in BOOLEAN, NEW n \in Nat, n > 0
  PROVE  /\ Turn(c, n) \in Nat
         /\ Turn(c, 1) = Pause(c)
         /\ c.delay > 0 /\ c.backoff => Turn(c, n + 1) > Turn(c, n)
         /\ ~(c.delay > 0 /\ c.backoff) => Turn(c, n + 1) = Turn(c, n)
<1>1. Pause(c) \in Nat /\ (c.delay > 0 <=> Pause(c) > 0)
  BY DEF Pause
<1>2. /\ Pause(c) * n \in Nat /\ Pause(c) * 1 = Pause(c)
      /\ Pause(c) * (n + 1) = Pause(c) * n + Pause(c)
  BY <1>1
<1>3. QED BY <1>1, <1>2 DEF Turn

(* Settings that Validate has been over are settings of the right kind. *)
LEMMA SettingsTyped ==
  ASSUME TypeOK
  PROVE  /\ config.enabled \in BOOLEAN /\ config.backoff \in BOOLEAN
         /\ config.maxRetries \in Int /\ config.delay \in Int
BY RetryAssumption DEF TypeOK, Validate, WithDefault

---------------------------------------------------------------------------
(* The loop starts with nothing done. *)
LEMMA InvInit == Init => IInv
<1> SUFFICES ASSUME Init PROVE IInv
  OBVIOUS
<1>1. TypeOK
  <2>1. config \in {Validate(file) : file \in Files}
    BY DEF Init
  <2>2. cancelled \in BOOLEAN /\ lastErr \in {NoError, NotFound, Network, Other, Canceled}
    BY DEF Init
  <2>3. QED BY <2>1, <2>2 DEF Init, TypeOK
<1>2. Place /\ Lateness /\ OneCallAfterCancel /\ AnswersLastCall /\ Slept /\ Paused
  BY DEF Init, Place, Lateness, OneCallAfterCancel, AnswersLastCall, Slept, ScheduleFollowed, Paused
<1>3. QED BY <1>1, <1>2 DEF IInv

(* A first call, without delay. *)
LEMMA InvCallAtOnce == IInv /\ CallAtOnce => IInv'
<1> SUFFICES ASSUME IInv, CallAtOnce PROVE IInv'
  OBVIOUS
<1> USE DEF IInv, CallAtOnce, Call, TriesLeft, history
<1>1. TypeOK'
  BY DEF TypeOK, Lateness
<1>2. Place'
  BY DEF TypeOK, Place
<1>3. Lateness' /\ OneCallAfterCancel'
  BY DEF TypeOK, Lateness, OneCallAfterCancel
<1>4. AnswersLastCall'
  BY DEF TypeOK, AnswersLastCall
<1>5. Slept'
  <2>1. calls = 0 /\ waited = 0 /\ calls' - 1 = 0
    BY DEF TypeOK, Place, Slept
  <2>2. Waits(config, 0) = 0
    BY SettingsTyped, ScheduleStarts
  <2>3. QED BY <2>1, <2>2 DEF Slept, ScheduleFollowed
<1>6. Paused'
  BY DEF TypeOK, Place, Paused
<1>7. QED BY <1>1, <1>2, <1>3, <1>4, <1>5, <1>6

(* A wait, and no call so far for a client that is gone. *)
LEMMA InvStartSleep == IInv /\ StartSleep => IInv'
<1> SUFFICES ASSUME IInv, StartSleep PROVE IInv'
  OBVIOUS
<1> USE DEF IInv, StartSleep, TriesLeft, SeesCancel, history
<1>1. /\ calls = attempt /\ attempt \in Nat /\ attempt > 0 /\ waited \in Nat
      /\ waited = Waits(config, attempt - 1)
  BY DEF TypeOK, Place, Slept
<1>2. left' \in Nat /\ Waits(config, attempt) = waited + left' /\ left' = Turn(config, attempt)
  <2>1. /\ Waits(config, attempt) \in Nat
        /\ Waits(config, attempt) =
             waited + (IF config.backoff THEN Pause(config) * attempt ELSE Pause(config))
    BY <1>1, SettingsTyped, ScheduleGrows
  <2>2. left' = IF config.backoff THEN Pause(config) * attempt ELSE Pause(config)
    <3>1. /\ Pause(config) * attempt =
                 IF config.delay * attempt > 0 THEN config.delay * attempt ELSE 0
          /\ Pause(config) = IF config.delay > 0 THEN config.delay ELSE 0
      BY <1>1, SettingsTyped, WaitIsPause
    <3>2. QED BY <3>1 DEF Delay
  <2>3. left' \in Nat
    <3>1. config.delay * attempt \in Int /\ config.delay \in Int
      BY <1>1, SettingsTyped
    <3>2. QED BY <3>1 DEF Delay
  <2>4. QED BY <2>1, <2>2, <2>3 DEF Turn
<1>3. TypeOK'
  BY <1>2 DEF TypeOK
<1>4. Place' /\ Lateness' /\ OneCallAfterCancel'
  BY DEF TypeOK, Place, Lateness, OneCallAfterCancel, isRetryableError
<1>5. AnswersLastCall'
  BY DEF TypeOK, AnswersLastCall
<1>6. Slept'
  BY <1>1, <1>2 DEF Slept, ScheduleFollowed
<1>7. Paused'
  BY <1>1, <1>2 DEF TypeOK, Paused
<1>8. QED BY <1>3, <1>4, <1>5, <1>6, <1>7

(* Time slept is time no longer to be slept. *)
LEMMA InvSleep == IInv /\ Sleep => IInv'
<1> SUFFICES ASSUME IInv, Sleep PROVE IInv'
  OBVIOUS
<1> USE DEF IInv, Sleep, history
<1>1. TypeOK'
  BY DEF TypeOK
<1>2. Place' /\ Lateness' /\ OneCallAfterCancel'
  BY DEF Place, Lateness, OneCallAfterCancel, isRetryableError
<1>3. AnswersLastCall'
  BY DEF AnswersLastCall, isRetryableError
<1>4. Slept' /\ Paused'
  BY DEF TypeOK, Slept, ScheduleFollowed, Paused
<1>5. QED BY <1>1, <1>2, <1>3, <1>4

(* The next call: the only one that a client who left meanwhile may cause. *)
LEMMA InvCallAgain == IInv /\ CallAgain => IInv'
<1> SUFFICES ASSUME IInv, CallAgain PROVE IInv'
  OBVIOUS
<1> USE DEF IInv, CallAgain, Call, history
<1>1. TypeOK'
  BY DEF TypeOK, Lateness
<1>2. Place' /\ Lateness' /\ OneCallAfterCancel'
  BY DEF TypeOK, Place, Lateness, OneCallAfterCancel
<1>3. AnswersLastCall'
  BY DEF TypeOK, AnswersLastCall
<1>4. Slept'
  <2>1. calls' - 1 = calls /\ waited = Waits(config, calls)
    BY DEF TypeOK, Slept, ScheduleFollowed
  <2>2. QED BY <2>1 DEF Slept, ScheduleFollowed
<1>5. Paused'
  <2>1. calls \in Nat /\ calls > 0 /\ calls' - 1 = calls /\ before' = Turn(config, calls)
    BY DEF TypeOK, Place, Paused
  <2>2. QED BY <2>1 DEF Paused
<1>6. QED BY <1>1, <1>2, <1>3, <1>4, <1>5

(* The loop ends without a call, all tries spent or the client gone. *)
LEMMA InvStop == IInv /\ (GiveUp \/ StopOnCancel) => IInv'
<1> SUFFICES ASSUME IInv, GiveUp \/ StopOnCancel PROVE IInv'
  OBVIOUS
<1> USE DEF IInv, GiveUp, StopOnCancel, Return, TriesLeft, SeesCancel, history
<1>1. TypeOK'
  BY DEF TypeOK
<1>2. Place' /\ Lateness' /\ OneCallAfterCancel' /\ Slept' /\ Paused'
  BY DEF Place, Lateness, OneCallAfterCancel, Slept, ScheduleFollowed, Paused
<1>3. AnswersLastCall'
  BY SettingsTyped DEF TypeOK, Place, AnswersLastCall, isRetryableError
<1>4. QED BY <1>1, <1>2, <1>3

(* The call succeeds. *)
LEMMA InvSucceed == IInv /\ Succeed => IInv'
<1> SUFFICES ASSUME IInv, Succeed PROVE IInv'
  OBVIOUS
<1> USE DEF IInv, Succeed, Return, history
<1>1. TypeOK'
  BY DEF TypeOK
<1>2. Place' /\ Lateness' /\ OneCallAfterCancel' /\ Slept' /\ Paused'
  BY DEF Place, Lateness, OneCallAfterCancel, Slept, ScheduleFollowed, Paused
<1>3. AnswersLastCall'
  BY DEF TypeOK, Place, AnswersLastCall
<1>4. QED BY <1>1, <1>2, <1>3

(* The call fails, and is repeated only for an error that may pass. *)
LEMMA InvFail == ASSUME IInv, NEW err \in Errors, Fail(err) PROVE IInv'
<1> USE DEF IInv, Fail, Return, history
<1>1. err # NoError /\ err \in {NotFound, Network, Other, Canceled}
  <2>1. err \in {NotFound, Network, Other, Canceled}
    BY DEF Errors
  <2>2. NoError.kind = "none"
    BY DEF NoError
  <2>3. /\ NotFound.kind = "notFound" /\ Network.kind = "network"
        /\ Other.kind = "other" /\ Canceled.kind = "canceled"
    BY DEF NotFound, Network, Other, Canceled
  <2>4. QED BY <2>1, <2>2, <2>3
<1>2. TypeOK'
  BY <1>1 DEF TypeOK
<1>3. Place'
  BY SettingsTyped DEF TypeOK, Place, isRetryableError
<1>4. Lateness' /\ OneCallAfterCancel'
  BY DEF TypeOK, Lateness, OneCallAfterCancel
<1>5. AnswersLastCall'
  BY <1>1 DEF TypeOK, AnswersLastCall, isRetryableError
<1>6. Slept' /\ Paused'
  BY DEF TypeOK, Place, Slept, ScheduleFollowed, Paused
<1>7. QED BY <1>2, <1>3, <1>4, <1>5, <1>6

(* The client leaves. *)
LEMMA InvCancel == IInv /\ Cancel => IInv'
<1> SUFFICES ASSUME IInv, Cancel PROVE IInv'
  OBVIOUS
<1> USE DEF IInv, Cancel, history
<1>1. TypeOK'
  BY DEF TypeOK
<1>2. Place' /\ Lateness' /\ OneCallAfterCancel' /\ Slept' /\ Paused'
  BY DEF TypeOK, Place, Lateness, OneCallAfterCancel, Slept, ScheduleFollowed, Paused,
         isRetryableError
<1>3. AnswersLastCall'
  BY DEF AnswersLastCall, isRetryableError
<1>4. QED BY <1>1, <1>2, <1>3

(* Every step keeps the invariant. *)
LEMMA InvNext == IInv /\ [Next]_vars => IInv'
<1> SUFFICES ASSUME IInv, [Next]_vars PROVE IInv'
  OBVIOUS
<1>1. CASE UNCHANGED vars
  BY <1>1 DEF vars, history, IInv, TypeOK, Place, Lateness, OneCallAfterCancel, AnswersLastCall,
              Slept, ScheduleFollowed, Paused, isRetryableError
<1>2. CASE Cancel
  BY <1>2, InvCancel
<1>3. CASE Step
  <2>1. ASSUME NEW err \in Errors, Fail(err) PROVE IInv'
    BY <2>1, InvFail
  <2>2. QED
    BY <1>3, <2>1, InvCallAtOnce, InvStop, InvStartSleep, InvSleep, InvCallAgain, InvSucceed
    DEF Step
<1>4. QED BY <1>1, <1>2, <1>3 DEF Next

(* The invariant holds always. *)
THEOREM Invariance == Spec => []IInv
BY InvInit, InvNext, PTL DEF Spec

---------------------------------------------------------------------------
(* What the loop may cost. *)

(* A product grows with its first factor. *)
LEMMA ProductGrows ==
  ASSUME NEW x \in Nat, NEW y \in Nat, x =< y, NEW k \in Nat
  PROVE  x * k \in Nat /\ y * k \in Nat /\ x * k =< y * k
<1> DEFINE d == y - x
<1>1. d \in Nat /\ y = x + d
  OBVIOUS
<1> HIDE DEF d
<1>2. y * k = x * k + d * k
  BY <1>1
<1>3. d * k \in Nat /\ x * k \in Nat
  BY <1>1
<1>4. QED BY <1>2, <1>3

(* More retries, no less waiting. *)
LEMMA WaitsGrow ==
  ASSUME NEW c, c.delay \in Int, c.backoff \in BOOLEAN,
         NEW m \in Nat, NEW n \in Nat, m =< n
  PROVE  /\ Waits(c, m) \in Nat /\ Waits(c, n) \in Nat
         /\ Waits(c, m) =< Waits(c, n)
<1> DEFINE a == Pause(c) * m
           b == Pause(c) * n
           x == a * (m + 1)
           y == b * (n + 1)
<1>1. Pause(c) \in Nat
  BY DEF Pause
<1>2. a \in Nat /\ b \in Nat /\ a =< b
  <2>1. m * Pause(c) \in Nat /\ n * Pause(c) \in Nat /\ m * Pause(c) =< n * Pause(c)
    BY <1>1, ProductGrows
  <2>2. Pause(c) * m = m * Pause(c) /\ Pause(c) * n = n * Pause(c)
    BY <1>1
  <2>3. QED BY <2>1, <2>2
<1> HIDE DEF a, b
<1>3. x \in Nat /\ y \in Nat /\ x =< y
  <2>1. a * (m + 1) \in Nat /\ b * (m + 1) \in Nat /\ a * (m + 1) =< b * (m + 1)
    BY <1>2, ProductGrows
  <2>2. (m + 1) * b \in Nat /\ (n + 1) * b \in Nat /\ (m + 1) * b =< (n + 1) * b
    <3>1. m + 1 \in Nat /\ n + 1 \in Nat /\ m + 1 =< n + 1
      OBVIOUS
    <3>2. QED BY <1>2, <3>1, ProductGrows
  <2>3. (m + 1) * b = b * (m + 1) /\ (n + 1) * b = b * (n + 1)
    BY <1>2
  <2>4. QED BY <2>1, <2>2, <2>3
<1> HIDE DEF x, y
<1>4. x \div 2 \in Nat /\ y \div 2 \in Nat /\ x \div 2 =< y \div 2
  BY <1>3
<1>5. Waits(c, m) = (IF c.backoff THEN x \div 2 ELSE a)
  BY DEF Waits, x, a
<1>6. Waits(c, n) = (IF c.backoff THEN y \div 2 ELSE b)
  BY DEF Waits, y, b
<1>7. QED BY <1>2, <1>4, <1>5, <1>6

Running == pc # "done"

(* While it runs, its place in the loop bounds what it has cost so far. *)
LEMMA EffortOfPlace == IInv /\ Running => EffortBounded
<1> SUFFICES ASSUME IInv, pc # "done" PROVE EffortBounded
  BY DEF Running
<1>1. /\ config.enabled \in BOOLEAN /\ config.backoff \in BOOLEAN
      /\ config.maxRetries \in Int /\ config.delay \in Int
      /\ attempt \in Nat /\ calls \in Nat /\ left \in Nat /\ waited \in Nat
      /\ pc \in {"head", "sleep", "calling"}
  BY SettingsTyped DEF IInv, TypeOK
<1>2. calls =< MostCalls(config)
  BY <1>1 DEF IInv, Place, MostCalls
<1>3. PICK n \in Nat : /\ waited + left = Waits(config, n)
                       /\ n =< MostRetries(config)
  <2>1. CASE calls = 0
    <3>1. pc = "head"
      BY <1>1, <2>1 DEF IInv, Place
    <3>2. waited + left = 0
      BY <1>1, <2>1, <3>1 DEF IInv, Place, Slept
    <3>3. Waits(config, 0) = 0
      BY <1>1, ScheduleStarts
    <3>4. QED BY <1>1, <3>2, <3>3 DEF MostRetries
  <2>2. CASE calls # 0 /\ pc = "sleep"
    <3>1. waited + left = Waits(config, calls)
      BY <2>2 DEF IInv, Slept, ScheduleFollowed
    <3>2. calls =< MostRetries(config)
      BY <1>1, <2>2 DEF IInv, Place, MostRetries
    <3>3. QED BY <1>1, <3>1, <3>2
  <2>3. CASE calls # 0 /\ pc # "sleep"
    <3>1. calls - 1 \in Nat
      BY <1>1, <2>3
    <3>2. waited + left = Waits(config, calls - 1)
      BY <1>1, <2>3 DEF IInv, Place, Slept, ScheduleFollowed
    <3>3. calls - 1 =< MostRetries(config)
      BY <1>1, <2>3 DEF IInv, Place, MostRetries
    <3>4. QED BY <3>1, <3>2, <3>3
  <2>4. QED BY <2>1, <2>2, <2>3
<1>4. MostRetries(config) \in Nat
  BY <1>1 DEF MostRetries
<1>5. Waits(config, n) =< Waits(config, MostRetries(config))
  BY <1>1, <1>3, <1>4, WaitsGrow
<1>6. QED BY <1>2, <1>3, <1>5 DEF EffortBounded

(* Its end, and what happens after it, costs nothing. *)
LEMMA EndIsFree == [Next]_vars /\ ~Running' => UNCHANGED <<config, calls, waited, left>>
BY DEF Running, Next, vars, history, Step, CallAtOnce, GiveUp, StopOnCancel, StartSleep, Sleep, CallAgain, Succeed,
       Fail, Cancel, Call, Return

(* The cost of a sign-in is bounded whenever it ends. *)
THEOREM EffortIsBounded == Spec => []EffortBounded
<1>1. Init => EffortBounded
  <2>1. Init => IInv /\ Running
    BY InvInit DEF Init, Running
  <2>2. QED BY <2>1, EffortOfPlace
<1>2. EffortBounded /\ [Next]_vars /\ ~Running' => EffortBounded'
  BY EndIsFree DEF EffortBounded, MostCalls, MostRetries, Waits, Pause
<1>3. IInv' /\ Running' => EffortBounded'
  BY EffortOfPlace, PTL
<1>4. EffortBounded /\ IInv' /\ [Next]_vars => EffortBounded'
  BY <1>2, <1>3
<1>5. QED BY <1>1, <1>4, Invariance, PTL DEF Spec

(* The loop's state keeps its types, whatever numbers the file holds. *)
THEOREM TypeCorrect == Spec => []TypeOK
<1>1. IInv => TypeOK
  BY DEF IInv
<1>2. QED BY <1>1, Invariance, PTL

(* The first pause is retry_delay, and with backoff each is longer than    *)
(* the one before, without backoff as long.                                *)
THEOREM PausesAreAsConfigured == Spec => PausesIncrease
<1> DEFINE Act == CallAgain =>
      /\ calls = 1 => since = Pause(config)
      /\ calls > 1 => IF config.backoff /\ config.delay > 0 THEN since > before ELSE since = before
<1>1. IInv /\ [Next]_vars => [Act]_vars
  <2> SUFFICES ASSUME IInv, CallAgain PROVE Act
    OBVIOUS
  <2>1. calls \in Nat /\ calls > 0 /\ since = Turn(config, calls)
    BY DEF IInv, TypeOK, Place, Paused, CallAgain
  <2>2. calls > 1 => before = Turn(config, calls - 1)
    BY DEF IInv, Paused, CallAgain
  <2>3. Turn(config, 1) = Pause(config)
    BY SettingsTyped, TurnGrows DEF IInv
  <2>4. ASSUME calls > 1
        PROVE  /\ config.delay > 0 /\ config.backoff => Turn(config, calls) > Turn(config, calls - 1)
               /\ ~(config.delay > 0 /\ config.backoff) =>
                    Turn(config, calls) = Turn(config, calls - 1)
    <3>1. calls - 1 \in Nat /\ calls - 1 > 0 /\ (calls - 1) + 1 = calls
      BY <2>1, <2>4
    <3>2. QED BY <3>1, SettingsTyped, TurnGrows DEF IInv
  <2>5. QED BY <2>1, <2>2, <2>3, <2>4
<1>2. QED BY <1>1, Invariance, PTL DEF Spec, PausesIncrease

(* The answer of ExecuteWithRetry reflects what its calls did. *)
THEOREM AnswerIsHonest == Spec => []AnswersLastCall
<1>1. IInv => AnswersLastCall
  BY DEF IInv
<1>2. QED BY <1>1, Invariance, PTL

(* At most one call is made for a client that is gone. *)
THEOREM StopsForCancel == Spec => []OneCallAfterCancel
<1>1. IInv => OneCallAfterCancel
  BY DEF IInv
<1>2. QED BY <1>1, Invariance, PTL
============================================================================
