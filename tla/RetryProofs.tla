----------------------------- MODULE RetryProofs -----------------------------
(***************************************************************************)
(* What Retry guarantees for every retry budget, process id, set of        *)
(* Retry-After values and either kind of throttling.                       *)
(***************************************************************************)
EXTENDS Retry, TLAPS

-----------------------------------------------------------------------------
(* The strengthening: what is on the wire, how often it was sent and       *)
(* served, and how long the call slept, tied to where the loop stands.     *)

\* Every pass of the loop puts one request on the wire.
SendsFollowAttempts ==
    /\ pc = "ready" => sends = attempt
    /\ pc \in {"waiting", "sleeping"} => sends = attempt + 1
    /\ result = "rateLimited" => sends = attempt + 1
    /\ sends <= attempt + 1

\* Only a retryable request is ever repeated, and only within the budget.
RetriesOnlySafe ==
    /\ attempt > 0 => ~Unsafe(route)
    /\ pc = "sleeping" => attempt < MaxRetries /\ ~Unsafe(route)
    /\ result = "rateLimited" => attempt = MaxRetries \/ Unsafe(route)

\* Each request is served at most once, and a served one has been sent.
ServesOnlySent ==
    /\ executed <= sends
    /\ wire = Sent => executed < sends

\* An answer is only on the wire while it is awaited, a response follows an
\* execution, and the limiter's 429 rules one out.
WireMatchesLoop ==
    /\ pc \in {"ready", "sleeping"} => wire = Idle
    /\ pc = "done" => wire \in {Idle, Sent}
    /\ result \in {"response", "rateLimited"} => wire = Idle
    /\ wire.kind = "response" => executed > 0
    /\ ~LateThrottle /\ executed > 0 => pc = "done" \/ wire.kind = "response"
    /\ pc = "done" <=> result # "pending"

\* A minute per retry, the running sleep included.
SleepsAMinuteEach ==
    /\ waited <= attempt * Minute
    /\ delay <= Minute
    /\ delay > 0 => attempt < MaxRetries

IInv == /\ TypeOK
        /\ SendsFollowAttempts
        /\ RetriesOnlySafe
        /\ ServesOnlySent
        /\ WireMatchesLoop
        /\ SleepsAMinuteEach
-----------------------------------------------------------------------------
(* Lemmas about the operators.                                             *)

\* On the routes the client uses, is_retryable admits exactly the requests
\* that are safe to repeat.
LEMMA RetryableIsSafe ==
    ASSUME NEW r \in Routes
    PROVE  IsRetryable(r) <=> ~Unsafe(r)
BY DEF Routes, IsRetryable, Unsafe, RetryableActions, OtherActions

\* The kind of a message identifies it, but for the header of a 429.
LEMMA MessageKinds ==
    ASSUME NEW w \in Messages
    PROVE  /\ w.kind \in {"idle", "request", "response", "throttled"}
           /\ w.kind = "idle" <=> w = Idle
           /\ w.kind = "request" <=> w = Sent
           /\ w.kind = "response" <=> w = Response
           /\ w.kind = "throttled" => w.header \in Headers
BY DEF Messages, Idle, Sent, Response

\* A 429 is a message that is none of the others.
LEMMA ThrottledIsMessage ==
    ASSUME NEW h \in Headers
    PROVE  /\ Throttled(h) \in Messages
           /\ Throttled(h).kind = "throttled"
           /\ Throttled(h) # Idle /\ Throttled(h) # Sent
BY DEF Throttled, Messages, Idle, Sent

\* The jitter of retry_delay is less than a second.
LEMMA JitterBounded ==
    ASSUME NEW n \in Nat
    PROVE  JitterMillis(n) \in Nat /\ JitterMillis(n) < Second
<1>1. Pid \in Nat
  BY RetryAssumption
<1>2. Pid % 1000 \in Nat /\ n % 1000 \in Nat
  BY <1>1
<1> DEFINE s == (Pid % 1000) * 761 + (n % 1000) * 503
<1>3. s \in Nat
  BY <1>2
<1>4. s % 1000 \in Nat /\ s % 1000 < 1000
  <2> HIDE DEF s
  <2> QED BY <1>3
<1> QED BY <1>4 DEF JitterMillis, Second

\* The sixty-second cap: no single sleep is longer than a minute, with or
\* without a Retry-After.
LEMMA RetryDelayBounded ==
    ASSUME NEW n \in Nat, NEW h \in Headers
    PROVE  RetryDelay(n, ParseRetryAfter(h)) \in 0..Minute
<1>1. ASSUME NEW a \in Nat, a <= 60 PROVE a * Second \in 0..Minute
  BY <1>1, SMT DEF Second, Minute
<1>2. ASSUME NEW a \in 1..32, NEW j \in Nat, j < Second
      PROVE  a * Second + j \in 0..Minute
  <2>1. a * Second \in Nat /\ a * Second <= 32000
    BY <1>2, SMT DEF Second
  <2>2. a * Second + j \in Nat /\ a * Second + j <= 33000
    <3> DEFINE b == a * Second
    <3>1. b \in Nat /\ b <= 32000 /\ j \in Nat /\ j < 1000
      BY <1>2, <2>1 DEF Second
    <3> HIDE DEF b
    <3>2. b + j \in Nat /\ b + j <= 33000
      BY <3>1
    <3> QED BY <3>2 DEF b
  <2>3. 33000 <= Minute /\ Minute \in Nat
    BY DEF Second, Minute
  <2> DEFINE c == a * Second + j
  <2> HIDE DEF c
  <2>4. c \in Nat /\ c <= 33000
    BY <2>2 DEF c
  <2>5. c \in 0..Minute
    BY <2>3, <2>4
  <2> QED BY <2>5 DEF c
<1>3. CASE h.form = "seconds"
  <2>1. h.value \in Nat
    BY <1>3, RetryAssumption DEF Headers
  <2>2. Lesser(h.value, 60) \in Nat /\ Lesser(h.value, 60) <= 60
    BY <2>1 DEF Lesser
  <2>3. ParseRetryAfter(h) = h /\ h # None
    BY <1>3 DEF ParseRetryAfter, None
  <2>4. RetryDelay(n, h) = Lesser(h.value, 60) * Second
    BY <2>3, Zenon DEF RetryDelay
  <2> QED BY <1>1, <2>2, <2>3, <2>4, Zenon
<1>4. CASE h.form # "seconds"
  <2>1. ParseRetryAfter(h) = None
    BY <1>4 DEF ParseRetryAfter
  <2>2. Lesser(n, 5) \in 0..5
    BY DEF Lesser
  <2>3. \A k \in 0..5 : ShiftedOne(k) \in 1..32
    BY DEF ShiftedOne
  <2>4. ShiftedOne(Lesser(n, 5)) \in 1..32
    BY <2>2, <2>3, Zenon
  <2>5. JitterMillis(n) \in Nat /\ JitterMillis(n) < Second
    BY JitterBounded, Zenon
  <2>6. RetryDelay(n, None) = ShiftedOne(Lesser(n, 5)) * Second + JitterMillis(n)
    BY Zenon DEF RetryDelay
  <2> QED BY <1>2, <2>1, <2>4, <2>5, <2>6, Zenon
<1> QED BY <1>3, <1>4

-----------------------------------------------------------------------------
(* The jitter.  Retry works with residues; this is the code's own          *)
(* arithmetic, on 64-bit words, and what it makes of a fleet of clients.   *)

Word32 == 4294967296
Word64 == Word32 * Word32

PidFactor     == 2654435761
AttemptFactor == 40503

\* wrapping_mul, wrapping_add and wrapping_mul of u64, then the remainder.
JitterAsWritten(pid, n) ==
    ((((pid * PidFactor) % Word64) + ((n * AttemptFactor) % Word64)) % Word64) % 1000

JitterOfResidues(pid, n) == ((pid % 1000) * 761 + (n % 1000) * 503) % 1000

\* Two factors that fit one word together cannot make two one-word numbers
\* overflow two words.
LEMMA ProductsFit ==
    ASSUME NEW w \in Nat, NEW k \in Nat, NEW l \in Nat, k + l < w,
           NEW p \in Nat, NEW n \in Nat, p < w, n < w
    PROVE  p * k \in Nat /\ n * l \in Nat /\ p * k + n * l < w * w
<1>1. p * k <= w * k /\ n * l <= w * l
  BY SMT
<1>2. w * k + w * l = w * (k + l)
  BY SMT
<1>3. w * (k + l) < w * w
  BY SMT
<1> QED BY <1>1, <1>2, <1>3, SMT

\* A number below the modulus is its own remainder.
LEMMA SmallRemainder ==
    ASSUME NEW a \in Nat, NEW w \in Nat, a < w
    PROVE  a % w = a
BY SMT

\* Process ids and attempts are u32, so nothing ever wraps, and the factors
\* may be reduced before they are multiplied.
LEMMA JitterReduces ==
    ASSUME NEW p \in Nat, NEW n \in Nat, p < Word32, n < Word32
    PROVE  JitterAsWritten(p, n) = JitterOfResidues(p, n)
<1> DEFINE x == p * PidFactor
           y == n * AttemptFactor
<1>1. /\ Word32 \in Nat /\ PidFactor \in Nat /\ AttemptFactor \in Nat
      /\ PidFactor + AttemptFactor < Word32
  BY SMT DEF Word32, PidFactor, AttemptFactor
<1>2. x \in Nat /\ y \in Nat /\ x + y < Word64 /\ Word64 \in Nat
  BY <1>1, ProductsFit, SMT DEF Word64
<1>3. (x + y) % 1000 = JitterOfResidues(p, n)
  BY SMT DEF JitterOfResidues, PidFactor, AttemptFactor
<1> HIDE DEF x, y
<1>4. x < Word64 /\ y < Word64 /\ x + y \in Nat
  BY <1>2, SMT
<1>5. x % Word64 = x /\ y % Word64 = y /\ (x + y) % Word64 = x + y
  BY <1>2, <1>4, SmallRemainder, SMT
<1> QED BY <1>3, <1>5, SMT DEF JitterAsWritten, x, y

\* The jitter of Retry is the code's, on every process and every attempt.
THEOREM JitterIsTheCodes ==
    ASSUME Pid < Word32, NEW n \in Nat, n < Word32
    PROVE  JitterMillis(n) = JitterAsWritten(Pid, n)
<1>1. JitterMillis(n) = JitterOfResidues(Pid, n)
  BY DEF JitterMillis, JitterOfResidues
<1> QED BY <1>1, RetryAssumption, JitterReduces

\* "Different processes get different offsets" - unless their ids agree
\* modulo 1000: then, and only then, they back off in step, and if they do
\* at one attempt they do at every one.
THEOREM OffsetsTellProcessesApart ==
    ASSUME NEW p \in Nat, NEW q \in Nat, p < Word32, q < Word32
    PROVE  \A n \in Nat : n < Word32 =>
              (JitterAsWritten(p, n) = JitterAsWritten(q, n) <=> p % 1000 = q % 1000)
<1> SUFFICES ASSUME NEW n \in Nat, n < Word32
             PROVE  JitterAsWritten(p, n) = JitterAsWritten(q, n) <=> p % 1000 = q % 1000
  OBVIOUS
<1>1. JitterOfResidues(p, n) = JitterOfResidues(q, n) <=> p % 1000 = q % 1000
  BY SMT DEF JitterOfResidues
<1> QED BY <1>1, JitterReduces

\* The offset of a process changes from each attempt to the next, and a
\* budget below a thousand never meets the same offset twice.
THEOREM OffsetsDifferByAttempt ==
    ASSUME NEW p \in Nat, p < Word32, NEW m \in Nat, NEW n \in Nat, m < n, n < 1000
    PROVE  JitterAsWritten(p, m) # JitterAsWritten(p, n)
<1>1. JitterOfResidues(p, m) # JitterOfResidues(p, n)
  BY SMT DEF JitterOfResidues
<1>2. m < Word32 /\ n < Word32
  BY SMT DEF Word32
<1> QED BY <1>1, <1>2, JitterReduces

-----------------------------------------------------------------------------
(* The invariant.                                                          *)

\* send_with_retry starts with nothing sent and nothing slept.
LEMMA InitEstablishes == Init => IInv
BY RetryAssumption
DEF Init, IInv, TypeOK, SendsFollowAttempts, RetriesOnlySafe, ServesOnlySent,
    WireMatchesLoop, SleepsAMinuteEach, Messages, Idle, Sent, Second, Minute

\* The handler, the limiter or a proxy answers: only the wire and the count
\* of executions change.
LEMMA ServerPreserves ==
    ASSUME IInv, Server
    PROVE  IInv'
<1> USE RetryAssumption
<1>1. wire = Sent /\ executed < sends /\ pc \in {"waiting", "done"}
  BY MessageKinds DEF IInv, TypeOK, Server, Serve, Throttle, ThrottleLate,
                      ServesOnlySent, WireMatchesLoop, Idle, Sent
<1>2. executed' \in {executed, executed + 1}
  BY DEF Server, Serve, Throttle, ThrottleLate
<1>3. /\ wire' \in Messages /\ wire' # Sent
      /\ pc = "done" => wire' = Idle
      /\ wire'.kind = "response" => executed' > 0
      /\ ~LateThrottle /\ executed' > 0 => pc = "done" \/ wire'.kind = "response"
  <2>1. CASE Serve
    <3>1. executed' > 0
      BY <2>1 DEF Serve, IInv, TypeOK
    <3>2. wire' = IF pc = "waiting" THEN Response ELSE Idle
      BY <2>1 DEF Serve, Answer
    <3> QED BY <1>1, <3>1, <3>2 DEF Messages, Idle, Sent, Response
  <2>2. CASE Throttle
    <3>1. PICK h \in Headers : Answer(Throttled(h))
      BY <2>2 DEF Throttle
    <3>2. ~LateThrottle /\ executed > 0 => pc = "done"
      BY <1>1 DEF IInv, WireMatchesLoop, Sent
    <3> QED BY <2>2, <3>1, <3>2, ThrottledIsMessage
            DEF Throttle, Answer, Messages, Idle, Sent
  <2>3. CASE ThrottleLate
    <3>1. PICK h \in Headers : Answer(Throttled(h))
      BY <2>3 DEF ThrottleLate
    <3> QED BY <2>3, <3>1, ThrottledIsMessage
            DEF ThrottleLate, Answer, Messages, Idle, Sent
  <2> QED BY <2>1, <2>2, <2>3 DEF Server
<1>4. UNCHANGED <<route, pc, attempt, sends, delay, waited, result>>
  BY DEF Server, Serve, Throttle, ThrottleLate
<1>5. TypeOK'
  BY <1>2, <1>3, <1>4 DEF IInv, TypeOK
<1>6. SendsFollowAttempts' /\ RetriesOnlySafe' /\ SleepsAMinuteEach'
  BY <1>4 DEF IInv, SendsFollowAttempts, RetriesOnlySafe, SleepsAMinuteEach
<1>7. ServesOnlySent'
  BY <1>1, <1>2, <1>3, <1>4 DEF IInv, TypeOK, ServesOnlySent
<1>8. WireMatchesLoop'
  BY <1>1, <1>3, <1>4 DEF IInv, TypeOK, WireMatchesLoop
<1> QED BY <1>5, <1>6, <1>7, <1>8 DEF IInv

\* One pass of the loop: the request goes out, or its answer is handled.
LEMMA ClientPreserves ==
    ASSUME IInv, Client
    PROVE  IInv'
<1> USE RetryAssumption
<1> USE DEF IInv, TypeOK, SendsFollowAttempts, RetriesOnlySafe,
            ServesOnlySent, WireMatchesLoop, SleepsAMinuteEach
<1>1. CASE Send
  BY <1>1 DEF Send, Messages, Idle, Sent
<1>2. CASE ReceiveResponse
  BY <1>2 DEF ReceiveResponse, Return, Messages, Idle, Sent
<1>3. CASE ReceiveThrottledGivesUp
  <2>1. attempt = MaxRetries \/ Unsafe(route)
    BY <1>3, RetryableIsSafe DEF ReceiveThrottledGivesUp, GivesUp
  <2> QED BY <1>3, <2>1 DEF ReceiveThrottledGivesUp, Return, Messages, Idle, Sent
<1>4. CASE ReceiveThrottledSleeps
  <2>1. ~Unsafe(route) /\ attempt < MaxRetries
    BY <1>4, RetryableIsSafe DEF ReceiveThrottledSleeps, GivesUp
  <2>2. wire.header \in Headers
    BY <1>4, MessageKinds DEF ReceiveThrottledSleeps
  <2>3. attempt \in Nat
    OBVIOUS
  <2>4. RetryDelay(attempt, ParseRetryAfter(wire.header)) \in 0..Minute
    BY <2>2, <2>3, RetryDelayBounded, Zenon
  <2>5. delay' \in 0..Minute
    BY <1>4, <2>4 DEF ReceiveThrottledSleeps
  <2>6. ~LateThrottle => executed = 0
    BY <1>4 DEF ReceiveThrottledSleeps
  <2>7. /\ pc = "waiting" /\ pc' = "sleeping" /\ wire' = Idle
        /\ UNCHANGED <<route, attempt, sends, executed, waited, result>>
    BY <1>4 DEF ReceiveThrottledSleeps
  <2>8. delay' \in Nat /\ delay' <= Minute
    BY <2>5 DEF Second, Minute
  <2>9. TypeOK'
    BY <2>7, <2>8 DEF Messages
  <2>10. SleepsAMinuteEach'
    BY <2>1, <2>7, <2>8 DEF Second, Minute
  <2>11. SendsFollowAttempts' /\ RetriesOnlySafe' /\ ServesOnlySent' /\ WireMatchesLoop'
    BY <2>1, <2>6, <2>7 DEF Idle, Sent
  <2> QED BY <2>9, <2>10, <2>11
<1>5. CASE Wake
  BY <1>5 DEF Wake, Messages, Idle, Sent, Second, Minute
<1> QED BY <1>1, <1>2, <1>3, <1>4, <1>5 DEF Client

\* The invariant holds in every reachable state of send_with_retry.
THEOREM InvariantHolds == Spec => []IInv
<1>1. IInv /\ [Next]_vars => IInv'
  <2> SUFFICES ASSUME IInv, [Next]_vars PROVE IInv'
    OBVIOUS
  <2>1. CASE Client
    BY <2>1, ClientPreserves
  <2>2. CASE Server
    BY <2>2, ServerPreserves
  <2>3. CASE TransportFails \/ Cancel
    BY <2>3, RetryAssumption
    DEF TransportFails, Cancel, Return, IInv, TypeOK, SendsFollowAttempts,
        RetriesOnlySafe, ServesOnlySent, WireMatchesLoop, SleepsAMinuteEach,
        Messages, Idle, Sent
  <2>4. CASE UNCHANGED vars
    BY <2>4 DEF vars, IInv, TypeOK, SendsFollowAttempts, RetriesOnlySafe,
                ServesOnlySent, WireMatchesLoop, SleepsAMinuteEach
  <2> QED BY <2>1, <2>2, <2>3, <2>4 DEF Next
<1> QED BY <1>1, InitEstablishes, PTL DEF Spec

-----------------------------------------------------------------------------
(* What the invariant gives.                                               *)

\* Every variable of the loop stays in its range; in particular the attempt
\* counter never passes max_retries.
THEOREM TypeCorrect == Spec => []TypeOK
BY InvariantHolds, PTL DEF IInv

\* A request that is not safe to repeat reaches the server's handler at most
\* once.
THEOREM UnsafeOnce == Spec => []UnsafeExecutedOnce
<1>1. IInv => UnsafeExecutedOnce
  BY DEF IInv, TypeOK, SendsFollowAttempts, RetriesOnlySafe, ServesOnlySent,
         UnsafeExecutedOnce
<1> QED BY <1>1, InvariantHolds, PTL

\* RateLimited is only reported once the whole budget is spent, or where
\* nothing may be repeated.
THEOREM RefusalIsLast == Spec => []RefusalSpendsBudget
<1>1. IInv => RefusalSpendsBudget
  BY DEF IInv, TypeOK, SendsFollowAttempts, RetriesOnlySafe, RefusalSpendsBudget
<1> QED BY <1>1, InvariantHolds, PTL

\* A call sleeps at most a minute per retry of its budget.
THEOREM SleepIsBounded == Spec => []SleepBounded
<1>1. IInv => SleepBounded
  BY RetryAssumption DEF IInv, TypeOK, SleepsAMinuteEach, SleepBounded, Second, Minute
<1> QED BY <1>1, InvariantHolds, PTL

-----------------------------------------------------------------------------
(* send_with_retry implements Exchange.                                    *)

\* The server may execute the request only while it is in flight and within
\* the budget.
LEMMA ServerKeepsPromise ==
    ASSUME IInv, Server
    PROVE  Promise!Execute \/ UNCHANGED <<Budget, executed, result>>
<1>1. wire = Sent /\ executed < sends
  BY MessageKinds DEF IInv, TypeOK, Server, Serve, Throttle, ThrottleLate,
                      ServesOnlySent
<1>2. result \in {"pending", "transport", "cancelled"}
  BY <1>1 DEF IInv, TypeOK, WireMatchesLoop, Idle, Sent
<1>3. sends <= Budget
  BY RetryAssumption DEF IInv, TypeOK, SendsFollowAttempts, RetriesOnlySafe, Budget
<1>4. executed < Budget
  BY <1>1, <1>3, RetryAssumption DEF IInv, TypeOK, Budget
<1>5. Budget' = Budget
  BY DEF Server, Serve, Throttle, ThrottleLate, Budget
<1> QED BY <1>2, <1>4, <1>5
        DEF Server, Serve, Throttle, ThrottleLate, Promise!Execute

\* A response is reported after an execution, a refusal only without one.
LEMMA ClientKeepsPromise ==
    ASSUME IInv, Client
    PROVE  Promise!Next \/ UNCHANGED <<Budget, executed, result>>
<1>1. Budget' = Budget /\ executed' = executed
  BY DEF Client, Send, ReceiveResponse, ReceiveThrottledGivesUp,
         ReceiveThrottledSleeps, Wake, Return, Budget
<1>2. CASE ReceiveResponse
  BY <1>1, <1>2 DEF ReceiveResponse, Return, IInv, WireMatchesLoop,
                    Promise!Next, Promise!Respond
<1>3. CASE ReceiveThrottledGivesUp
  <2>1. executed = 0 \/ LateThrottle
    BY <1>3 DEF ReceiveThrottledGivesUp, IInv, TypeOK, WireMatchesLoop
  <2> QED BY <1>1, <1>3, <2>1 DEF ReceiveThrottledGivesUp, Return, IInv,
                                   WireMatchesLoop, Promise!Next, Promise!Refuse
<1>4. CASE Send \/ ReceiveThrottledSleeps \/ Wake
  BY <1>1, <1>4 DEF Send, ReceiveThrottledSleeps, Wake
<1> QED BY <1>2, <1>3, <1>4 DEF Client

\* send_with_retry keeps the promise of Exchange: every step of the loop, of
\* the server and of the transport is a step of the promise or changes
\* nothing it mentions.
THEOREM PromiseIsKept == Spec => PromiseKept
<1>1. Init => Promise!Init
  BY RetryAssumption DEF Init, Promise!Init, Budget
<1>2. IInv /\ [Next]_vars => [Promise!Next]_(Promise!vars)
  <2> SUFFICES ASSUME IInv, [Next]_vars
               PROVE  Promise!Next \/ UNCHANGED Promise!vars
    OBVIOUS
  <2>1. CASE Client
    BY <2>1, ClientKeepsPromise DEF Promise!vars
  <2>2. CASE Server
    BY <2>2, ServerKeepsPromise DEF Promise!vars, Promise!Next
  <2>3. CASE TransportFails \/ Cancel
    <3>1. result = "pending" /\ result' \in {"transport", "cancelled"}
      BY <2>3 DEF TransportFails, Cancel, Return, IInv, WireMatchesLoop
    <3>2. UNCHANGED <<Budget, executed>>
      BY <2>3 DEF TransportFails, Cancel, Return, Budget
    <3> QED BY <3>1, <3>2 DEF Promise!Next, Promise!Abandon
  <2>4. CASE UNCHANGED vars
    BY <2>4 DEF vars, Promise!vars, Budget
  <2> QED BY <2>1, <2>2, <2>3, <2>4 DEF Next
<1> QED BY <1>1, <1>2, InvariantHolds, PTL DEF Spec, PromiseKept, Promise!Spec
=============================================================================
