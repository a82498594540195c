-------------------------------- MODULE Retry --------------------------------
(***************************************************************************)
(* Client::send_with_retry: one request, sent again while the server       *)
(* answers 429, the route is safe to repeat and the retry budget lasts.    *)
(* Time is in milliseconds and only the sleeps are counted.                *)
(***************************************************************************)
EXTENDS Naturals

CONSTANTS
    MaxRetries,     \* ClientConfig::max_retries
    Pid,            \* std::process::id()
    Seconds,        \* the Retry-After values the server may send
    LateThrottle    \* may a 429 come from behind the handler (a proxy)?

ASSUME RetryAssumption ==
    /\ MaxRetries \in Nat
    /\ Pid \in Nat
    /\ Seconds \subseteq Nat
    /\ LateThrottle \in BOOLEAN

VARIABLES
    route,      \* method and action of the request
    pc,
    attempt,    \* retries made so far
    sends,      \* times the request was put on the wire (history)
    executed,   \* times the server's handler ran (history)
    wire,       \* the request or its answer, between client and server
    delay,      \* the sleep in progress
    waited,     \* total time slept (history)
    result      \* what the caller was told

vars == <<route, pc, attempt, sends, executed, wire, delay, waited, result>>

-----------------------------------------------------------------------------
(* The routes of client.rs, as method and action (the path after           *)
(* /actions/, "none" where there is no action).  The two DELETEs bypass    *)
(* send_with_retry: one attempt, as for any request it will not repeat.    *)

RetryableActions == {"validate", "validate-key", "check-in", "check-out",
                     "ping", "ping-heartbeat", "reset-heartbeat"}
OtherActions == {"generate-offline-proof", "increment", "decrement", "reset"}

Routes ==
    [method : {"GET"}, action : {"none", "validate", "check-out", "upgrade", "download"}]
    \cup [method : {"POST"}, action : RetryableActions \cup OtherActions \cup {"none"}]
    \cup [method : {"PATCH", "DELETE"}, action : {"none"}]

\* Mutants of IsRetryable: creates count as safe; the heartbeat suffixes are
\* missing from the list.
IsRetryableWithCreates(r) ==
    r.method = "GET" \/ (r.method = "POST" /\ r.action \in RetryableActions \cup {"none"})
IsRetryableWithoutHeartbeats(r) ==
    \/ r.method = "GET"
    \/ r.method = "POST" /\ r.action \in RetryableActions \ {"ping-heartbeat", "reset-heartbeat"}

IsRetryable(r) ==
    r.method = "GET" \/ (r.method = "POST" /\ r.action \in RetryableActions)

-----------------------------------------------------------------------------
(* The Retry-After header and the delay.                                   *)

\* "other" is an HTTP date, a minus sign, a fraction or more than 64 bits.
Headers == [form : {"absent", "other"}] \cup [form : {"seconds"}, value : Seconds]

None == [form |-> "none"]
ParseRetryAfter(h) == IF h.form = "seconds" THEN h ELSE None

Lesser(a, b) == IF a <= b THEN a ELSE b

\* 1u64 << k for k in 0..5
ShiftedOne(k) == <<1, 2, 4, 8, 16, 32>>[k + 1]

\* (pid * 2654435761 + attempt * 40503) % 1000; a 32-bit pid and attempt
\* keep the 64-bit products from wrapping, so the factors reduce first.
JitterMillis(n) == ((Pid % 1000) * 761 + (n % 1000) * 503) % 1000

Second == 1000
Minute == 60 * Second

\* Mutant of RetryDelay: the server's Retry-After is trusted as it comes.
RetryDelayUncapped(n, retryAfter) ==
    IF retryAfter # None
    THEN retryAfter.value * Second
    ELSE ShiftedOne(Lesser(n, 5)) * Second + JitterMillis(n)

RetryDelay(n, retryAfter) ==
    IF retryAfter # None
    THEN Lesser(retryAfter.value, 60) * Second
    ELSE ShiftedOne(Lesser(n, 5)) * Second + JitterMillis(n)

-----------------------------------------------------------------------------
(* The wire and the server.                                                *)

Idle     == [kind |-> "idle"]
Sent     == [kind |-> "request"]
Response == [kind |-> "response"]
Throttled(h) == [kind |-> "throttled", header |-> h]

Messages == {Idle, Sent, Response} \cup [kind : {"throttled"}, header : Headers]

\* An answer nobody waits for any more is lost.
Answer(m) == wire' = IF pc = "waiting" THEN m ELSE Idle

\* The handler runs and answers, with success or with any error but 429.
Serve ==
    /\ wire.kind = "request"
    /\ executed' = executed + 1
    /\ Answer(Response)
    /\ UNCHANGED <<route, pc, attempt, sends, delay, waited, result>>

\* The rate limiter answers 429 before the handler.
Throttle ==
    /\ wire.kind = "request"
    /\ \E h \in Headers : Answer(Throttled(h))
    /\ UNCHANGED <<route, pc, attempt, sends, executed, delay, waited, result>>

\* Something between handler and client answers 429 after the handler ran.
ThrottleLate ==
    /\ LateThrottle
    /\ wire.kind = "request"
    /\ executed' = executed + 1
    /\ \E h \in Headers : Answer(Throttled(h))
    /\ UNCHANGED <<route, pc, attempt, sends, delay, waited, result>>

-----------------------------------------------------------------------------
(* The loop of send_with_retry.                                            *)

Return(r) ==
    /\ pc' = "done"
    /\ result' = r
    /\ UNCHANGED <<route, attempt, sends, executed, delay, waited>>

Send ==
    /\ pc = "ready"
    /\ pc' = "waiting"
    /\ wire' = Sent
    /\ sends' = sends + 1
    /\ UNCHANGED <<route, attempt, executed, delay, waited, result>>

ReceiveResponse ==
    /\ pc = "waiting" /\ wire.kind = "response"
    /\ wire' = Idle
    /\ Return("response")

\* Mutant of GivesUp: one retry too many.
GivesUpLate == ~IsRetryable(route) \/ attempt > MaxRetries

GivesUp == ~IsRetryable(route) \/ attempt >= MaxRetries

ReceiveThrottledGivesUp ==
    /\ pc = "waiting" /\ wire.kind = "throttled"
    /\ GivesUp
    /\ wire' = Idle
    /\ Return("rateLimited")

ReceiveThrottledSleeps ==
    /\ pc = "waiting" /\ wire.kind = "throttled"
    /\ ~GivesUp
    /\ delay' = RetryDelay(attempt, ParseRetryAfter(wire.header))
    /\ wire' = Idle
    /\ pc' = "sleeping"
    /\ UNCHANGED <<route, attempt, sends, executed, waited, result>>

\* Mutant of Wake: a zero delay arms no timer.
WakeIfPositive ==
    /\ pc = "sleeping" /\ delay > 0
    /\ pc' = "ready"
    /\ waited' = waited + delay
    /\ delay' = 0
    /\ attempt' = attempt + 1
    /\ UNCHANGED <<route, sends, executed, wire, result>>

Wake ==
    /\ pc = "sleeping"
    /\ pc' = "ready"
    /\ waited' = waited + delay
    /\ delay' = 0
    /\ attempt' = attempt + 1
    /\ UNCHANGED <<route, sends, executed, wire, result>>

\* Mutant of TransportFails: a lost connection is retried like a 429.
TransportRetries ==
    /\ pc = "waiting"
    /\ attempt < MaxRetries
    /\ wire' = Idle
    /\ pc' = "ready"
    /\ attempt' = attempt + 1
    /\ UNCHANGED <<route, sends, executed, delay, waited, result>>

\* The transport fails or times out: the error propagates with `?`, never
\* retried.  An unserved request stays on the wire and may yet be served.
TransportFails ==
    /\ pc = "waiting"
    /\ wire' = IF wire = Sent THEN Sent ELSE Idle
    /\ Return("transport")

\* The caller drops the future.
Cancel ==
    /\ pc \in {"ready", "waiting", "sleeping"}
    /\ wire' = IF wire = Sent THEN Sent ELSE Idle
    /\ Return("cancelled")

-----------------------------------------------------------------------------
Init ==
    /\ route \in Routes
    /\ pc = "ready"
    /\ attempt = 0 /\ sends = 0 /\ executed = 0
    /\ wire = Idle
    /\ delay = 0 /\ waited = 0
    /\ result = "pending"

Client == Send \/ ReceiveResponse \/ ReceiveThrottledGivesUp
          \/ ReceiveThrottledSleeps \/ Wake

Server == Serve \/ Throttle \/ ThrottleLate

Next == Client \/ Server \/ TransportFails \/ Cancel

Spec == Init /\ [][Next]_vars

\* The sleeps end, and each send is answered or runs into
\* ClientConfig::timeout.
FairSpec == /\ Spec
            /\ WF_vars(Client)
            /\ WF_vars(pc = "waiting" /\ (Server \/ TransportFails))

-----------------------------------------------------------------------------
(* Properties.                                                             *)

\* Every variable stays in its range.
TypeOK ==
    /\ route \in Routes
    /\ pc \in {"ready", "waiting", "sleeping", "done"}
    /\ attempt \in 0..MaxRetries
    /\ sends \in 0..(MaxRetries + 1)
    /\ executed \in Nat
    /\ wire \in Messages
    /\ delay \in Nat /\ waited \in Nat
    /\ result \in {"pending", "response", "rateLimited", "transport", "cancelled"}

\* The requests the module comment of client.rs excludes from repetition.
Unsafe(r) == r.method # "GET" /\ r.action \notin RetryableActions

\* "Creates are excluded on purpose": a request that is not safe to repeat
\* reaches the handler at most once, whoever answers 429 and however late a
\* timed-out request is served.
UnsafeExecutedOnce == Unsafe(route) => executed <= 1

\* RateLimited is reported to the caller only when retrying was not allowed
\* or the whole budget of MaxRetries repeats has been sent.
RefusalSpendsBudget ==
    result = "rateLimited" => Unsafe(route) \/ sends = MaxRetries + 1

\* The 60 s cap and the bounded back-off hold a call to MaxRetries minutes of
\* sleep, whatever Retry-After says.
SleepBounded == waited + delay <= MaxRetries * Minute

\* client.rs, DEFAULT_MAX_RETRIES: three retries ride out a burst "without
\* turning a sustained 429 into a request that hangs for minutes".
NeverHangsForMinutes == waited + delay < 2 * Minute

\* Every request comes back to its caller: throttling cannot keep it alive.
RequestReturns == <>(pc = "done")

\* send_with_retry keeps the promise of Exchange.
Budget == IF Unsafe(route) THEN 1 ELSE MaxRetries + 1
Promise == INSTANCE Exchange WITH budget <- Budget
PromiseKept == Promise!Spec
=============================================================================
