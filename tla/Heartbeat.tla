------------------------------ MODULE Heartbeat ------------------------------
(***************************************************************************)
(* Keeping a machine alive: the ping interval the client derives from the  *)
(* licence's policy (models/policy.rs, Client::recommended_heartbeat_      *)
(* interval), a loop that pings on it, and the server that judges the      *)
(* machine by the policy's window and culls it.  The crate ships no        *)
(* scheduler: the loop is the one its documentation describes, one ping at *)
(* a time at a fixed rate, stopped by a 404 and by no status.              *)
(*                                                                         *)
(* Time is counted in thirds of a second, so that window / 3 is exact.     *)
(***************************************************************************)
EXTENDS Integers

CONSTANTS
  Durations,  \* values of policy.heartbeat_duration, in seconds, or Unset
  Unset,      \* the column is null
  MinLatency, \* least time between sending a ping and the server's write
  MaxLatency, \* bound: greatest such time, retries after a 429 included
  MaxLost     \* bound: consecutive pings that never reach the server

ASSUME HeartbeatAssumption ==
  /\ Durations \subseteq (Nat \ {0}) \cup {Unset}
  /\ Unset \notin Int
  /\ MinLatency \in Nat /\ MaxLatency \in Nat /\ MinLatency <= MaxLatency
  /\ MaxLost \in Nat

VARIABLES
  duration, \* the policy's heartbeat_duration
  required, \* the policy's require_heartbeat
  row,      \* the machine still exists
  age,      \* time since last_heartbeat_at
  timer,    \* time until the loop's next tick
  sent,     \* time since the ping under way was sent, NoPing when there is none
  lost,     \* pings lost in a row
  looping   \* the loop has not seen a 404

vars == <<duration, required, row, age, timer, sent, lost, looping>>

Second == 3
NoPing == -1
DefaultHeartbeatWindowSecs == 600
HeartbeatIntervalDivisor == 3

(* What the server judges by: COALESCE(heartbeat_duration, 600).             *)
Window(d) == (IF d = Unset THEN DefaultHeartbeatWindowSecs ELSE d) * Second

(* What the client computes, from the same column.                           *)
EffectiveWindowOfPing(d) == DefaultHeartbeatWindowSecs * Second
EffectiveHeartbeatWindow(d) ==
  (IF d # Unset /\ d > 0 THEN d ELSE DefaultHeartbeatWindowSecs) * Second

RecommendedIntervalEarly(d) ==
  EffectiveHeartbeatWindow(d) \div HeartbeatIntervalDivisor - 2 * Second
RecommendedHeartbeatInterval(d) ==
  LET third == EffectiveHeartbeatWindow(d) \div HeartbeatIntervalDivisor
  IN  IF third > Second THEN third ELSE Second

(***************************************************************************)
(* The loop.                                                               *)
(***************************************************************************)
PingUnlessDead ==
  /\ looping /\ timer = 0 /\ sent = NoPing /\ age <= Window(duration)
  /\ sent' = 0
  /\ timer' = RecommendedHeartbeatInterval(duration)
  /\ UNCHANGED <<duration, required, row, age, lost, looping>>
PingHeartbeat ==
  /\ looping /\ timer = 0 /\ sent = NoPing
  /\ sent' = 0
  /\ timer' = RecommendedHeartbeatInterval(duration)
  /\ UNCHANGED <<duration, required, row, age, lost, looping>>

(* The server writes last_heartbeat_at = NOW(), however late the ping is.    *)
PingLands ==
  /\ sent >= MinLatency /\ row
  /\ sent' = NoPing
  /\ age' = 0
  /\ lost' = 0
  /\ UNCHANGED <<duration, required, row, timer, looping>>

PingNotFound ==
  /\ sent >= MinLatency /\ ~row
  /\ sent' = NoPing
  /\ looping' = FALSE
  /\ UNCHANGED <<duration, required, row, age, timer, lost>>

PingLost ==
  /\ sent # NoPing /\ lost < MaxLost
  /\ sent' = NoPing
  /\ lost' = lost + 1
  /\ UNCHANGED <<duration, required, row, age, timer, looping>>

(***************************************************************************)
(* The server's cull job, and time.  A tick that is due and a ping that has *)
(* been under way for MaxLatency do not wait.                              *)
(***************************************************************************)
Stale == age > Window(duration)
Remaining(t, d) == IF t > d THEN t - d ELSE 0

Cull ==
  /\ required /\ row /\ Stale
  /\ row' = FALSE
  /\ UNCHANGED <<duration, required, age, timer, sent, lost, looping>>

Pass ==
  /\ looping => timer > 0 \/ sent # NoPing
  /\ sent < MaxLatency
  /\ age' = IF Stale THEN age ELSE age + 1
  /\ timer' = Remaining(timer, 1)
  /\ sent' = IF sent = NoPing THEN NoPing ELSE sent + 1
  /\ UNCHANGED <<duration, required, row, lost, looping>>

(* The loop has just landed its first ping, some latency after its tick.     *)
Init ==
  /\ duration \in Durations
  /\ required \in BOOLEAN
  /\ row = TRUE
  /\ age = 0
  /\ \E d \in MinLatency..MaxLatency : timer = Remaining(RecommendedHeartbeatInterval(duration), d)
  /\ sent = NoPing
  /\ lost = 0
  /\ looping = TRUE

Ping == PingHeartbeat \/ PingLands \/ PingNotFound \/ PingLost
Next == Ping \/ Cull \/ Pass

Spec == Init /\ [][Next]_vars

(* The timer fires, time passes, and every ping ends: the request timeout.   *)
FairSpec == Spec /\ WF_vars(PingHeartbeat) /\ WF_vars(PingLands \/ PingNotFound) /\ WF_vars(Pass)
                 /\ WF_vars(Cull)

(***************************************************************************)
(* Properties.                                                             *)
(***************************************************************************)
TypeOK ==
  /\ duration \in Durations
  /\ required \in BOOLEAN /\ row \in BOOLEAN /\ looping \in BOOLEAN
  /\ age \in Nat /\ timer \in Nat
  /\ sent \in {NoPing} \cup 0..MaxLatency
  /\ lost \in 0..MaxLost

(* What the divisor is for: whatever the policy's window, from three seconds *)
(* on, a loop that pings at the recommended interval never leaves the window *)
(* while it loses no more than MaxLost pings in a row, so the machine is     *)
(* neither Dead nor culled.                                                  *)
NeverStale == Window(duration) >= HeartbeatIntervalDivisor * Second => ~Stale

(* The row-is-gone signal, and the only one: a loop ends after the cull      *)
(* and never while the machine is there, however stale it is.                *)
StopsOnlyWhenGone == ~looping => ~row

(* A stale machine never stays so: either the loop revives it or the cull    *)
(* takes it and the loop learns so from a 404, the cue to re-activate.       *)
StaleIsResolved == Stale ~> (~Stale \/ ~looping)
=============================================================================
