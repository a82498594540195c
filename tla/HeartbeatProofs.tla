--------------------------- MODULE HeartbeatProofs ---------------------------
(***************************************************************************)
(* What the divisor 3 buys, for every policy: when the window is at least  *)
(* three seconds and no ping takes longer than the interval, a loop that   *)
(* never loses two pings in a row keeps its machine inside the window.     *)
(***************************************************************************)
EXTENDS Heartbeat, TLAPS

(* The condition: single losses, and a latency below the interval wherever    *)
(* the window has room for the divisor.                                       *)
Roomy(d) == Window(d) >= HeartbeatIntervalDivisor * Second
Margin == /\ MaxLost = 1
          /\ \A d \in Durations : Roomy(d) => MaxLatency <= RecommendedHeartbeatInterval(d)

Interval == RecommendedHeartbeatInterval(duration)

(* The machine's age against the loop's schedule: every tick since the last  *)
(* write that landed has added one interval, the ping under way its latency.  *)
OnSchedule ==
  /\ sent = NoPing /\ lost = 0 => age + timer <= Interval
  /\ sent = NoPing /\ lost = 1 => age + timer <= Interval + Interval
  /\ sent # NoPing /\ lost = 0 => /\ age <= Interval + sent
                                  /\ age + timer <= Interval + Interval
  /\ sent # NoPing /\ lost = 1 => /\ age <= Interval + Interval + sent
                                  /\ age + timer <= Interval + Interval + Interval
  /\ sent # NoPing => sent + timer <= Interval \/ timer = 0

Kept == Roomy(duration) => OnSchedule /\ row /\ looping

(* An interval is a positive time, and three of them are a roomy window.      *)
LEMMA ThreeIntervals ==
  ASSUME NEW d \in Durations
  PROVE  /\ RecommendedHeartbeatInterval(d) \in Nat
         /\ RecommendedHeartbeatInterval(d) > 0
         /\ Window(d) \in Nat
         /\ Roomy(d) => Window(d) = RecommendedHeartbeatInterval(d)
                                    + RecommendedHeartbeatInterval(d)
                                    + RecommendedHeartbeatInterval(d)
  <1>1. CASE d = Unset
    BY <1>1, HeartbeatAssumption
       DEF RecommendedHeartbeatInterval, EffectiveHeartbeatWindow, Window, Second,
           HeartbeatIntervalDivisor, DefaultHeartbeatWindowSecs
  <1>2. CASE d # Unset
    BY <1>2, HeartbeatAssumption
       DEF RecommendedHeartbeatInterval, EffectiveHeartbeatWindow, Window, Second,
           HeartbeatIntervalDivisor, Roomy
  <1> QED BY <1>1, <1>2

(* TypeOK: times are natural numbers, latencies and losses within their       *)
(* bounds, whatever the policy.                                               *)
THEOREM TypeCorrect == Spec => []TypeOK
  <1>1. Init => TypeOK
    <2> SUFFICES ASSUME Init PROVE TypeOK
      OBVIOUS
    <2>1. duration \in Durations BY DEF Init
    <2>2. Interval \in Nat BY <2>1, ThreeIntervals DEF Interval
    <2>3. PICK d \in MinLatency..MaxLatency : timer = Remaining(Interval, d)
      BY DEF Init, Interval
    <2>4. timer \in Nat BY <2>2, <2>3, HeartbeatAssumption DEF Remaining
    <2> QED BY <2>4, HeartbeatAssumption DEF Init, TypeOK, NoPing
  <1>2. TypeOK /\ [Next]_vars => TypeOK'
    <2> SUFFICES ASSUME TypeOK, [Next]_vars PROVE TypeOK'
      OBVIOUS
    <2>1. CASE PingHeartbeat
      <3>1. RecommendedHeartbeatInterval(duration) \in Nat BY ThreeIntervals DEF TypeOK
      <3> QED BY <2>1, <3>1, HeartbeatAssumption DEF PingHeartbeat, TypeOK
    <2>2. CASE PingLands
      BY <2>2, HeartbeatAssumption DEF PingLands, TypeOK
    <2>3. CASE PingNotFound
      BY <2>3 DEF PingNotFound, TypeOK
    <2>4. CASE PingLost
      BY <2>4, HeartbeatAssumption DEF PingLost, TypeOK
    <2>5. CASE Cull
      BY <2>5 DEF Cull, TypeOK
    <2>6. CASE Pass
      <3>1. age' \in Nat BY <2>6 DEF Pass, TypeOK
      <3>2. timer' \in Nat BY <2>6 DEF Pass, TypeOK, Remaining
      <3>3. sent' \in {NoPing} \cup 0..MaxLatency
        BY <2>6, HeartbeatAssumption DEF Pass, TypeOK
      <3> QED BY <2>6, <3>1, <3>2, <3>3 DEF Pass, TypeOK
    <2>7. CASE UNCHANGED vars
      BY <2>7 DEF vars, TypeOK
    <2> QED BY <2>1, <2>2, <2>3, <2>4, <2>5, <2>6, <2>7 DEF Next, Ping
  <1> QED BY <1>1, <1>2, PTL DEF Spec

(* An on-schedule machine is inside a roomy window.                           *)
LEMMA OnScheduleIsInside ==
  ASSUME Margin, TypeOK, Kept, Roomy(duration)
  PROVE  ~Stale
  <1>1. duration \in Durations BY DEF TypeOK
  <1>2. /\ Interval \in Nat /\ Window(duration) = Interval + Interval + Interval
        /\ MaxLatency <= Interval
    BY <1>1, ThreeIntervals DEF Interval, Margin
  <1>3. lost \in {0, 1} BY DEF TypeOK, Margin
  <1>4. sent = NoPing \/ (sent \in Int /\ sent <= MaxLatency)
    BY HeartbeatAssumption DEF TypeOK
  <1>5. age \in Nat /\ timer \in Nat BY DEF TypeOK
  <1> QED BY <1>2, <1>3, <1>4, <1>5, HeartbeatAssumption DEF Kept, OnSchedule, Stale

(* The schedule is kept: initially, and by every step.                        *)
THEOREM ScheduleIsKept ==
  ASSUME Margin
  PROVE  Spec => []Kept
  <1>1. Init => Kept
    <2> SUFFICES ASSUME Init PROVE Kept
      OBVIOUS
    <2>1. duration \in Durations BY DEF Init
    <2>2. Interval \in Nat BY <2>1, ThreeIntervals DEF Interval
    <2>3. PICK d \in MinLatency..MaxLatency : timer = Remaining(Interval, d)
      BY DEF Init, Interval
    <2>4. timer \in Nat /\ timer <= Interval
      BY <2>2, <2>3, HeartbeatAssumption DEF Remaining
    <2> QED BY <2>2, <2>4 DEF Init, Kept, OnSchedule, NoPing
  <1>2. TypeOK /\ TypeOK' /\ Kept /\ [Next]_vars => Kept'
    <2> SUFFICES ASSUME TypeOK, TypeOK', Kept, [Next]_vars, Roomy(duration)'
                 PROVE  (OnSchedule /\ row /\ looping)'
      BY DEF Kept
    <2>1. duration' = duration
      BY DEF Next, Ping, PingHeartbeat, PingLands, PingNotFound, PingLost, Cull, Pass, vars
    <2>2. Roomy(duration) /\ Interval' = Interval BY <2>1 DEF Interval
    <2>3. OnSchedule /\ row /\ looping BY <2>2 DEF Kept
    <2>4. ~Stale BY <2>2, OnScheduleIsInside
    <2>5. duration \in Durations BY DEF TypeOK
    <2>6. Interval \in Nat /\ Interval > 0 /\ MaxLatency <= Interval
      BY <2>2, <2>5, ThreeIntervals DEF Interval, Margin
    <2>7. lost \in {0, 1} /\ MaxLost = 1 BY DEF TypeOK, Margin
    <2>8. sent = NoPing \/ (sent \in 0..MaxLatency) BY DEF TypeOK
    <2>9. age \in Nat /\ timer \in Nat BY DEF TypeOK
    <2>10. MinLatency \in Nat /\ MaxLatency \in Nat /\ NoPing = -1
      BY HeartbeatAssumption DEF NoPing
    <2> USE <2>2, <2>3, <2>4, <2>6, <2>7, <2>8, <2>9, <2>10
    <2>11. CASE PingHeartbeat
      <3>1. timer' = Interval BY <2>11 DEF PingHeartbeat, Interval
      <3> QED BY <2>11, <3>1 DEF PingHeartbeat, OnSchedule
    <2>12. CASE PingLands
      BY <2>12 DEF PingLands, OnSchedule
    <2>13. CASE PingNotFound
      BY <2>13 DEF PingNotFound
    <2>14. CASE PingLost
      BY <2>14 DEF PingLost, OnSchedule
    <2>15. CASE Cull
      BY <2>15 DEF Cull
    <2>16. CASE Pass
      <3>1. /\ age' = age + 1
            /\ timer' = Remaining(timer, 1)
            /\ sent' = IF sent = NoPing THEN NoPing ELSE sent + 1
            /\ lost' = lost /\ sent < MaxLatency
            /\ timer > 0 \/ sent # NoPing
        BY <2>16 DEF Pass
      <3>2. timer' \in Nat /\ (timer > 0 => timer' = timer - 1) /\ (timer = 0 => timer' = 0)
        BY <3>1 DEF Remaining
      <3>3. OnSchedule' BY <3>1, <3>2 DEF OnSchedule
      <3> QED BY <2>16, <3>3 DEF Pass
    <2>17. CASE UNCHANGED vars
      BY <2>17 DEF vars, OnSchedule
    <2> QED BY <2>11, <2>12, <2>13, <2>14, <2>15, <2>16, <2>17 DEF Next, Ping
  <1> QED BY <1>1, <1>2, TypeCorrect, PTL DEF Spec

(* NeverStale: under the margin a machine whose window has room is never      *)
(* Dead, hence never culled, whatever the policy.                             *)
THEOREM MarginSuffices ==
  ASSUME Margin
  PROVE  Spec => []NeverStale
  <1>1. TypeOK /\ Kept => NeverStale
    BY OnScheduleIsInside DEF NeverStale, Roomy
  <1> QED BY <1>1, TypeCorrect, ScheduleIsKept, PTL

(* StopsOnlyWhenGone: only the 404 of ping_heartbeat ends the loop, the       *)
(* handler answers 404 for a row that is gone alone, and no row returns, so   *)
(* a loop that has ended never leaves a living machine unattended, for every  *)
(* window, latency and number of losses.                                      *)
THEOREM GoneBeforeStopping == Spec => []StopsOnlyWhenGone
  <1>1. Init => StopsOnlyWhenGone
    BY DEF Init, StopsOnlyWhenGone
  <1>2. StopsOnlyWhenGone /\ [Next]_vars => StopsOnlyWhenGone'
    <2> SUFFICES ASSUME StopsOnlyWhenGone, [Next]_vars PROVE StopsOnlyWhenGone'
      OBVIOUS
    <2>1. CASE PingNotFound
      BY <2>1 DEF PingNotFound, StopsOnlyWhenGone
    <2>2. CASE Cull
      BY <2>2 DEF Cull, StopsOnlyWhenGone
    <2>3. CASE PingHeartbeat \/ PingLands \/ PingLost \/ Pass \/ UNCHANGED vars
      BY <2>3 DEF PingHeartbeat, PingLands, PingLost, Pass, vars, StopsOnlyWhenGone
    <2> QED BY <2>1, <2>2, <2>3 DEF Next, Ping
  <1> QED BY <1>1, <1>2, PTL DEF Spec
=============================================================================
