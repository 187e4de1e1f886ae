--------------------------- MODULE WatchdogProofs ---------------------------
(***************************************************************************)
(* For every watchdog timeout, every ceiling and every jitter a healthy    *)
(* scheduler shows: no healthy daemon is killed, and every wedged one is,  *)
(* in bounded time.                                                        *)
(***************************************************************************)
EXTENDS Watchdog, TLAPS

LEMMA Parameters ==
  /\ WatchdogUsec \in Nat
  /\ Jitter \in Nat
  /\ Interval \in Nat
  /\ Jitter <= Interval
  /\ Interval + Jitter < WatchdogUsec
  /\ LongestBoundedCall \in Nat
  /\ \A s \in SilentStream : s \subseteq Nat
<1>1. WatchdogUsec \in Nat => Interval \in Nat
  BY DEF Interval
<1>2. QED
  BY <1>1, WatchdogAssumption DEF WatchdogAssumption

-----------------------------------------------------------------------------

LEMMA TypeInitially == Init => TypeOK
<1> SUFFICES ASSUME Init PROVE TypeOK
  OBVIOUS
<1>1. {now, last_tick, since, wake, sampled, lastPet, lost} \subseteq Nat
  BY Parameters DEF Init
<1>2. in_flight \subseteq InFlightState /\ \A f, g \in in_flight : f = g
  BY DEF Init
<1>3. /\ armed \in BOOLEAN /\ wedged \in BOOLEAN /\ killed \in BOOLEAN
      /\ silent \in SilentStream
  BY DEF Init
<1>4. ailing \in Nat \cup {-1}
  BY DEF Init
<1>5. QED
  BY <1>1, <1>2, <1>3, <1>4 DEF Init, TypeOK

LEMMA TypeStep == TypeOK /\ [Next]_vars => TypeOK'
<1> SUFFICES ASSUME TypeOK, [Next]_vars PROVE TypeOK'
  OBVIOUS
<1> USE Parameters DEF TypeOK, InFlightState, activity, loop, heartbeat,
                       systemd, MoveTo, Calls
<1>1. CASE UNCHANGED vars
  BY <1>1 DEF vars, activity, loop, heartbeat, systemd
<1>2. ASSUME LoopStep, Accept PROVE TypeOK'
  BY <1>2 DEF LoopStep, Accept
<1>3. ASSUME LoopStep, AcceptTimesOut PROVE TypeOK'
  BY <1>3 DEF LoopStep, AcceptTimesOut
<1>4. ASSUME LoopStep, AcceptFails PROVE TypeOK'
  BY <1>4 DEF LoopStep, AcceptFails
<1>5. ASSUME LoopStep, NEW kind \in Calls, CallStarted(kind) PROVE TypeOK'
  BY <1>5 DEF LoopStep, CallStarted
<1>6. ASSUME LoopStep, Progressed PROVE TypeOK'
  BY <1>6 DEF LoopStep, Progressed
<1>7. ASSUME LoopStep, CallFinished PROVE TypeOK'
  BY <1>7 DEF LoopStep, CallFinished
<1>8. ASSUME LoopStep, Tick PROVE TypeOK'
  BY <1>8 DEF LoopStep, Tick
<1>9. CASE Wedge
  BY <1>9 DEF Wedge
<1>10. CASE Panic
  BY <1>10 DEF Panic
<1>11. ASSUME HeartbeatStep, Wake PROVE TypeOK'
  BY <1>11 DEF HeartbeatStep, Wake
<1>12. ASSUME HeartbeatStep, Judge PROVE TypeOK'
  BY <1>12 DEF HeartbeatStep, Judge, SleepAgain
<1>13. ASSUME HeartbeatStep, Pet PROVE TypeOK'
  BY <1>13 DEF HeartbeatStep, Pet, SleepAgain
<1>14. CASE Kill
  BY <1>14 DEF Kill
<1>15. CASE Advance
  BY <1>15 DEF Advance
<1>16. QED
  BY <1>1, <1>2, <1>3, <1>4, <1>5, <1>6, <1>7, <1>8, <1>9,
     <1>10, <1>11, <1>12, <1>13, <1>14, <1>15
     DEF Next, Ended, LoopStep, HeartbeatStep

\* Every variable keeps its type; in particular at most one call is in flight.
THEOREM TypeCorrect == Spec => []TypeOK
<1>1. QED
  BY TypeInitially, TypeStep, PTL DEF Spec

-----------------------------------------------------------------------------
(***************************************************************************)
(* The inductive invariant.                                                *)
(***************************************************************************)

\* No stamp lies in the future, and systemd's timer has not run past its end.
Past ==
  /\ last_tick <= now
  /\ since <= now
  /\ sampled <= now
  /\ lastPet <= now
  /\ ailing <= now
  /\ now <= lastPet + WatchdogUsec

\* The activity record says what the loop is doing, and since when.
RecordOfLoop ==
  /\ pc \in Calls => in_flight # {}
  /\ pc \in {"accept", "accepted", "turn"} => in_flight = {}
  /\ pc # "dead" => \A f \in in_flight :
       /\ f.kind = pc
       /\ pc = "Bounded" => f.started_at = since
       /\ pc = "Streaming" => f.last_progress = since

\* The tick is no newer than the loop's latest move, and no older than one
\* accept timeout before it.
TickOfLoop ==
  pc \in {"accept", "accepted", "turn"} =>
    /\ last_tick <= since
    /\ pc = "accept" => last_tick = since
    /\ armed => since <= last_tick + Interval + Jitter

\* Time has not passed the moment a healthy thread is due.
OnTime ==
  /\ wedged \/ \A d \in DueIn : now <= since + d
  /\ now <= wake + Jitter

\* The history variable is up to date while there is something to record.
AilingNow == wedged \/ pc = "dead" \/ Outstayed(now) => ailing = now

\* The heartbeat is one interval after the latest pet, unless the loop has
\* been found ailing since, or a pet got lost.
WakeAfterPet == wake = lastPet + Interval \/ ailing >= lastPet \/ lost > 0

\* A pet about to be sent was allowed by the ceiling of the loop's place, or
\* the loop has moved since.
PetWasAllowed ==
  /\ hb # "asleep" => wake <= sampled
  /\ hb = "petting" => \A c \in Patience : sampled <= since + c
  /\ \A c \in Patience : lastPet <= since + c + Jitter

WatchdogInv ==
  /\ TypeOK
  /\ Past
  /\ RecordOfLoop
  /\ TickOfLoop
  /\ OnTime
  /\ AilingNow
  /\ WakeAfterPet
  /\ PetWasAllowed
  /\ HealthyNeverKilled

LEMMA CeilingsAreNat ==
  ASSUME TypeOK
  PROVE  /\ \A c \in Patience : c \in Nat
         /\ \A d \in DueIn : d \in Nat
         /\ \A c \in silent : c \in Nat
BY Parameters DEF TypeOK, Patience, DueIn, idle_tick_ceiling

LEMMA PastStep ==
  ASSUME WatchdogInv, [Next]_vars
  PROVE  Past'
<1> USE Parameters DEF WatchdogInv, TypeOK, Past, activity, loop, heartbeat,
                       systemd, MoveTo, Calls
<1>1. CASE UNCHANGED vars
  BY <1>1 DEF vars, activity, loop, heartbeat, systemd
<1>2. ASSUME LoopStep, Accept PROVE Past'
  BY <1>2 DEF LoopStep, Accept
<1>3. ASSUME LoopStep, AcceptTimesOut PROVE Past'
  BY <1>3 DEF LoopStep, AcceptTimesOut
<1>4. ASSUME LoopStep, AcceptFails PROVE Past'
  BY <1>4 DEF LoopStep, AcceptFails
<1>5. ASSUME LoopStep, NEW kind \in Calls, CallStarted(kind) PROVE Past'
  BY <1>5 DEF LoopStep, CallStarted
<1>6. ASSUME LoopStep, Progressed PROVE Past'
  BY <1>6 DEF LoopStep, Progressed
<1>7. ASSUME LoopStep, CallFinished PROVE Past'
  BY <1>7 DEF LoopStep, CallFinished
<1>8. ASSUME LoopStep, Tick PROVE Past'
  BY <1>8 DEF LoopStep, Tick
<1>9. CASE Wedge
  BY <1>9 DEF Wedge
<1>10. CASE Panic
  BY <1>10 DEF Panic
<1>11. ASSUME HeartbeatStep, Wake PROVE Past'
  BY <1>11 DEF HeartbeatStep, Wake
<1>12. ASSUME HeartbeatStep, Judge PROVE Past'
  BY <1>12 DEF HeartbeatStep, Judge, SleepAgain
<1>13. ASSUME HeartbeatStep, Pet PROVE Past'
  BY <1>13 DEF HeartbeatStep, Pet, SleepAgain
<1>14. CASE Kill
  BY <1>14 DEF Kill
<1>15. CASE Advance
  BY <1>15 DEF Advance
<1>16. QED
  BY <1>1, <1>2, <1>3, <1>4, <1>5, <1>6, <1>7, <1>8, <1>9,
     <1>10, <1>11, <1>12, <1>13, <1>14, <1>15
     DEF Next, Ended, LoopStep, HeartbeatStep

LEMMA RecordOfLoopStep ==
  ASSUME WatchdogInv, [Next]_vars
  PROVE  RecordOfLoop'
<1> USE Parameters DEF WatchdogInv, TypeOK, InFlightState, RecordOfLoop,
                       activity, loop, heartbeat, systemd, MoveTo, Calls
<1>1. CASE UNCHANGED vars
  BY <1>1 DEF vars, activity, loop, heartbeat, systemd
<1>2. ASSUME LoopStep, Accept PROVE RecordOfLoop'
  BY <1>2 DEF LoopStep, Accept
<1>3. ASSUME LoopStep, AcceptTimesOut PROVE RecordOfLoop'
  BY <1>3 DEF LoopStep, AcceptTimesOut
<1>4. ASSUME LoopStep, AcceptFails PROVE RecordOfLoop'
  BY <1>4 DEF LoopStep, AcceptFails
<1>5. ASSUME LoopStep, NEW kind \in Calls, CallStarted(kind) PROVE RecordOfLoop'
  BY <1>5 DEF LoopStep, CallStarted
<1>6. ASSUME LoopStep, Progressed PROVE RecordOfLoop'
  <2>1. pc \in Calls /\ pc' = pc
    BY <1>6 DEF Progressed
  <2>2. PICK f \in in_flight : in_flight = {f}
    BY <2>1
  <2>3. in_flight' = {[f EXCEPT !.last_progress = now]}
    BY <1>6, <2>2 DEF Progressed
  <2>4. since' = IF pc = "Streaming" THEN now ELSE since
    BY <1>6 DEF Progressed
  <2>5. /\ f.kind = pc
        /\ pc = "Bounded" => f.started_at = since
    BY <2>1, <2>2
  <2>6. QED
    BY <2>1, <2>2, <2>3, <2>4, <2>5
<1>7. ASSUME LoopStep, CallFinished PROVE RecordOfLoop'
  BY <1>7 DEF LoopStep, CallFinished
<1>8. ASSUME LoopStep, Tick PROVE RecordOfLoop'
  BY <1>8 DEF LoopStep, Tick
<1>9. CASE Wedge
  BY <1>9 DEF Wedge
<1>10. CASE Panic
  BY <1>10 DEF Panic
<1>11. ASSUME HeartbeatStep, Wake PROVE RecordOfLoop'
  BY <1>11 DEF HeartbeatStep, Wake
<1>12. ASSUME HeartbeatStep, Judge PROVE RecordOfLoop'
  BY <1>12 DEF HeartbeatStep, Judge, SleepAgain
<1>13. ASSUME HeartbeatStep, Pet PROVE RecordOfLoop'
  BY <1>13 DEF HeartbeatStep, Pet, SleepAgain
<1>14. CASE Kill
  BY <1>14 DEF Kill
<1>15. CASE Advance
  BY <1>15 DEF Advance
<1>16. QED
  BY <1>1, <1>2, <1>3, <1>4, <1>5, <1>6, <1>7, <1>8, <1>9,
     <1>10, <1>11, <1>12, <1>13, <1>14, <1>15
     DEF Next, Ended, LoopStep, HeartbeatStep

LEMMA TickOfLoopStep ==
  ASSUME WatchdogInv, [Next]_vars
  PROVE  TickOfLoop'
<1> USE Parameters DEF WatchdogInv, TypeOK, Past, TickOfLoop, activity, loop,
                       heartbeat, systemd, MoveTo, Calls
<1>1. CASE UNCHANGED vars
  BY <1>1 DEF vars, activity, loop, heartbeat, systemd
<1>2. ASSUME LoopStep, Accept PROVE TickOfLoop'
  BY <1>2 DEF LoopStep, Accept, OnTime, DueIn
<1>3. ASSUME LoopStep, AcceptTimesOut PROVE TickOfLoop'
  BY <1>3 DEF LoopStep, AcceptTimesOut, OnTime, DueIn
<1>4. ASSUME LoopStep, AcceptFails PROVE TickOfLoop'
  BY <1>4 DEF LoopStep, AcceptFails, OnTime, DueIn
<1>5. ASSUME LoopStep, NEW kind \in Calls, CallStarted(kind) PROVE TickOfLoop'
  BY <1>5 DEF LoopStep, CallStarted
<1>6. ASSUME LoopStep, Progressed PROVE TickOfLoop'
  BY <1>6 DEF LoopStep, Progressed
<1>7. ASSUME LoopStep, CallFinished PROVE TickOfLoop'
  BY <1>7 DEF LoopStep, CallFinished
<1>8. ASSUME LoopStep, Tick PROVE TickOfLoop'
  BY <1>8 DEF LoopStep, Tick
<1>9. CASE Wedge
  BY <1>9 DEF Wedge
<1>10. CASE Panic
  BY <1>10 DEF Panic
<1>11. ASSUME HeartbeatStep, Wake PROVE TickOfLoop'
  BY <1>11 DEF HeartbeatStep, Wake
<1>12. ASSUME HeartbeatStep, Judge PROVE TickOfLoop'
  BY <1>12 DEF HeartbeatStep, Judge, SleepAgain
<1>13. ASSUME HeartbeatStep, Pet PROVE TickOfLoop'
  BY <1>13 DEF HeartbeatStep, Pet, SleepAgain
<1>14. CASE Kill
  BY <1>14 DEF Kill
<1>15. CASE Advance
  BY <1>15 DEF Advance
<1>16. QED
  BY <1>1, <1>2, <1>3, <1>4, <1>5, <1>6, <1>7, <1>8, <1>9,
     <1>10, <1>11, <1>12, <1>13, <1>14, <1>15
     DEF Next, Ended, LoopStep, HeartbeatStep

LEMMA OnTimeStep ==
  ASSUME WatchdogInv, [Next]_vars
  PROVE  OnTime'
<1> USE Parameters DEF WatchdogInv, TypeOK, Past, OnTime, DueIn, activity, loop,
                       heartbeat, systemd, MoveTo, Calls
<1>1. CASE UNCHANGED vars
  BY <1>1 DEF vars, activity, loop, heartbeat, systemd
<1>2. ASSUME LoopStep, Accept PROVE OnTime'
  BY <1>2 DEF LoopStep, Accept
<1>3. ASSUME LoopStep, AcceptTimesOut PROVE OnTime'
  BY <1>3 DEF LoopStep, AcceptTimesOut
<1>4. ASSUME LoopStep, AcceptFails PROVE OnTime'
  BY <1>4 DEF LoopStep, AcceptFails
<1>5. ASSUME LoopStep, NEW kind \in Calls, CallStarted(kind) PROVE OnTime'
  BY <1>5 DEF LoopStep, CallStarted
<1>6. ASSUME LoopStep, Progressed PROVE OnTime'
  BY <1>6 DEF LoopStep, Progressed
<1>7. ASSUME LoopStep, CallFinished PROVE OnTime'
  BY <1>7 DEF LoopStep, CallFinished
<1>8. ASSUME LoopStep, Tick PROVE OnTime'
  BY <1>8 DEF LoopStep, Tick
<1>9. CASE Wedge
  BY <1>9 DEF Wedge
<1>10. CASE Panic
  BY <1>10 DEF Panic
<1>11. ASSUME HeartbeatStep, Wake PROVE OnTime'
  BY <1>11 DEF HeartbeatStep, Wake
<1>12. ASSUME HeartbeatStep, Judge PROVE OnTime'
  BY <1>12 DEF HeartbeatStep, Judge, SleepAgain
<1>13. ASSUME HeartbeatStep, Pet PROVE OnTime'
  BY <1>13 DEF HeartbeatStep, Pet, SleepAgain
<1>14. CASE Kill
  BY <1>14 DEF Kill
<1>15. CASE Advance
  BY <1>15 DEF Advance
<1>16. QED
  BY <1>1, <1>2, <1>3, <1>4, <1>5, <1>6, <1>7, <1>8, <1>9,
     <1>10, <1>11, <1>12, <1>13, <1>14, <1>15
     DEF Next, Ended, LoopStep, HeartbeatStep

LEMMA AilingNowStep ==
  ASSUME WatchdogInv, [Next]_vars
  PROVE  AilingNow'
<1> USE Parameters, CeilingsAreNat DEF WatchdogInv, TypeOK, Past, AilingNow,
      Outstayed, activity, loop, heartbeat, systemd, MoveTo, Calls
<1>1. CASE UNCHANGED vars
  BY <1>1 DEF vars, activity, loop, heartbeat, systemd
<1>2. ASSUME LoopStep, Accept PROVE AilingNow'
  BY <1>2 DEF LoopStep, Accept
<1>3. ASSUME LoopStep, AcceptTimesOut PROVE AilingNow'
  BY <1>3 DEF LoopStep, AcceptTimesOut
<1>4. ASSUME LoopStep, AcceptFails PROVE AilingNow'
  BY <1>4 DEF LoopStep, AcceptFails
<1>5. ASSUME LoopStep, NEW kind \in Calls, CallStarted(kind) PROVE AilingNow'
  BY <1>5 DEF LoopStep, CallStarted
<1>6. ASSUME LoopStep, Progressed PROVE AilingNow'
  BY <1>6 DEF LoopStep, Progressed
<1>7. ASSUME LoopStep, CallFinished PROVE AilingNow'
  BY <1>7 DEF LoopStep, CallFinished
<1>8. ASSUME LoopStep, Tick PROVE AilingNow'
  BY <1>8 DEF LoopStep, Tick
<1>9. CASE Wedge
  BY <1>9 DEF Wedge
<1>10. CASE Panic
  BY <1>10 DEF Panic
<1>11. ASSUME HeartbeatStep, Wake PROVE AilingNow'
  BY <1>11 DEF HeartbeatStep, Wake
<1>12. ASSUME HeartbeatStep, Judge PROVE AilingNow'
  BY <1>12 DEF HeartbeatStep, Judge, SleepAgain
<1>13. ASSUME HeartbeatStep, Pet PROVE AilingNow'
  BY <1>13 DEF HeartbeatStep, Pet, SleepAgain
<1>14. CASE Kill
  BY <1>14 DEF Kill
<1>15. CASE Advance
  BY <1>15 DEF Advance
<1>16. QED
  BY <1>1, <1>2, <1>3, <1>4, <1>5, <1>6, <1>7, <1>8, <1>9,
     <1>10, <1>11, <1>12, <1>13, <1>14, <1>15
     DEF Next, Ended, LoopStep, HeartbeatStep

\* A loop found not alive really is ailing: the idle ceiling leaves room for
\* an accept timeout and two late steps, and a call's age is its own.
LEMMA NotAliveIsAiling ==
  ASSUME WatchdogInv, NEW t \in Nat, t <= now, ~is_alive(t)
  PROVE  wedged \/ pc = "dead" \/ Outstayed(now)
<1> SUFFICES ASSUME ~wedged, pc # "dead" PROVE Outstayed(now)
  OBVIOUS
<1> USE Parameters, CeilingsAreNat
    DEF WatchdogInv, TypeOK, InFlightState, Past, Calls
<1>1. CASE pc \in Calls
  <2>1. PICK f \in in_flight : in_flight = {f}
    BY <1>1 DEF RecordOfLoop
  <2>2. CASE pc = "Bounded"
    <3>1. f.kind = "Bounded" /\ f.started_at = since
      BY <2>1, <2>2 DEF RecordOfLoop
    <3>2. Age(t, since) > LongestBoundedCall
      BY <2>1, <3>1 DEF is_alive, Age
    <3>3. QED
      BY <2>2, <3>2 DEF Age, Outstayed
  <2>3. CASE pc = "Streaming"
    <3>1. f.kind = "Streaming" /\ f.last_progress = since
      BY <2>1, <2>3 DEF RecordOfLoop
    <3>2. \E c \in silent : Age(t, since) > c
      BY <2>1, <3>1 DEF is_alive, Age
    <3>3. QED
      BY <2>3, <3>2 DEF Age, Outstayed
  <2>4. QED
    BY <1>1, <2>2, <2>3
<1>2. CASE pc \in {"accept", "accepted", "turn"}
  <2>1. armed /\ Age(t, last_tick) > 3 * Interval
    BY <1>2 DEF is_alive, RecordOfLoop, idle_tick_ceiling, Age
  <2>2. CASE pc = "accept"
    <3>1. now <= since + Interval + Jitter
      BY <2>1, <2>2 DEF OnTime, DueIn
    <3>2. QED
      BY <2>1, <2>2, <3>1 DEF Age, TickOfLoop
  <2>3. CASE pc \in {"accepted", "turn"}
    <3>1. now <= since + Jitter
      BY <2>3 DEF OnTime, DueIn
    <3>2. QED
      BY <2>1, <2>3, <3>1 DEF Age, TickOfLoop
  <2>4. QED
    BY <1>2, <2>2, <2>3
<1>3. QED
  BY <1>1, <1>2

LEMMA WakeAfterPetStep ==
  ASSUME WatchdogInv, [Next]_vars
  PROVE  WakeAfterPet'
<1> USE Parameters DEF WatchdogInv, TypeOK, Past, WakeAfterPet, activity, loop,
                       heartbeat, systemd, MoveTo, Calls
<1>1. CASE UNCHANGED vars
  BY <1>1 DEF vars, activity, loop, heartbeat, systemd
<1>2. ASSUME LoopStep, Accept PROVE WakeAfterPet'
  BY <1>2 DEF LoopStep, Accept
<1>3. ASSUME LoopStep, AcceptTimesOut PROVE WakeAfterPet'
  BY <1>3 DEF LoopStep, AcceptTimesOut
<1>4. ASSUME LoopStep, AcceptFails PROVE WakeAfterPet'
  BY <1>4 DEF LoopStep, AcceptFails
<1>5. ASSUME LoopStep, NEW kind \in Calls, CallStarted(kind) PROVE WakeAfterPet'
  BY <1>5 DEF LoopStep, CallStarted
<1>6. ASSUME LoopStep, Progressed PROVE WakeAfterPet'
  BY <1>6 DEF LoopStep, Progressed
<1>7. ASSUME LoopStep, CallFinished PROVE WakeAfterPet'
  BY <1>7 DEF LoopStep, CallFinished
<1>8. ASSUME LoopStep, Tick PROVE WakeAfterPet'
  BY <1>8 DEF LoopStep, Tick
<1>9. CASE Wedge
  BY <1>9 DEF Wedge
<1>10. CASE Panic
  BY <1>10 DEF Panic
<1>11. ASSUME HeartbeatStep, Wake PROVE WakeAfterPet'
  BY <1>11 DEF HeartbeatStep, Wake
<1>12. ASSUME HeartbeatStep, Judge PROVE WakeAfterPet'
  BY <1>12, NotAliveIsAiling DEF HeartbeatStep, Judge, SleepAgain, AilingNow
<1>13. ASSUME HeartbeatStep, Pet PROVE WakeAfterPet'
  BY <1>13 DEF HeartbeatStep, Pet, SleepAgain
<1>14. CASE Kill
  BY <1>14 DEF Kill
<1>15. CASE Advance
  BY <1>15 DEF Advance
<1>16. QED
  BY <1>1, <1>2, <1>3, <1>4, <1>5, <1>6, <1>7, <1>8, <1>9,
     <1>10, <1>11, <1>12, <1>13, <1>14, <1>15
     DEF Next, Ended, LoopStep, HeartbeatStep

\* Nothing judged alive is past its ceiling.
LEMMA AliveIsAllowed ==
  ASSUME WatchdogInv, NEW t \in Nat, t <= now, is_alive(t)
  PROVE  \A c \in Patience : t <= since + c
<1> USE Parameters, CeilingsAreNat
    DEF WatchdogInv, TypeOK, InFlightState, Past, Calls
<1>1. CASE pc \in Calls
  <2>1. PICK f \in in_flight : in_flight = {f}
    BY <1>1 DEF RecordOfLoop
  <2>2. f.kind = pc
    BY <1>1, <2>1 DEF RecordOfLoop
  <2>3. CASE pc = "Bounded"
    BY <2>1, <2>2, <2>3 DEF RecordOfLoop, is_alive, Age, Patience
  <2>4. CASE pc = "Streaming"
    BY <2>1, <2>2, <2>4 DEF RecordOfLoop, is_alive, Age, Patience
  <2>5. QED
    BY <1>1, <2>3, <2>4
<1>2. CASE pc \in {"accept", "accepted", "turn"}
  <2>1. \A c \in idle_tick_ceiling : Age(t, last_tick) <= c
    BY <1>2 DEF is_alive, RecordOfLoop
  <2>2. Patience = idle_tick_ceiling /\ last_tick <= since
    BY <1>2 DEF Patience, TickOfLoop
  <2>3. QED
    BY <2>1, <2>2 DEF Age
<1>3. QED
  BY <1>1, <1>2 DEF is_alive

\* A move of the loop starts the count anew: nothing sampled or sent so far is
\* younger than it.
LEMMA PetWasAllowedStep ==
  ASSUME WatchdogInv, TypeOK', [Next]_vars
  PROVE  PetWasAllowed'
<1>0. /\ \A c \in Patience : c \in Nat
      /\ \A c \in Patience' : c \in Nat
  BY CeilingsAreNat, Parameters DEF WatchdogInv, TypeOK, Patience, idle_tick_ceiling
<1>a. ASSUME since' = now, sampled' = sampled, lastPet' = lastPet, hb' = hb,
             wake' = wake
      PROVE  PetWasAllowed'
  BY <1>0, <1>a, Parameters DEF WatchdogInv, TypeOK, Past, PetWasAllowed
<1>b. ASSUME pc' = pc, since' = since, armed' = armed, silent' = silent
      PROVE  Patience' = Patience
  BY <1>b DEF Patience, idle_tick_ceiling
<1> USE <1>0, <1>a, <1>b, Parameters
    DEF WatchdogInv, TypeOK, Past, PetWasAllowed, activity, loop, heartbeat,
        systemd, MoveTo, Calls
<1>1. CASE UNCHANGED vars
  BY <1>1 DEF vars, activity, loop, heartbeat, systemd
<1>2. ASSUME LoopStep, Accept PROVE PetWasAllowed'
  BY <1>2 DEF LoopStep, Accept
<1>3. ASSUME LoopStep, AcceptTimesOut PROVE PetWasAllowed'
  BY <1>3 DEF LoopStep, AcceptTimesOut
<1>4. ASSUME LoopStep, AcceptFails PROVE PetWasAllowed'
  BY <1>4 DEF LoopStep, AcceptFails
<1>5. ASSUME LoopStep, NEW kind \in Calls, CallStarted(kind) PROVE PetWasAllowed'
  BY <1>5 DEF LoopStep, CallStarted
<1>6. ASSUME LoopStep, Progressed PROVE PetWasAllowed'
  BY <1>6 DEF LoopStep, Progressed
<1>7. ASSUME LoopStep, CallFinished PROVE PetWasAllowed'
  BY <1>7 DEF LoopStep, CallFinished
<1>8. ASSUME LoopStep, Tick PROVE PetWasAllowed'
  BY <1>8 DEF LoopStep, Tick
<1>9. CASE Wedge
  BY <1>9 DEF Wedge
<1>10. CASE Panic
  BY <1>10 DEF Panic
<1>11. ASSUME HeartbeatStep, Wake PROVE PetWasAllowed'
  BY <1>11 DEF HeartbeatStep, Wake
<1>12. ASSUME HeartbeatStep, Judge PROVE PetWasAllowed'
  BY <1>12, AliveIsAllowed DEF HeartbeatStep, Judge, SleepAgain
<1>13. ASSUME HeartbeatStep, Pet PROVE PetWasAllowed'
  BY <1>13 DEF HeartbeatStep, Pet, SleepAgain, OnTime
<1>14. CASE Kill
  BY <1>14 DEF Kill
<1>15. CASE Advance
  BY <1>15 DEF Advance
<1>16. QED
  BY <1>1, <1>2, <1>3, <1>4, <1>5, <1>6, <1>7, <1>8, <1>9,
     <1>10, <1>11, <1>12, <1>13, <1>14, <1>15
     DEF Next, Ended, LoopStep, HeartbeatStep

LEMMA HealthyNeverKilledStep ==
  ASSUME WatchdogInv, [Next]_vars
  PROVE  HealthyNeverKilled'
<1> USE Parameters DEF WatchdogInv, TypeOK, Past, HealthyNeverKilled, activity,
                       loop, heartbeat, systemd, MoveTo, Calls
<1>1. CASE UNCHANGED vars
  BY <1>1 DEF vars, activity, loop, heartbeat, systemd
<1>2. ASSUME LoopStep, Accept PROVE HealthyNeverKilled'
  BY <1>2 DEF LoopStep, Accept
<1>3. ASSUME LoopStep, AcceptTimesOut PROVE HealthyNeverKilled'
  BY <1>3 DEF LoopStep, AcceptTimesOut
<1>4. ASSUME LoopStep, AcceptFails PROVE HealthyNeverKilled'
  BY <1>4 DEF LoopStep, AcceptFails
<1>5. ASSUME LoopStep, NEW kind \in Calls, CallStarted(kind) PROVE HealthyNeverKilled'
  BY <1>5 DEF LoopStep, CallStarted
<1>6. ASSUME LoopStep, Progressed PROVE HealthyNeverKilled'
  BY <1>6 DEF LoopStep, Progressed
<1>7. ASSUME LoopStep, CallFinished PROVE HealthyNeverKilled'
  BY <1>7 DEF LoopStep, CallFinished
<1>8. ASSUME LoopStep, Tick PROVE HealthyNeverKilled'
  BY <1>8 DEF LoopStep, Tick
<1>9. CASE Wedge
  BY <1>9 DEF Wedge
<1>10. CASE Panic
  BY <1>10 DEF Panic
<1>11. ASSUME HeartbeatStep, Wake PROVE HealthyNeverKilled'
  BY <1>11 DEF HeartbeatStep, Wake
<1>12. ASSUME HeartbeatStep, Judge PROVE HealthyNeverKilled'
  BY <1>12 DEF HeartbeatStep, Judge, SleepAgain
<1>13. ASSUME HeartbeatStep, Pet PROVE HealthyNeverKilled'
  BY <1>13 DEF HeartbeatStep, Pet, SleepAgain
<1>14. CASE Kill
  BY <1>14 DEF Kill, WakeAfterPet, OnTime
<1>15. CASE Advance
  BY <1>15 DEF Advance
<1>16. QED
  BY <1>1, <1>2, <1>3, <1>4, <1>5, <1>6, <1>7, <1>8, <1>9,
     <1>10, <1>11, <1>12, <1>13, <1>14, <1>15
     DEF Next, Ended, LoopStep, HeartbeatStep

LEMMA WatchdogInitially == Init => WatchdogInv
<1> SUFFICES ASSUME Init PROVE WatchdogInv
  OBVIOUS
<1>1. TypeOK
  BY TypeInitially
<1>2. Past /\ RecordOfLoop /\ TickOfLoop /\ OnTime /\ AilingNow /\ WakeAfterPet
  BY Parameters DEF Init, Past, RecordOfLoop, TickOfLoop, OnTime, DueIn,
                    AilingNow, Outstayed, WakeAfterPet, Calls
<1>3. PetWasAllowed /\ HealthyNeverKilled
  BY <1>1, CeilingsAreNat, Parameters DEF Init, PetWasAllowed, HealthyNeverKilled
<1>4. QED
  BY <1>1, <1>2, <1>3 DEF WatchdogInv

LEMMA WatchdogStep == WatchdogInv /\ [Next]_vars => WatchdogInv'
<1> SUFFICES ASSUME WatchdogInv, [Next]_vars PROVE WatchdogInv'
  OBVIOUS
<1>1. TypeOK'
  BY TypeStep DEF WatchdogInv
<1>2. Past' /\ RecordOfLoop' /\ TickOfLoop' /\ OnTime' /\ AilingNow'
  BY PastStep, RecordOfLoopStep, TickOfLoopStep, OnTimeStep, AilingNowStep
<1>3. WakeAfterPet' /\ PetWasAllowed' /\ HealthyNeverKilled'
  BY <1>1, WakeAfterPetStep, PetWasAllowedStep, HealthyNeverKilledStep
<1>4. QED
  BY <1>1, <1>2, <1>3 DEF WatchdogInv

-----------------------------------------------------------------------------
(***************************************************************************)
(* What follows.                                                           *)
(***************************************************************************)

\* No daemon is killed for being busy, quiet or idle, only for a loop that was
\* wedged, dead or overdue within the last timeout.
THEOREM HealthyIsSafe == Spec => []HealthyNeverKilled
<1>1. WatchdogInv => HealthyNeverKilled
  BY DEF WatchdogInv
<1>2. QED
  BY <1>1, WatchdogInitially, WatchdogStep, PTL DEF Spec

\* Whatever the loop is stuck in, it outlives its ceiling by no more than one
\* timeout and one jitter.
THEOREM WedgedIsKilled == Spec => []WedgeIsDetected
<1>1. WatchdogInv => WedgeIsDetected
  <2> SUFFICES ASSUME WatchdogInv, NEW c \in Patience
               PROVE  now <= since + c + Jitter + WatchdogUsec
    BY DEF WedgeIsDetected
  <2>1. c \in Nat
    BY CeilingsAreNat DEF WatchdogInv
  <2>2. QED
    BY <2>1, Parameters DEF WatchdogInv, TypeOK, Past, PetWasAllowed
<1>2. QED
  BY <1>1, WatchdogInitially, WatchdogStep, PTL DEF Spec

\* Whenever it is asked, is_alive refuses the loops that have outstayed a
\* ceiling, and no healthy one.
THEOREM VerdictsAreExact == Spec => []VerdictIsExact
<1>1. WatchdogInv => VerdictIsExact
  <2> SUFFICES ASSUME WatchdogInv PROVE VerdictIsExact
    OBVIOUS
  <2>1. now \in Nat /\ now <= now
    BY DEF WatchdogInv, TypeOK
  <2>2. ~is_alive(now) => wedged \/ pc = "dead" \/ Outstayed(now)
    BY <2>1, NotAliveIsAiling
  <2>3. ASSUME is_alive(now), NEW c \in Patience PROVE ~(now > since + c)
    <3>1. now <= since + c
      BY <2>1, <2>3, AliveIsAllowed
    <3>2. c \in Nat /\ since \in Nat
      BY CeilingsAreNat DEF WatchdogInv, TypeOK
    <3>3. QED
      BY <2>1, <3>1, <3>2
  <2>4. QED
    BY <2>2, <2>3 DEF VerdictIsExact
<1>2. QED
  BY <1>1, WatchdogInitially, WatchdogStep, PTL DEF Spec

-----------------------------------------------------------------------------
(***************************************************************************)
(* The loop, its heartbeat and systemd implement module Supervision.       *)
(***************************************************************************)

Stopped == wedged \/ pc = "dead"

Due == {since + c + Jitter + WatchdogUsec : c \in Patience}

Refined == [Supervised!SupervisionNext]_(Supervised!supervisionVars)

LostBounded == lost \in 0 .. MaxLost

LEMMA LostBoundedStep ==
  ASSUME LostBounded, [Next]_vars
  PROVE  LostBounded'
BY WatchdogAssumption
   DEF WatchdogAssumption, LostBounded, Next, LoopStep, Wedge, Panic, HeartbeatStep,
       Wake, Judge, Pet, SleepAgain, Kill, Advance, Ended, vars, systemd, heartbeat

LEMMA DueIsNat ==
  ASSUME TypeOK
  PROVE  /\ Due \subseteq Nat
         /\ \A t \in Due : t >= since + Jitter + WatchdogUsec
BY CeilingsAreNat, Parameters DEF TypeOK, Due

\* A step that is none of the loop's own leaves everything as it is.
LEMMA NobodyMoves ==
  ASSUME UNCHANGED <<now, Stopped, Due, ailing, killed>>
  PROVE  Refined
BY DEF Refined, Supervised!supervisionVars, Stopped, Due

\* A step of the loop gives it a patience of its own, that begins now.
LEMMA LoopMoves ==
  ASSUME TypeOK', ~killed, ~Stopped, since' = now, now' = now,
         UNCHANGED <<Stopped, ailing, killed>>
  PROVE  Refined
<1>1. \A c \in Patience' : c \in Nat
  BY Parameters DEF TypeOK, Patience, idle_tick_ceiling
<1>2. now \in Nat
  BY DEF TypeOK
<1>3. /\ Due' \subseteq Nat
      /\ \A t \in Due' : t >= now + (Jitter + WatchdogUsec)
  BY <1>1, <1>2, Parameters DEF Due
<1>4. Supervised!Move
  BY <1>3 DEF Supervised!Move, Stopped, Due
<1>5. QED
  BY <1>4 DEF Refined, Supervised!SupervisionNext

LEMMA SameDue ==
  ASSUME UNCHANGED <<since, pc, armed, silent>>
  PROVE  UNCHANGED Due
BY DEF Due, Patience, idle_tick_ceiling

\* Time does not pass the end of a loop, because it does not pass the pet that
\* is due; and the loop ails when it is past its patience.
LEMMA TimeIsSupervised ==
  ASSUME WatchdogInv, WatchdogInv', Advance
  PROVE  Refined
<1> USE Parameters DEF WatchdogInv, TypeOK
<1>1. UNCHANGED <<Stopped, Due, killed>> /\ ~killed /\ now' = now + 1
  BY SameDue DEF Advance, Stopped, systemd
<1>2. \A t \in Due : now < t
  BY CeilingsAreNat DEF Due, Advance, PetWasAllowed
<1>3. \A c \in Patience : c \in Nat
  BY CeilingsAreNat
<1>4. ailing' = IF Stopped \/ Outstayed(now') THEN now' ELSE ailing
  BY DEF Advance, Stopped
<1>5. (\E t \in Due : now' > t - (Jitter + WatchdogUsec))
        <=> (\E c \in Patience : now' > since + c)
  BY <1>1, <1>3 DEF Due
<1>6. Stopped \/ (Outstayed(now') <=> \E c \in Patience : now' > since + c)
  <2>1. CASE pc \in Calls
    BY <2>1 DEF Calls, Outstayed, Patience
  <2>2. CASE pc \in {"accept", "accepted", "turn"}
    <3>1. ~Outstayed(now')
      BY <2>2 DEF Outstayed
    <3>2. ASSUME ~Stopped, NEW c \in Patience PROVE now' <= since + c
      <4>1. armed /\ c = 3 * Interval
        BY <2>2, <3>2 DEF Patience, idle_tick_ceiling
      <4>2. now' <= since + Interval + Jitter
        <5>1. pc' = pc /\ since' = since /\ wedged' = wedged /\ armed' = armed
          BY DEF Advance
        <5>2. \A d \in DueIn' : now' <= since + d
          BY <3>2, <5>1 DEF OnTime, Stopped
        <5>3. CASE pc = "accept"
          BY <4>1, <5>1, <5>2, <5>3 DEF DueIn
        <5>4. CASE pc \in {"accepted", "turn"}
          BY <5>1, <5>2, <5>4 DEF DueIn
        <5>5. QED
          BY <2>2, <5>3, <5>4
      <4>3. QED
        BY <4>1, <4>2, <1>1
    <3>3. QED
      BY <1>1, <1>3, <3>1, <3>2
  <2>3. QED
    BY <2>1, <2>2 DEF Stopped, Calls
<1>7. Supervised!Pass
  BY <1>1, <1>2, <1>4, <1>5, <1>6 DEF Supervised!Pass, Stopped, Due
<1>8. QED
  BY <1>7 DEF Refined, Supervised!SupervisionNext

LEMMA SupervisionStep ==
  ASSUME WatchdogInv, WatchdogInv', LostBounded, [Next]_vars
  PROVE  Refined
<1> USE DEF activity, loop, heartbeat, systemd, MoveTo
<1>1. CASE UNCHANGED vars \/ Ended
  BY <1>1, NobodyMoves, SameDue DEF vars, Ended, Stopped
<1>2. CASE HeartbeatStep
  <2>1. UNCHANGED <<now, since, pc, wedged, armed, silent, ailing, killed>>
    BY <1>2 DEF HeartbeatStep, Wake, Judge, Pet, SleepAgain
  <2>2. QED
    BY <2>1, NobodyMoves, SameDue DEF Stopped
<1>3. CASE LoopStep
  <2>1. ~killed /\ ~wedged /\ UNCHANGED <<now, armed, silent, wedged, ailing, killed>>
    BY <1>3 DEF LoopStep
  <2>2. pc # "dead" /\ pc' # "dead"
    BY <1>3 DEF LoopStep, Accept, AcceptTimesOut, AcceptFails, CallStarted,
                Progressed, CallFinished, Tick, Calls
  <2>3. since' = now \/ UNCHANGED <<since, pc>>
    BY <1>3 DEF LoopStep, Accept, AcceptTimesOut, AcceptFails, CallStarted,
                Progressed, CallFinished, Tick
  <2>4. CASE since' = now
    BY <2>1, <2>2, <2>4, LoopMoves DEF Stopped, WatchdogInv
  <2>5. CASE UNCHANGED <<since, pc>>
    BY <2>1, <2>5, NobodyMoves, SameDue DEF Stopped
  <2>6. QED
    BY <2>3, <2>4, <2>5
<1>4. CASE Wedge
  <2>1. UNCHANGED <<now, killed, Due>>
    BY <1>4, SameDue DEF Wedge
  <2>2. Supervised!Stop
    BY <1>4, <2>1 DEF Wedge, Supervised!Stop, Stopped, Due
  <2>3. QED
    BY <2>2 DEF Refined, Supervised!SupervisionNext
<1>5. CASE Panic
  <2>1. pc # "dead" /\ pc' = "dead" /\ since' = now /\ now' = now /\ ailing' = now
    BY <1>5 DEF Panic, Calls
  <2>2. now \in Nat
    BY DEF WatchdogInv, TypeOK
  <2>3. Patience' = {0}
    BY <2>1 DEF Patience
  <2>4. Due' = {now + (Jitter + WatchdogUsec)}
    BY <2>1, <2>2, <2>3, Parameters DEF Due
  <2>5. Supervised!Stop
    BY <1>5, <2>1, <2>4 DEF Panic, Supervised!Stop, Stopped, Due
  <2>6. QED
    BY <2>5 DEF Refined, Supervised!SupervisionNext
<1>6. CASE Advance
  BY <1>6, TimeIsSupervised
<1>7. CASE Kill
  <2>1. ~killed /\ killed' = TRUE /\ UNCHANGED <<now, since, pc, wedged, armed, silent,
                                                 ailing, lost>>
    BY <1>7 DEF Kill
  <2>2. UNCHANGED <<Stopped, Due>>
    BY <2>1, SameDue DEF Stopped
  <2>3. MaxLost = 0 => now <= ailing + WatchdogUsec
    BY <2>1 DEF LostBounded, WatchdogInv, HealthyNeverKilled, TypeOK
  <2>4. Supervised!Kill
    BY <2>1, <2>2, <2>3 DEF Supervised!Kill, Stopped, Due
  <2>5. QED
    BY <2>4 DEF Refined, Supervised!SupervisionNext
<1>8. QED
  BY <1>1, <1>2, <1>3, <1>4, <1>5, <1>6, <1>7 DEF Next

LEMMA SupervisionInitially == Init => Supervised!SupervisionInit
<1> SUFFICES ASSUME Init PROVE Supervised!SupervisionInit
  OBVIOUS
<1>1. TypeOK
  BY TypeInitially
<1>2. /\ Due \subseteq Nat
      /\ \A t \in Due : t >= Jitter + WatchdogUsec
  BY <1>1, DueIsNat, Parameters DEF Init
<1>3. QED
  BY <1>2 DEF Init, Supervised!SupervisionInit, Due

\* The watchdog keeps its promise, for every timeout, ceiling and jitter: only
\* the loop's own moves put off its end, and, while pets arrive, only an ailing
\* loop is killed.
THEOREM LoopIsSupervised == Spec => ImplementsSupervision
<1>1. Init => LostBounded
  BY WatchdogAssumption DEF WatchdogAssumption, Init, LostBounded
<1>2. LostBounded /\ [Next]_vars => LostBounded'
  BY LostBoundedStep
<1>3. WatchdogInv /\ WatchdogInv' /\ LostBounded /\ [Next]_vars
        => [Supervised!SupervisionNext]_(Supervised!supervisionVars)
  BY SupervisionStep DEF Refined
<1>4. QED
  BY <1>1, <1>2, <1>3, WatchdogInitially, WatchdogStep, SupervisionInitially, PTL
     DEF Spec, ImplementsSupervision, Supervised!SupervisionSpec

\* Notification would be advisory, as its documentation says, if no pet were
\* ever lost: no other failure of the heartbeat takes down a healthy daemon.
THEOREM AdvisoryIfDelivered == MaxLost = 0 /\ Spec => []NotificationIsAdvisory
<1>1. Init => LostBounded
  BY WatchdogAssumption DEF WatchdogAssumption, Init, LostBounded
<1>2. LostBounded /\ [Next]_vars => LostBounded'
  BY LostBoundedStep
<1>3. MaxLost = 0 /\ WatchdogInv /\ LostBounded => NotificationIsAdvisory
  BY DEF LostBounded, WatchdogInv, HealthyNeverKilled, NotificationIsAdvisory
<1>4. CASE MaxLost = 0
  <2>1. WatchdogInv /\ LostBounded => NotificationIsAdvisory
    BY <1>3, <1>4
  <2>2. QED
    BY <1>1, <1>2, <2>1, WatchdogInitially, WatchdogStep, PTL DEF Spec
<1>5. QED
  BY <1>4

=============================================================================
