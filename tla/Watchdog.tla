------------------------------ MODULE Watchdog ------------------------------
(***************************************************************************)
(* Busy or wedged: the serve loop of src/examples/gatekeeper.rs stamps a   *)
(* ServeActivity, the heartbeat thread of src/src/watchdog.rs reads it and *)
(* pets the watchdog, and systemd kills a daemon whose pets stop.          *)
(*                                                                         *)
(* Time is a clock that Advance moves on; a healthy thread takes its next  *)
(* step within Jitter of the moment it is due, so time may not pass that   *)
(* moment.  Option<T> is a set of at most one T, and is_none_or(P) is      *)
(* "P of every member".                                                    *)
(***************************************************************************)
EXTENDS Integers, FiniteSets

CONSTANTS
  WatchdogUsec,        \* $WATCHDOG_USEC
  Jitter,              \* how late a healthy thread may take a step
  LongestBoundedCall,  \* Liveness::longest_bounded_call
  SilentStream,        \* the values of Liveness::longest_silent_stream to try
  MaxTime,             \* bound on the clock
  MaxLost              \* bound on the pets that never reach systemd

\* heartbeat_from: half the timeout, in integer division.
Interval == WatchdogUsec \div 2

\* The scheduler delays no healthy thread by a whole interval.
ASSUME WatchdogAssumption ==
  /\ WatchdogUsec \in Nat
  /\ Jitter \in Nat
  /\ Jitter <= Interval
  /\ Interval + Jitter < WatchdogUsec
  /\ LongestBoundedCall \in Nat
  /\ \A s \in SilentStream : s \subseteq Nat
  /\ MaxTime \in Nat
  /\ MaxLost \in Nat

VARIABLES
  now,
  armed,      \* set_accept_timeout succeeded
  silent,     \* longest_silent_stream
  last_tick, in_flight,  \* ActivityState
  pc,         \* where the serve loop is
  since,      \* when it got there, or its stream last got something done
  wedged,     \* it takes no further step
  hb,         \* where the heartbeat thread is
  wake,       \* when its sleep ends
  sampled,    \* the Instant::now() it passes to is_alive
  lastPet,    \* the latest pet systemd received
  killed,     \* systemd has sent SIGABRT
  lost,       \* pets that did not reach systemd
  ailing      \* history: when the loop was last wedged, overdue or dead, or -1

activity == <<last_tick, in_flight>>
loop == <<pc, since, wedged, ailing>>
heartbeat == <<hb, wake, sampled>>
systemd == <<lastPet, killed, lost>>
vars == <<now, armed, silent, activity, loop, heartbeat, systemd>>

Calls == {"Bounded", "Streaming"}

InFlightState == [kind : Calls, started_at : Nat, last_progress : Nat]

TypeOK ==
  /\ {now, last_tick, since, wake, sampled, lastPet, lost} \subseteq Nat
  /\ ailing \in Nat \cup {-1}
  /\ armed \in BOOLEAN /\ wedged \in BOOLEAN /\ killed \in BOOLEAN
  /\ silent \in SilentStream
  /\ in_flight \subseteq InFlightState
  /\ \A f, g \in in_flight : f = g
  /\ pc \in {"accept", "accepted", "turn", "dead"} \cup Calls
  /\ hb \in {"asleep", "judging", "petting"}

\* The loop is about to enter its first accept, READY=1 has just been sent.
Init ==
  /\ now = 0
  /\ armed \in BOOLEAN
  /\ silent \in SilentStream
  /\ last_tick = 0
  /\ in_flight = {}
  /\ pc = "accept"
  /\ since = 0
  /\ wedged = FALSE
  /\ hb = "asleep"
  /\ wake = Interval
  /\ sampled = 0
  /\ lastPet = 0
  /\ killed = FALSE
  /\ lost = 0
  /\ ailing = -1

-----------------------------------------------------------------------------
(***************************************************************************)
(* Mistakes the properties must notice, each the mutant of one definition. *)
(***************************************************************************)

\* The ceiling is set although the accept timeout could not be.
AlwaysCeiled == {3 * Interval}

\* A bounded call is judged by its progress, like a stream.
IsAliveByProgress(t) ==
  IF in_flight = {}
    THEN \A c \in (IF armed THEN {3 * Interval} ELSE {}) : t - last_tick <= c
    ELSE \A f \in in_flight :
           IF f.kind = "Bounded"
             THEN t - f.last_progress <= LongestBoundedCall
             ELSE \A c \in silent : t - f.last_progress <= c

\* A call starts and its start is not stamped.
CallStartedUnstamped(kind) ==
  /\ pc = "accepted"
  /\ in_flight' = {[kind |-> kind, started_at |-> -1, last_progress |-> now]}
  /\ pc' = kind
  /\ since' = now
  /\ UNCHANGED last_tick

\* The end of a call is no tick: only the turn of the loop is.
CallFinishedUnticked ==
  /\ pc \in Calls
  /\ in_flight' = {}
  /\ pc' = "turn"
  /\ since' = now
  /\ UNCHANGED last_tick

\* The clock is read before the sleep.
WakeWithOldClock ==
  /\ hb = "asleep"
  /\ now >= wake
  /\ hb' = "judging"
  /\ sampled' = wake - Interval
  /\ UNCHANGED <<wake, systemd>>

-----------------------------------------------------------------------------
(***************************************************************************)
(* The serve loop.                                                         *)
(***************************************************************************)

\* The accept timeout is the heartbeat interval and the idle ceiling three of
\* them; without the timeout there is no ceiling.
idle_tick_ceiling == IF armed THEN {3 * Interval} ELSE {}

\* The loop takes its next step, to be at label.
MoveTo(label) ==
  /\ pc' = label
  /\ since' = now

\* Socket::accept returns a client.
Accept ==
  /\ pc = "accept"
  /\ MoveTo("accepted")
  /\ UNCHANGED activity

\* SO_RCVTIMEO ends an idle accept.
AcceptTimesOut ==
  /\ pc = "accept"
  /\ armed
  /\ now >= since + Interval
  /\ MoveTo("turn")
  /\ UNCHANGED activity

\* Any other error of accept is logged, and the loop turns.
AcceptFails ==
  /\ pc = "accept"
  /\ MoveTo("turn")
  /\ UNCHANGED activity

CallStarted(kind) ==
  /\ pc = "accepted"
  /\ in_flight' = {[kind |-> kind, started_at |-> now, last_progress |-> now]}
  /\ MoveTo(kind)
  /\ UNCHANGED last_tick

\* progressed may be stamped in any call, "unconditionally from a send path";
\* it is a stream that owes it.
Progressed ==
  /\ pc \in Calls
  /\ in_flight' = {[f EXCEPT !.last_progress = now] : f \in in_flight}
  /\ since' = IF pc = "Streaming" THEN now ELSE since
  /\ UNCHANGED <<last_tick, pc>>

CallFinished ==
  /\ pc \in Calls
  /\ in_flight' = {}
  /\ last_tick' = now
  /\ MoveTo("turn")

Tick ==
  /\ pc = "turn"
  /\ last_tick' = now
  /\ MoveTo("accept")
  /\ UNCHANGED in_flight

LoopStep ==
  /\ ~killed
  /\ ~wedged
  /\ \/ Accept
     \/ AcceptTimesOut
     \/ AcceptFails
     \/ \E kind \in Calls : CallStarted(kind)
     \/ Progressed
     \/ CallFinished
     \/ Tick
  /\ UNCHANGED <<now, armed, silent, wedged, ailing, heartbeat, systemd>>

\* The loop stops turning, wherever it is: a deadlock, a call that hangs.
Wedge ==
  /\ ~killed
  /\ pc # "dead"
  /\ ~wedged
  /\ wedged' = TRUE
  /\ ailing' = now
  /\ UNCHANGED <<now, armed, silent, activity, pc, since, heartbeat, systemd>>

\* The serve thread panics while it holds the lock, which poisons it.
Panic ==
  /\ ~killed
  /\ ~wedged
  /\ pc \in {"accepted", "turn"} \cup Calls
  /\ MoveTo("dead")
  /\ ailing' = now
  /\ UNCHANGED <<now, armed, silent, wedged, activity, heartbeat, systemd>>

-----------------------------------------------------------------------------
(***************************************************************************)
(* The heartbeat thread.                                                   *)
(***************************************************************************)

\* saturating_duration_since: a stamp may be newer than the sampled instant.
Age(t, stamp) == IF t > stamp THEN t - stamp ELSE 0

is_alive(t) ==
  /\ pc # "dead"
  /\ IF in_flight = {}
       THEN \A c \in idle_tick_ceiling : Age(t, last_tick) <= c
       ELSE \A f \in in_flight :
              /\ f.kind = "Bounded" => Age(t, f.started_at) <= LongestBoundedCall
              /\ f.kind = "Streaming" =>
                   \A c \in silent : Age(t, f.last_progress) <= c

\* sleep(interval) returns, and the clock is read before the lock is taken.
Wake ==
  /\ hb = "asleep"
  /\ now >= wake
  /\ hb' = "judging"
  /\ sampled' = now
  /\ UNCHANGED <<wake, systemd>>

SleepAgain ==
  /\ hb' = "asleep"
  /\ wake' = now + Interval
  /\ UNCHANGED sampled

Judge ==
  /\ hb = "judging"
  /\ \/ is_alive(sampled) /\ hb' = "petting" /\ UNCHANGED <<wake, sampled>>
     \/ ~is_alive(sampled) /\ SleepAgain
  /\ UNCHANGED systemd

\* notify swallows every failure, so a pet that was not sent is not retried
\* before the next interval.
Pet ==
  /\ hb = "petting"
  /\ SleepAgain
  /\ \/ lastPet' = now /\ UNCHANGED lost
     \/ lost < MaxLost /\ lost' = lost + 1 /\ UNCHANGED lastPet
  /\ UNCHANGED killed

HeartbeatStep ==
  /\ ~killed
  /\ Wake \/ Judge \/ Pet
  /\ UNCHANGED <<now, armed, silent, activity, loop>>

-----------------------------------------------------------------------------

\* systemd, external to the daemon: SIGABRT after WatchdogSec without a pet.
Kill ==
  /\ ~killed
  /\ now >= lastPet + WatchdogUsec
  /\ killed' = TRUE
  /\ UNCHANGED <<now, armed, silent, activity, loop, heartbeat, lastPet, lost>>

\* How long the loop, when it is healthy, may stay where it is.
DueIn ==
  CASE pc = "accept" /\ armed -> {Interval + Jitter}
    [] pc \in {"accepted", "turn"} -> {Jitter}
    [] OTHER -> {}

\* The ceiling a call is promised, and has outstayed.
Outstayed(t) ==
  \/ pc = "Bounded" /\ t > since + LongestBoundedCall
  \/ pc = "Streaming" /\ \E c \in silent : t > since + c

Advance ==
  /\ ~killed
  /\ now < MaxTime
  /\ wedged \/ \A d \in DueIn : now < since + d
  /\ now < wake + Jitter
  /\ now < lastPet + WatchdogUsec
  /\ now' = now + 1
  /\ ailing' = IF wedged \/ pc = "dead" \/ Outstayed(now') THEN now' ELSE ailing
  /\ UNCHANGED <<armed, silent, activity, pc, since, wedged, heartbeat, systemd>>

\* Where the model ends: a kill, or the bound on the clock.
Ended ==
  /\ killed \/ now = MaxTime
  /\ UNCHANGED vars

Next ==
  \/ LoopStep \/ Wedge \/ Panic \/ HeartbeatStep \/ Kill \/ Advance \/ Ended

Spec == Init /\ [][Next]_vars

-----------------------------------------------------------------------------

\* A daemon is killed only within one watchdog timeout of a moment at which
\* its loop really was wedged, dead, or in a call past its ceiling: a long
\* call, a quiet stream, an idle loop and a stamp that races the heartbeat's
\* clock are all healthy.  (A pet that got lost is the exception.)
HealthyNeverKilled == killed => ailing + WatchdogUsec >= now \/ lost > 0

\* The ceiling, if any, that ends the trust in a loop that does not move.
Patience ==
  CASE pc = "Bounded" -> {LongestBoundedCall}
    [] pc = "Streaming" -> silent
    [] pc = "dead" -> {0}
    [] OTHER -> idle_tick_ceiling

\* A loop that stops is killed in bounded time: no later than one watchdog
\* timeout after the last pet its ceiling allows, which was judged up to
\* Jitter before it was sent.  Progress does not prolong a bounded call.
WedgeIsDetected ==
  ~killed => \A c \in Patience : now <= since + c + Jitter + WatchdogUsec

\* The verdict is about the loop and nothing else, whenever it is asked for:
\* is_alive refuses whoever has outstayed a ceiling, although stamps keep being
\* made elsewhere, and nobody who is healthy, between two stamps or in them.
VerdictIsExact ==
  /\ ~is_alive(now) => wedged \/ pc = "dead" \/ Outstayed(now)
  /\ \A c \in Patience : now > since + c => ~is_alive(now)

\* Pets, stamps and the heartbeat's clock come to what module Supervision says:
\* nothing but a move of the loop puts off its end, nothing at all once it has
\* stopped, and its end comes in time, and not without a cause.
Supervised == INSTANCE Supervision WITH
  Timeout <- WatchdogUsec,
  Notice <- Jitter + WatchdogUsec,
  PetsArrive <- MaxLost = 0,
  stopped <- wedged \/ pc = "dead",
  due <- {since + c + Jitter + WatchdogUsec : c \in Patience}

ImplementsSupervision == Supervised!SupervisionSpec

\* "Notification is advisory and must never take down the daemon."
NotificationIsAdvisory == killed => ailing + WatchdogUsec >= now

=============================================================================
