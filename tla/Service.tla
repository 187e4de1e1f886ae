------------------------------ MODULE Service ------------------------------
(***************************************************************************)
(* A unit in service: daemons that take the path (module SocketPath), run  *)
(* the prologue and the loop of serve in src/examples/gatekeeper.rs, stall *)
(* in a call, and are killed by systemd when the pets stop; and clients    *)
(* that connect through the path, wait in the listener's queue, lose their *)
(* connection with the daemon, and come again until they are answered.     *)
(* A start's probe is one more connection in that queue, and blocks like   *)
(* one when it is full.                                                    *)
(*                                                                         *)
(* There is no clock here.  That pets stop in bounded time, and only when  *)
(* is_alive says so, is module Watchdog's; here is_alive is what it is in  *)
(* the long run.                                                           *)
(***************************************************************************)
EXTENDS SocketPath, Sequences, Functions

CONSTANTS
  Client,
  Nobody,        \* no connection
  Environments,  \* $WATCHDOG_USEC (0: unset or malformed) and $WATCHDOG_PID
  Backlog,       \* how many connections wait in a listener's queue
  MaxStalls,     \* bound on the calls that do not return
  MaxStops       \* bound on the orderly shutdowns

ASSUME ServiceAssumption ==
  /\ Client \cap Daemon = {}
  /\ Nobody \notin Client \cup Daemon
  /\ Environments \subseteq [usec : Nat, pid : {"unset", "ours", "other"}]
  /\ {Backlog, MaxStalls, MaxStops} \subseteq Nat

VARIABLES
  env,       \* the environment systemd starts the daemons in
  loop,      \* loop[d]: where serve is, once Socket::bind has returned
  queue,     \* queue[d]: the connections d's listener has not accepted
  cur,       \* cur[d]: the connection d's call is about
  stalled,   \* stalled[d]: that call does not return
  armed,     \* armed[d]: d's accept times out
  ceiling,   \* ceiling[d]: idle_tick_ceiling, an Option
  beat,      \* beat[d]: the heartbeat thread runs
  answered,  \* the clients that were answered
  stalls, stops

watchdog == <<armed, ceiling, beat>>
conns == <<queue, cur, answered>>
serveVars == <<env, loop, conns, stalled, watchdog, stalls, stops>>
serviceVars == <<vars, serveVars>>

ServiceTypeOK ==
  /\ TypeOK
  /\ env \in Environments
  /\ loop \in [Daemon -> {"out", "bound", "ready", "accept", "call"}]
  /\ queue \in [Daemon -> Seq(Client \cup Daemon)]
  /\ cur \in [Daemon -> Client \cup Daemon \cup {Nobody}]
  /\ stalled \in [Daemon -> BOOLEAN]
  /\ armed \in [Daemon -> BOOLEAN] /\ beat \in [Daemon -> BOOLEAN]
  /\ ceiling \in [Daemon -> SUBSET Nat]
  /\ answered \subseteq Client
  /\ stalls \in 0 .. MaxStalls /\ stops \in 0 .. MaxStops

ServiceInit ==
  /\ Init
  /\ env \in Environments
  /\ loop = [d \in Daemon |-> "out"]
  /\ queue = [d \in Daemon |-> <<>>]
  /\ cur = [d \in Daemon |-> Nobody]
  /\ stalled = [d \in Daemon |-> FALSE]
  /\ armed = [d \in Daemon |-> FALSE]
  /\ ceiling = [d \in Daemon |-> {}]
  /\ beat = [d \in Daemon |-> FALSE]
  /\ answered = {}
  /\ stalls = 0
  /\ stops = 0

-----------------------------------------------------------------------------
(***************************************************************************)
(* Mistakes the properties must notice, each the mutant of one definition. *)
(***************************************************************************)

\* A watchdog is ours only when it names us.
HeartbeatFromNamed(usec, pid) ==
  IF pid = "ours" /\ usec > 0 THEN {usec \div 2} ELSE {}

\* Whoever was in the call has been answered, a probe as well.
AnswerOneCountsProbes(d) ==
  /\ loop[d] = "call"
  /\ ~stalled[d]
  /\ answered' = answered \cup {cur[d]}
  /\ cur' = [cur EXCEPT ![d] = Nobody]
  /\ loop' = [loop EXCEPT ![d] = "accept"]
  /\ UNCHANGED <<vars, env, queue, stalled, watchdog, stalls, stops>>

\* Every call is opened as a stream.
CallIsStreaming == "Streaming"

\* A call that runs is alive, however long it runs.
AliveInAnyCall(d) ==
  loop[d] = "call" \/ \A c \in ceiling[d] : armed[d]

-----------------------------------------------------------------------------
(***************************************************************************)
(* src/src/watchdog.rs.                                                    *)
(***************************************************************************)

\* The malformed and the unset variable give the same None; half of 1 is 0.
heartbeat_from(usec, pid) ==
  IF pid = "other" \/ usec = 0 THEN {} ELSE {usec \div 2}

heartbeat_interval == heartbeat_from(env.usec, env.pid)

\* systemd watches this process; a watchdog that names another is not ours.
Watched == env.usec > 0 /\ env.pid # "other"

\* Liveness::new, of which only idle_tick_ceiling is told apart here.
LivenessNew == {}

\* Liveness::with_idle_tick_ceiling
with_idle_tick_ceiling(c) == {c}

\* The example opens every call as InFlight::Bounded.
CallKind == "Bounded"

\* Liveness::new leaves longest_silent_stream None and bounds a bounded call:
\* one that stalls outstays that.  An idle loop outstays its ceiling unless
\* accept times out.
AliveInTheLongRun(d) ==
  IF loop[d] = "call"
    THEN ~stalled[d] \/ CallKind = "Streaming"
    ELSE \A c \in ceiling[d] : armed[d]

-----------------------------------------------------------------------------

\* The connections of daemons that are gone are reset; their clients are back
\* where they were, and the prologue starts afresh.
Reset(d) ==
  /\ loop' = [loop EXCEPT ![d] = "out"]
  /\ queue' = [queue EXCEPT ![d] = <<>>]
  /\ cur' = [cur EXCEPT ![d] = Nobody]
  /\ stalled' = [stalled EXCEPT ![d] = FALSE]
  /\ armed' = [armed EXCEPT ![d] = FALSE]
  /\ ceiling' = [ceiling EXCEPT ![d] = {}]
  /\ beat' = [beat EXCEPT ![d] = FALSE]
  /\ UNCHANGED <<env, answered>>

HasRoom(d) == Len(queue[d]) < Backlog

\* The probe of a start joins the queue of a live listener, and is closed at
\* once; while there is no room in it, it waits, without a deadline.
ProbeConnects(d) ==
  /\ Connect(d)
  /\ IF Accepts
       THEN HasRoom(path) /\ queue' = [queue EXCEPT ![path] = Append(@, d)]
       ELSE UNCHANGED queue
  /\ UNCHANGED <<env, loop, cur, stalled, watchdog, answered, stalls, stops>>

\* Socket::bind returns to serve.
BindReturns(d) ==
  /\ GiveSocketToGroup(d)
  /\ loop' = [loop EXCEPT ![d] = "bound"]
  /\ UNCHANGED <<env, conns, stalled, watchdog, stalls, stops>>

\* The other steps of Socket::bind.
BindsOn(d) ==
  /\ \/ SymlinkMetadata(d) \/ RemoveStale(d) \/ BindInode(d) \/ Listen(d)
     \/ SetPermissions(d) \/ RemoveWreckage(d)
  /\ UNCHANGED serveVars

NotifyReady(d) ==
  /\ loop[d] = "bound"
  /\ loop' = [loop EXCEPT ![d] = "ready"]
  /\ UNCHANGED <<vars, env, conns, stalled, watchdog, stalls, stops>>

\* serve, from heartbeat_interval to spawn_heartbeat, without a watchdog: the
\* accept is not bounded, and nobody pets.
NoHeartbeat(d) ==
  /\ loop[d] = "ready"
  /\ heartbeat_interval = {}
  /\ loop' = [loop EXCEPT ![d] = "accept"]
  /\ UNCHANGED <<vars, env, conns, stalled, watchdog, stalls, stops>>

\* The same with one: a timeout of 0 is set without an error and clears
\* SO_RCVTIMEO, a failure to set it leaves the ceiling off.
Heartbeat(d) ==
  /\ loop[d] = "ready"
  /\ \E interval \in heartbeat_interval :
       \/ /\ armed' = [armed EXCEPT ![d] = interval > 0]
          /\ ceiling' = [ceiling EXCEPT ![d] = with_idle_tick_ceiling(3 * interval)]
          /\ UNCHANGED faults
       \/ /\ Fault
          /\ ceiling' = [ceiling EXCEPT ![d] = LivenessNew]
          /\ UNCHANGED armed
  /\ beat' = [beat EXCEPT ![d] = TRUE]
  /\ loop' = [loop EXCEPT ![d] = "accept"]
  /\ UNCHANGED <<pc, path, mode, group, warned, outcome, crashes,
                 env, conns, stalled, stalls, stops>>

\* Socket::accept and call_started.  (An accept that times out changes nothing
\* but the tick.)
AcceptOne(d) ==
  /\ loop[d] = "accept"
  /\ queue[d] # <<>>
  /\ cur' = [cur EXCEPT ![d] = Head(queue[d])]
  /\ queue' = [queue EXCEPT ![d] = Tail(queue[d])]
  /\ loop' = [loop EXCEPT ![d] = "call"]
  /\ UNCHANGED <<vars, env, stalled, watchdog, answered, stalls, stops>>

\* Socket::accept fails after accept(2): the stream is dropped, the loop turns.
\* (If accept(2) itself fails, it turns and nothing has changed.)
AcceptFails(d) ==
  /\ loop[d] = "accept"
  /\ queue[d] # <<>>
  /\ Fault
  /\ queue' = [queue EXCEPT ![d] = Tail(queue[d])]
  /\ UNCHANGED <<pc, path, mode, group, warned, outcome, crashes,
                 env, loop, cur, stalled, watchdog, answered, stalls, stops>>

\* answer returns, call_finished, tick: whatever the client did meanwhile.
AnswerOne(d) ==
  /\ loop[d] = "call"
  /\ ~stalled[d]
  /\ answered' = answered \cup ({cur[d]} \cap Client)
  /\ cur' = [cur EXCEPT ![d] = Nobody]
  /\ loop' = [loop EXCEPT ![d] = "accept"]
  /\ UNCHANGED <<vars, env, queue, stalled, watchdog, stalls, stops>>

ServeStep(d) ==
  \/ NotifyReady(d) \/ NoHeartbeat(d) \/ Heartbeat(d) \/ AcceptOne(d)
  \/ AnswerOne(d)

\* A call does not return: a reply nobody reads, a directory that hangs.
Stall(d) ==
  /\ loop[d] = "call"
  /\ ~stalled[d]
  /\ stalls < MaxStalls
  /\ stalls' = stalls + 1
  /\ stalled' = [stalled EXCEPT ![d] = TRUE]
  /\ UNCHANGED <<vars, env, loop, conns, watchdog, stops>>

\* serve returns, between two turns, and drops the Socket; what waits in the
\* queue is lost when the listener field is dropped after it.
ServeReturns(d) ==
  /\ Drop(d)
  /\ loop[d] = "accept"
  /\ stops < MaxStops
  /\ stops' = stops + 1
  /\ loop' = [loop EXCEPT ![d] = "out"]
  /\ UNCHANGED <<env, conns, stalled, watchdog, stalls>>

ListenerCloses(d) ==
  /\ CloseListener(d)
  /\ Reset(d)
  /\ UNCHANGED <<stalls, stops>>

Dies(d) ==
  /\ Crash(d)
  /\ Reset(d)
  /\ UNCHANGED <<stalls, stops>>

-----------------------------------------------------------------------------
(***************************************************************************)
(* External: systemd and the clients.                                      *)
(***************************************************************************)

\* WatchdogSec without a pet, in the loop: SIGABRT.
Kill(d) ==
  /\ Watched
  /\ loop[d] \in {"accept", "call"}
  /\ ~beat[d] \/ ~AliveInTheLongRun(d)
  /\ Goto(d, "down")
  /\ Return(d, "none")
  /\ Reset(d)
  /\ UNCHANGED <<path, mode, group, warned, crashes, faults, stalls, stops>>

\* The supervisor starts a daemon.
Starts(d) ==
  /\ Exists(d)
  /\ UNCHANGED serveVars

Connected(c) == \E d \in Daemon : cur[d] = c \/ c \in Range(queue[d])

\* A client that is refused comes again, and one that is answered does not.
ClientConnects(c) ==
  /\ c \notin answered
  /\ ~Connected(c)
  /\ Accepts
  /\ HasRoom(path)
  /\ queue' = [queue EXCEPT ![path] = Append(@, c)]
  /\ UNCHANGED <<vars, env, loop, cur, stalled, watchdog, answered, stalls, stops>>

\* Nobody notices a stalled call if nobody watches.
Abandoned == \E d \in Daemon : stalled[d] /\ ~Watched

\* Then everyone may wait for good: the one place where the unit may stop.
WaitForGood ==
  /\ Abandoned
  /\ UNCHANGED serviceVars

ServiceNext ==
  \/ \E d \in Daemon :
       \/ Starts(d) \/ BindsOn(d) \/ ProbeConnects(d) \/ BindReturns(d)
       \/ ServeStep(d) \/ AcceptFails(d) \/ Stall(d)
       \/ ServeReturns(d) \/ ListenerCloses(d) \/ Dies(d) \/ Kill(d)
  \/ \E c \in Client : ClientConnects(c)
  \/ WaitForGood

ServiceSpec == ServiceInit /\ [][ServiceNext]_serviceVars

\* Threads run, systemd kills and restarts.  A client waits its turn in
\* connect(2) or tries again: whenever, again and again, it could have got into
\* the queue, it does some day.  Stalls, crashes, faults and shutdowns are
\* never owed.
ServiceFairness ==
  /\ \A d \in Daemon :
       /\ WF_serviceVars(BindsOn(d) \/ ProbeConnects(d) \/ BindReturns(d))
       /\ WF_serviceVars(ServeStep(d))
       /\ WF_serviceVars(ListenerCloses(d))
       /\ WF_serviceVars(Kill(d))
  /\ WF_serviceVars(\E d \in Daemon : Starts(d))
  /\ \A c \in Client : SF_serviceVars(ClientConnects(c))

FairServiceSpec == ServiceSpec /\ ServiceFairness

-----------------------------------------------------------------------------

\* Half of WATCHDOG_USEC=1 is no time: the accept timeout is then cleared, the
\* ceiling is 0, and no property below holds.
Halves == env.usec # 1

\* systemd kills only a daemon whose call does not return: whatever the
\* environment says, and whether or not the accept timeout could be armed.
KillIsEarned ==
  [][\A d \in Daemon : Halves /\ Kill(d) => stalled[d]]_serviceVars

\* A start does not hang in its probe: a live daemon makes room for it, and one
\* that has stalled with its queue full is killed.
StartsEnd ==
  \A d \in Daemon : (pc[d] = "probe") ~> (pc[d] # "probe" \/ Abandoned \/ ~Halves)

\* Kills, crashes, shutdowns, failed starts and take-overs lose connections,
\* but no client for good: it is answered some day.
ClientsAreServed ==
  \A c \in Client :
    (path \notin Foreign) ~> (c \in answered \/ Abandoned \/ ~Halves)

=============================================================================
