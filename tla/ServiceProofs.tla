---------------------------- MODULE ServiceProofs ----------------------------
(***************************************************************************)
(* For any daemons, clients, environments and queues: the variables of     *)
(* module Service keep their types, systemd kills only what has stalled,   *)
(* and what module SocketPath promises of a supervised path holds of a     *)
(* unit in service too.                                                    *)
(***************************************************************************)
EXTENDS Service, SocketPathProofs

LEMMA Environment ==
  ASSUME env \in Environments
  PROVE  /\ env.usec \in Nat
         /\ env.pid \in {"unset", "ours", "other"}
BY ServiceAssumption DEF ServiceAssumption

\* heartbeat_from gives one duration or none, and none exactly to a daemon
\* nobody watches.
LEMMA IntervalOfEnvironment ==
  ASSUME env \in Environments
  PROVE  /\ heartbeat_interval \subseteq Nat
         /\ heartbeat_interval = {} <=> ~Watched
         /\ Halves => \A interval \in heartbeat_interval : interval > 0
<1>1. env.usec \in Nat
  BY Environment
<1>2. CASE Watched
  <2>1. heartbeat_interval = {env.usec \div 2}
    BY <1>1, <1>2 DEF heartbeat_interval, heartbeat_from, Watched
  <2>2. env.usec \div 2 \in Nat
    BY <1>1
  <2>3. Halves => env.usec \div 2 > 0
    BY <1>1, <1>2 DEF Halves, Watched
  <2>4. QED
    BY <1>2, <2>1, <2>2, <2>3
<1>3. CASE ~Watched
  <2>1. heartbeat_interval = {}
    BY <1>1, <1>3 DEF heartbeat_interval, heartbeat_from, Watched
  <2>2. QED
    BY <1>3, <2>1
<1>4. QED
  BY <1>2, <1>3

-----------------------------------------------------------------------------
(***************************************************************************)
(* What a step of the unit does to the path.                               *)
(***************************************************************************)

\* A step that leaves the path and every bind alone: it may count a fault.
PathAlone ==
  /\ UNCHANGED <<pc, path, mode, group, warned, outcome, crashes>>
  /\ UNCHANGED faults \/ Fault

\* A daemon is gone from one moment to the next, and its inode stays.
Gone(d) ==
  /\ pc' = [pc EXCEPT ![d] = "down"]
  /\ outcome' = [outcome EXCEPT ![d] = "none"]
  /\ UNCHANGED <<path, mode, group, warned, crashes, faults>>

LEMMA PathStep ==
  ASSUME [ServiceNext]_serviceVars
  PROVE  Next \/ PathAlone \/ \E d \in Daemon : Gone(d)
<1>1. CASE UNCHANGED serviceVars \/ WaitForGood
  BY <1>1 DEF serviceVars, vars, WaitForGood, PathAlone
<1>2. ASSUME NEW d \in Daemon, Starts(d) PROVE Next
  BY <1>2 DEF Starts, Next
<1>3. ASSUME NEW d \in Daemon, BindsOn(d) \/ ProbeConnects(d) \/ BindReturns(d)
      PROVE  Next
  BY <1>3 DEF BindsOn, ProbeConnects, BindReturns, BindStep, Next
<1>4. ASSUME NEW d \in Daemon, ServeStep(d) PROVE PathAlone
  BY <1>4 DEF ServeStep, NotifyReady, NoHeartbeat, Heartbeat, AcceptOne,
              AnswerOne, PathAlone, vars
<1>5. ASSUME NEW d \in Daemon, AcceptFails(d) \/ Stall(d) PROVE PathAlone
  BY <1>5 DEF AcceptFails, Stall, PathAlone, vars
<1>6. ASSUME NEW d \in Daemon, ServeReturns(d) \/ ListenerCloses(d) \/ Dies(d)
      PROVE  Next
  BY <1>6 DEF ServeReturns, ListenerCloses, Dies, Next
<1>7. ASSUME NEW d \in Daemon, Kill(d) PROVE Gone(d)
  BY <1>7 DEF Kill, Gone, Goto, Return
<1>8. ASSUME NEW c \in Client, ClientConnects(c) PROVE PathAlone
  BY <1>8 DEF ClientConnects, PathAlone, vars
<1>9. QED
  BY <1>1, <1>2, <1>3, <1>4, <1>5, <1>6, <1>7, <1>8 DEF ServiceNext

LEMMA TypeUntouched ==
  ASSUME TypeOK, PathAlone \/ \E d \in Daemon : Gone(d)
  PROVE  TypeOK'
BY DEF TypeOK, PathAlone, Gone, Fault, Starting

\* The supervised path's invariant survives the deaths systemd deals out, and
\* what serve does behind the path.
LEMMA SupervisedUntouched ==
  ASSUME SupervisedInv, PathAlone
  PROVE  SupervisedInv'
<1>1. TypeOK'
  BY TypeUntouched DEF SupervisedInv
<1>2. QED
  BY <1>1 DEF SupervisedInv, NothingLeft, NoWreckage, OnlyLookedAt, OneStart,
              OwnersHoldPath, ReclaimOnlyStale, ModeSinceChmod,
              GroupFailureIsSaid, PathAlone

LEMMA SupervisedGone ==
  ASSUME SupervisedInv, NEW d \in Daemon, Gone(d)
  PROVE  SupervisedInv'
<1> USE DEF SupervisedInv, TypeOK, Gone
<1>1. TypeOK'
  BY TypeUntouched
<1>2. NothingLeft'
  BY DEF NothingLeft, NoWreckage
<1>3. OnlyLookedAt'
  BY DEF OnlyLookedAt
<1>4. OneStart'
  BY DEF OneStart, Starting
<1>5. OwnersHoldPath' /\ ReclaimOnlyStale'
  BY DEF OwnersHoldPath, ReclaimOnlyStale, Owning
<1>6. ModeSinceChmod' /\ GroupFailureIsSaid'
  BY DEF ModeSinceChmod, GroupFailureIsSaid
<1>7. QED
  BY <1>1, <1>2, <1>3, <1>4, <1>5, <1>6

LEMMA SupervisedInService == SerialStarts /\ ServiceSpec => []SupervisedInv
<1>1. ServiceInit => SupervisedInv
  BY SupervisedInitially DEF ServiceInit
<1>2. SerialStarts /\ SupervisedInv /\ [ServiceNext]_serviceVars => SupervisedInv'
  BY PathStep, SupervisedStep, SupervisedUntouched, SupervisedGone
<1>3. CASE SerialStarts
  <2>1. SupervisedInv /\ [ServiceNext]_serviceVars => SupervisedInv'
    BY <1>2, <1>3
  <2>2. QED
    BY <1>1, <2>1, PTL DEF ServiceSpec
<1>4. QED
  BY <1>3

\* In a unit that is killed, restarted and connected to, the path still names
\* the daemon that serves, what a start removes is still stale, and no daemon
\* serves behind the umask's mode: module SocketPath left nothing out that
\* its promises depend on.
THEOREM PathInService ==
  SerialStarts /\ ServiceSpec
    => [](ServingIsReachable /\ ReclaimOnlyStale /\ ModeBeforeServing
          /\ GroupFailureIsSaid /\ NoWreckage)
<1>1. SupervisedInv => ServingIsReachable /\ ReclaimOnlyStale /\ ModeBeforeServing
                         /\ GroupFailureIsSaid /\ NoWreckage
  BY DEF SupervisedInv, NothingLeft, OwnersHoldPath, ModeSinceChmod, Owning,
         ServingIsReachable, ModeBeforeServing
<1>2. QED
  BY <1>1, SupervisedInService, PTL

\* A step that is not the path's own changes what a client finds there only for
\* a daemon that dies.
LEMMA OwnershipUntouched ==
  ASSUME PathAlone
  PROVE  [Ownership!OwnershipNext]_(Ownership!ownershipVars)
BY DEF PathAlone, Ownership!ownershipVars

LEMMA OwnershipGone ==
  ASSUME SupervisedInv, NEW d \in Daemon, Gone(d)
  PROVE  [Ownership!OwnershipNext]_(Ownership!ownershipVars)
<1> USE PathKinds DEF SupervisedInv, TypeOK, OwnersHoldPath, Owning, Gone
<1>1. CASE pc[d] \in Owning
  <2>1. Owner = d /\ Owner' = "free" /\ Serving' = Serving \ {d}
    BY <1>1 DEF Owner, Serving
  <2>2. Ownership!Release(d)
    BY <2>1 DEF Ownership!Release, Owner, Serving
  <2>3. QED
    BY <2>2 DEF Ownership!OwnershipNext
<1>2. CASE pc[d] \notin Owning
  <2>1. Owner' = Owner /\ Serving' = Serving
    BY <1>2 DEF Owner, Serving
  <2>2. QED
    BY <2>1 DEF Owner, Serving, Ownership!ownershipVars
<1>3. QED
  BY <1>1, <1>2

\* The path is a lock in service too: systemd's kills release it, like crashes,
\* and neither serve nor its clients take it.
THEOREM LockInService == SerialStarts /\ ServiceSpec => ImplementsOwnership
<1>1. ServiceInit => Ownership!OwnershipInit
  BY OwnershipInitially DEF ServiceInit
<1>2. SupervisedInv /\ SupervisedInv' /\ [ServiceNext]_serviceVars
        => [Ownership!OwnershipNext]_(Ownership!ownershipVars)
  BY PathStep, OwnershipStep, OwnershipUntouched, OwnershipGone
<1>3. QED
  BY <1>1, <1>2, SupervisedInService, PTL
     DEF ServiceSpec, ImplementsOwnership, Ownership!OwnershipSpec

\* A unit in service tells the truth of its path: a bind that says AlreadyActive
\* says it of a daemon in its accept loop, although its probe may have waited
\* for that one's queue, and nobody's live socket is taken.
THEOREM ClaimsInService ==
  SerialStarts /\ ServiceSpec => AlreadyActiveIsTrue /\ LiveSocketNotTaken
<1>1. SupervisedInv /\ SupervisedInv' /\ [ServiceNext]_serviceVars
        => [\A d \in Daemon :
              pc[d] = "serving" /\ pc'[d] = "serving" /\ path = d => path' = d]_vars
  BY DEF SupervisedInv, OwnersHoldPath, Owning
<1>2. SupervisedInv /\ [ServiceNext]_serviceVars
        => [\A d \in Daemon :
              outcome[d] # "AlreadyActive" /\ outcome'[d] = "AlreadyActive"
                => \E q \in Daemon :
                     /\ path = q
                     /\ pc[q] = "serving" \/ (pc[q] = "closing" /\ outcome[q] = "Left")]_vars
  <2> SUFFICES ASSUME SupervisedInv, [ServiceNext]_serviceVars, NEW d \in Daemon,
                      outcome[d] # "AlreadyActive", outcome'[d] = "AlreadyActive"
               PROVE  \E q \in Daemon :
                        /\ path = q
                        /\ pc[q] = "serving" \/ (pc[q] = "closing" /\ outcome[q] = "Left")
    OBVIOUS
  <2>1. ~PathAlone /\ ~\E e \in Daemon : Gone(e)
    BY DEF PathAlone, Gone, SupervisedInv, TypeOK
  <2>2. QED
    BY <2>1, PathStep, AlreadyActiveStep
<1>3. QED
  BY <1>1, <1>2, SupervisedInService, PTL
     DEF ServiceSpec, AlreadyActiveIsTrue, LiveSocketNotTaken

-----------------------------------------------------------------------------
(***************************************************************************)
(* Types.                                                                  *)
(***************************************************************************)

\* The types of what serve adds to the path.
ServeTypes ==
  /\ env \in Environments
  /\ loop \in [Daemon -> {"out", "bound", "ready", "accept", "call"}]
  /\ queue \in [Daemon -> Seq(Client \cup Daemon)]
  /\ cur \in [Daemon -> Client \cup Daemon \cup {Nobody}]
  /\ stalled \in [Daemon -> BOOLEAN]
  /\ armed \in [Daemon -> BOOLEAN] /\ beat \in [Daemon -> BOOLEAN]
  /\ ceiling \in [Daemon -> SUBSET Nat]
  /\ answered \subseteq Client
  /\ stalls \in 0 .. MaxStalls /\ stops \in 0 .. MaxStops

LEMMA ServeTypesInitially == ServiceInit => ServeTypes
BY ServiceAssumption DEF ServiceAssumption, ServiceInit, ServeTypes

LEMMA ResetTypes ==
  ASSUME ServeTypes, NEW d \in Daemon, Reset(d), UNCHANGED stalls,
         stops' \in 0 .. MaxStops
  PROVE  ServeTypes'
BY DEF ServeTypes, Reset

LEMMA ServeTypesStep ==
  ASSUME TypeOK, ServeTypes, [ServiceNext]_serviceVars
  PROVE  ServeTypes'
<1> USE ServiceAssumption DEF ServiceAssumption, ServeTypes, conns, watchdog
<1>1. CASE UNCHANGED serviceVars \/ WaitForGood
  BY <1>1 DEF serviceVars, serveVars, WaitForGood
<1>2. ASSUME NEW d \in Daemon, Starts(d) \/ BindsOn(d) PROVE ServeTypes'
  BY <1>2 DEF Starts, BindsOn, serveVars
<1>3. ASSUME NEW d \in Daemon, ProbeConnects(d) PROVE ServeTypes'
  <2>1. CASE Accepts
    <3>1. path \in Daemon
      BY <2>1 DEF Accepts
    <3>2. Append(queue[path], d) \in Seq(Client \cup Daemon)
      BY <3>1
    <3>3. queue' = [queue EXCEPT ![path] = Append(queue[path], d)]
      BY <1>3, <2>1 DEF ProbeConnects
    <3>4. queue' \in [Daemon -> Seq(Client \cup Daemon)]
      BY <3>1, <3>2, <3>3
    <3>5. QED
      BY <1>3, <3>4 DEF ProbeConnects
  <2>2. CASE ~Accepts
    BY <1>3, <2>2 DEF ProbeConnects
  <2>3. QED
    BY <2>1, <2>2
<1>4. ASSUME NEW d \in Daemon, BindReturns(d) PROVE ServeTypes'
  BY <1>4 DEF BindReturns
<1>5. ASSUME NEW d \in Daemon, NotifyReady(d) \/ NoHeartbeat(d) PROVE ServeTypes'
  BY <1>5 DEF NotifyReady, NoHeartbeat
<1>6. ASSUME NEW d \in Daemon, Heartbeat(d) PROVE ServeTypes'
  <2>1. PICK interval \in heartbeat_interval :
          \/ /\ armed' = [armed EXCEPT ![d] = interval > 0]
             /\ ceiling' = [ceiling EXCEPT ![d] = with_idle_tick_ceiling(3 * interval)]
          \/ /\ ceiling' = [ceiling EXCEPT ![d] = LivenessNew]
             /\ UNCHANGED armed
    BY <1>6 DEF Heartbeat
  <2>2. interval \in Nat
    BY IntervalOfEnvironment
  <2>3. /\ with_idle_tick_ceiling(3 * interval) \subseteq Nat
        /\ LivenessNew \subseteq Nat
        /\ (interval > 0) \in BOOLEAN
    BY <2>2 DEF with_idle_tick_ceiling, LivenessNew
  <2>4. \E c \in SUBSET Nat : ceiling' = [ceiling EXCEPT ![d] = c]
    BY <2>1, <2>3, Zenon
  <2>5. \E b \in BOOLEAN : armed' = [armed EXCEPT ![d] = b] \/ armed' = armed
    BY <2>1, <2>3, Zenon
  <2>6. armed' \in [Daemon -> BOOLEAN]
    BY <2>5
  <2>7. ceiling' \in [Daemon -> SUBSET Nat]
    <3>1. PICK c \in SUBSET Nat : ceiling' = [ceiling EXCEPT ![d] = c]
      BY <2>4
    <3>2. ceiling \in [Daemon -> SUBSET Nat]
      OBVIOUS
    <3>3. QED
      BY <3>1, <3>2
  <2>8. QED
    BY <1>6, <2>6, <2>7 DEF Heartbeat
<1>7. ASSUME NEW d \in Daemon, AcceptOne(d) \/ AcceptFails(d) PROVE ServeTypes'
  <2>1. /\ Head(queue[d]) \in Client \cup Daemon
        /\ Tail(queue[d]) \in Seq(Client \cup Daemon)
    BY <1>7 DEF AcceptOne, AcceptFails
  <2>2. queue' = [queue EXCEPT ![d] = Tail(queue[d])]
    BY <1>7 DEF AcceptOne, AcceptFails
  <2>3. queue' \in [Daemon -> Seq(Client \cup Daemon)]
    BY <2>1, <2>2
  <2>4. CASE AcceptOne(d)
    BY <2>1, <2>3, <2>4 DEF AcceptOne
  <2>5. CASE AcceptFails(d)
    BY <2>3, <2>5 DEF AcceptFails
  <2>6. QED
    BY <1>7, <2>4, <2>5
<1>8. ASSUME NEW d \in Daemon, AnswerOne(d) PROVE ServeTypes'
  BY <1>8 DEF AnswerOne
<1>9. ASSUME NEW d \in Daemon, Stall(d) PROVE ServeTypes'
  BY <1>9 DEF Stall
<1>10. ASSUME NEW d \in Daemon, ServeReturns(d) PROVE ServeTypes'
  BY <1>10 DEF ServeReturns
<1>11. ASSUME NEW d \in Daemon, ListenerCloses(d) \/ Dies(d) \/ Kill(d)
       PROVE  ServeTypes'
  BY <1>11, ResetTypes DEF ListenerCloses, Dies, Kill
<1>12. ASSUME NEW c \in Client, ClientConnects(c) PROVE ServeTypes'
  <2>1. path \in Daemon
    BY <1>12 DEF ClientConnects, Accepts
  <2>2. Append(queue[path], c) \in Seq(Client \cup Daemon)
    BY <2>1
  <2>3. QED
    BY <1>12, <2>1, <2>2 DEF ClientConnects
<1>13. QED
  BY <1>1, <1>2, <1>3, <1>4, <1>5, <1>6, <1>7, <1>8, <1>9, <1>10, <1>11, <1>12
     DEF ServiceNext, ServeStep

LEMMA ServiceTypeStep ==
  ServiceTypeOK /\ [ServiceNext]_serviceVars => ServiceTypeOK'
<1> SUFFICES ASSUME ServiceTypeOK, [ServiceNext]_serviceVars
             PROVE  ServiceTypeOK'
  OBVIOUS
<1>1. TypeOK'
  BY PathStep, TypeStep, TypeUntouched DEF ServiceTypeOK
<1>2. QED
  BY <1>1, ServeTypesStep DEF ServiceTypeOK, ServeTypes

LEMMA ServiceTypeInitially == ServiceInit => ServiceTypeOK
BY TypeInitially, ServeTypesInitially DEF ServiceInit, ServiceTypeOK, ServeTypes

\* Every variable of a unit in service keeps its type: in particular a probe is
\* never counted as a client that was answered.
THEOREM ServiceTypes == ServiceSpec => []ServiceTypeOK
<1>1. QED
  BY ServiceTypeInitially, ServiceTypeStep, PTL DEF ServiceSpec

-----------------------------------------------------------------------------
(***************************************************************************)
(* Kills.                                                                  *)
(***************************************************************************)

\* A watched daemon pets from before its first accept on, and an idle ceiling
\* comes with an accept that times out.
WatchedLoops ==
  /\ \A d \in Daemon : Watched /\ loop[d] \in {"accept", "call"} => beat[d]
  /\ Halves => \A d \in Daemon : \A c \in ceiling[d] : armed[d]

LEMMA WatchedLoopsStep ==
  ASSUME ServiceTypeOK, WatchedLoops, [ServiceNext]_serviceVars
  PROVE  WatchedLoops'
<1> USE DEF ServiceTypeOK, WatchedLoops, Watched, Halves, conns, watchdog
<1>1. CASE UNCHANGED serviceVars \/ WaitForGood
  BY <1>1 DEF serviceVars, serveVars, WaitForGood
<1>2. ASSUME NEW d \in Daemon, Starts(d) \/ BindsOn(d) PROVE WatchedLoops'
  BY <1>2 DEF Starts, BindsOn, serveVars
<1>3. ASSUME NEW d \in Daemon, ProbeConnects(d) PROVE WatchedLoops'
  BY <1>3 DEF ProbeConnects
<1>4. ASSUME NEW d \in Daemon, BindReturns(d) \/ NotifyReady(d) PROVE WatchedLoops'
  BY <1>4 DEF BindReturns, NotifyReady
<1>5. ASSUME NEW d \in Daemon, NoHeartbeat(d) PROVE WatchedLoops'
  <2>1. ~Watched
    BY <1>5, IntervalOfEnvironment DEF NoHeartbeat
  <2>2. QED
    BY <1>5, <2>1 DEF NoHeartbeat
<1>6. ASSUME NEW d \in Daemon, Heartbeat(d) PROVE WatchedLoops'
  <2>1. PICK interval \in heartbeat_interval :
          \/ /\ armed' = [armed EXCEPT ![d] = interval > 0]
             /\ ceiling' = [ceiling EXCEPT ![d] = with_idle_tick_ceiling(3 * interval)]
          \/ /\ ceiling' = [ceiling EXCEPT ![d] = LivenessNew]
             /\ UNCHANGED armed
    BY <1>6 DEF Heartbeat
  <2>2. Halves => interval > 0
    BY IntervalOfEnvironment
  <2>3. Halves' => \A e \in Daemon : \A c \in ceiling'[e] : armed'[e]
    BY <1>6, <2>1, <2>2 DEF Heartbeat, LivenessNew
  <2>4. \A e \in Daemon : Watched' /\ loop'[e] \in {"accept", "call"} => beat'[e]
    BY <1>6 DEF Heartbeat
  <2>5. QED
    BY <2>3, <2>4
<1>7. ASSUME NEW d \in Daemon, AcceptOne(d) \/ AcceptFails(d) \/ AnswerOne(d)
      PROVE  WatchedLoops'
  BY <1>7 DEF AcceptOne, AcceptFails, AnswerOne
<1>8. ASSUME NEW d \in Daemon, Stall(d) \/ ServeReturns(d) PROVE WatchedLoops'
  BY <1>8 DEF Stall, ServeReturns
<1>9. ASSUME NEW d \in Daemon, ListenerCloses(d) \/ Dies(d) \/ Kill(d)
      PROVE  WatchedLoops'
  BY <1>9 DEF ListenerCloses, Dies, Kill, Reset
<1>10. ASSUME NEW c \in Client, ClientConnects(c) PROVE WatchedLoops'
  BY <1>10 DEF ClientConnects
<1>11. QED
  BY <1>1, <1>2, <1>3, <1>4, <1>5, <1>6, <1>7, <1>8, <1>9, <1>10
     DEF ServiceNext, ServeStep

\* Whatever systemd's environment says and whatever set_accept_timeout answers,
\* a daemon whose call has not stalled is not killed.
THEOREM KillsAreEarned == ServiceSpec => KillIsEarned
<1>1. ServiceInit => ServiceTypeOK /\ WatchedLoops
  BY ServiceTypeInitially DEF ServiceInit, WatchedLoops
<1>2. ServiceTypeOK /\ WatchedLoops /\ [ServiceNext]_serviceVars
        => (ServiceTypeOK /\ WatchedLoops)'
  BY ServiceTypeStep, WatchedLoopsStep
<1>3. ServiceTypeOK /\ WatchedLoops /\ [ServiceNext]_serviceVars
        => [\A d \in Daemon : Halves /\ Kill(d) => stalled[d]]_serviceVars
  <2>1. ASSUME ServiceTypeOK, WatchedLoops, NEW d \in Daemon, Halves, Kill(d)
        PROVE  stalled[d]
    <3>1. ~AliveInTheLongRun(d)
      BY <2>1 DEF Kill, WatchedLoops
    <3>2. loop[d] = "call"
      BY <2>1, <3>1 DEF WatchedLoops, AliveInTheLongRun
    <3>3. QED
      BY <3>1, <3>2 DEF AliveInTheLongRun
  <2>2. QED
    BY <2>1
<1>4. QED
  BY <1>1, <1>2, <1>3, PTL DEF ServiceSpec, KillIsEarned

=============================================================================
