-------------------------- MODULE SocketPathProofs --------------------------
(***************************************************************************)
(* What SocketPath's runs show for three daemons and a few crashes, proved *)
(* for every set of daemons and every bound.  NoWreckage and               *)
(* ReachableIsConfigured need nothing of the supervisor; the rest needs    *)
(* SerialStarts, as the runs with concurrent starts show.                  *)
(***************************************************************************)
EXTENDS SocketPath, TLAPS

\* The daemons in the model are no other thing the path can name.
LEMMA PathKinds ==
  /\ "free" \notin Daemon
  /\ "file" \notin Daemon
  /\ "dangling" \notin Daemon
  /\ Foreign = {"file", "dangling"}
BY SocketPathAssumption DEF SocketPathAssumption, Foreign

-----------------------------------------------------------------------------

LEMMA TypeInitially == Init => TypeOK
BY DEF Init, TypeOK, Starting

LEMMA TypeStep == TypeOK /\ [Next]_vars => TypeOK'
<1> SUFFICES ASSUME TypeOK, [Next]_vars PROVE TypeOK'
  OBVIOUS
<1> USE DEF TypeOK, Starting, Goto, Return, Fail, Fault
<1>1. CASE UNCHANGED vars
  BY <1>1 DEF vars
<1>2. ASSUME NEW d \in Daemon, Exists(d) PROVE TypeOK'
  BY <1>2 DEF Exists
<1>3. ASSUME NEW d \in Daemon, SymlinkMetadata(d) PROVE TypeOK'
  BY <1>3 DEF SymlinkMetadata
<1>4. ASSUME NEW d \in Daemon, Connect(d) PROVE TypeOK'
  BY <1>4 DEF Connect
<1>5. ASSUME NEW d \in Daemon, RemoveStale(d) PROVE TypeOK'
  BY <1>5 DEF RemoveStale
<1>6. ASSUME NEW d \in Daemon, BindInode(d) PROVE TypeOK'
  BY <1>6 DEF BindInode
<1>7. ASSUME NEW d \in Daemon, Listen(d) PROVE TypeOK'
  BY <1>7 DEF Listen
<1>8. ASSUME NEW d \in Daemon, SetPermissions(d) PROVE TypeOK'
  BY <1>8 DEF SetPermissions
<1>9. ASSUME NEW d \in Daemon, RemoveWreckage(d) PROVE TypeOK'
  BY <1>9 DEF RemoveWreckage
<1>10. ASSUME NEW d \in Daemon, GiveSocketToGroup(d) PROVE TypeOK'
  BY <1>10 DEF GiveSocketToGroup
<1>11. ASSUME NEW d \in Daemon, Drop(d) PROVE TypeOK'
  BY <1>11 DEF Drop
<1>12. ASSUME NEW d \in Daemon, CloseListener(d) PROVE TypeOK'
  BY <1>12 DEF CloseListener
<1>13. ASSUME NEW d \in Daemon, Crash(d) PROVE TypeOK'
  BY <1>13 DEF Crash
<1>14. QED
  BY <1>1, <1>2, <1>3, <1>4, <1>5, <1>6, <1>7, <1>8, <1>9, <1>10, <1>11,
     <1>12, <1>13 DEF Next, BindStep

\* Every variable of the path protocol keeps its type, whatever happens.
THEOREM TypeCorrect == Spec => []TypeOK
<1>1. Init => TypeOK
  BY TypeInitially
<1>2. TypeOK /\ [Next]_vars => TypeOK'
  BY TypeStep
<1>3. QED
  BY <1>1, <1>2, PTL DEF Spec

-----------------------------------------------------------------------------
(***************************************************************************)
(* What holds whoever starts when.                                         *)
(***************************************************************************)

\* A daemon about to close its listener has no inode at the path any more,
\* unless its unlink was refused: NoWreckage, from the unlink on.
NothingLeft ==
  /\ NoWreckage
  /\ \A d \in Daemon : pc[d] = "closing" /\ outcome[d] # "Left" => path # d

LEMMA NothingLeftInitially == Init => NothingLeft
BY PathKinds DEF Init, NothingLeft, NoWreckage

LEMMA NothingLeftStep == TypeOK /\ NothingLeft /\ [Next]_vars => NothingLeft'
<1> SUFFICES ASSUME TypeOK, NothingLeft, [Next]_vars PROVE NothingLeft'
  OBVIOUS
<1> USE PathKinds DEF TypeOK, NothingLeft, NoWreckage, Starting, Goto, Return,
                      Fail, Fault, NamesNothing
<1>1. CASE UNCHANGED vars
  BY <1>1 DEF vars
<1>2. ASSUME NEW e \in Daemon, Exists(e) PROVE NothingLeft'
  BY <1>2 DEF Exists
<1>3. ASSUME NEW e \in Daemon, SymlinkMetadata(e) PROVE NothingLeft'
  BY <1>3 DEF SymlinkMetadata
<1>4. ASSUME NEW e \in Daemon, Connect(e) PROVE NothingLeft'
  BY <1>4 DEF Connect
<1>5. ASSUME NEW e \in Daemon, RemoveStale(e) PROVE NothingLeft'
  BY <1>5 DEF RemoveStale
<1>6. ASSUME NEW e \in Daemon, BindInode(e) PROVE NothingLeft'
  BY <1>6 DEF BindInode
<1>7. ASSUME NEW e \in Daemon, Listen(e) PROVE NothingLeft'
  BY <1>7 DEF Listen
<1>8. ASSUME NEW e \in Daemon, SetPermissions(e) PROVE NothingLeft'
  BY <1>8 DEF SetPermissions
<1>9. ASSUME NEW e \in Daemon, RemoveWreckage(e) PROVE NothingLeft'
  BY <1>9 DEF RemoveWreckage
<1>10. ASSUME NEW e \in Daemon, GiveSocketToGroup(e) PROVE NothingLeft'
  BY <1>10 DEF GiveSocketToGroup
<1>11. ASSUME NEW e \in Daemon, Drop(e) PROVE NothingLeft'
  BY <1>11 DEF Drop
<1>12. ASSUME NEW e \in Daemon, CloseListener(e) PROVE NothingLeft'
  BY <1>12 DEF CloseListener
<1>13. ASSUME NEW e \in Daemon, Crash(e) PROVE NothingLeft'
  BY <1>13 DEF Crash
<1>14. QED
  BY <1>1, <1>2, <1>3, <1>4, <1>5, <1>6, <1>7, <1>8, <1>9, <1>10, <1>11,
     <1>12, <1>13 DEF Next, BindStep

\* No clean shutdown and no failed bind leaves its own inode at the path, for
\* any number of daemons starting and stopping at once.
THEOREM NoWreckageHolds == Spec => []NoWreckage
<1>1. Init => TypeOK /\ NothingLeft
  BY TypeInitially, NothingLeftInitially
<1>2. TypeOK /\ NothingLeft /\ [Next]_vars => (TypeOK /\ NothingLeft)'
  BY TypeStep, NothingLeftStep
<1>3. NothingLeft => NoWreckage
  BY DEF NothingLeft
<1>4. QED
  BY <1>1, <1>2, <1>3, PTL DEF Spec

\* A start only looks at what is not a socket, if nobody puts it there later:
\* it never gets as far as the probe, let alone the unlink.
OnlyLookedAt ==
  path \in Foreign => \A d \in Daemon : pc[d] \in {"down", "lstat", "bind"}

LEMMA OnlyLookedAtInitially == Init => OnlyLookedAt
BY DEF Init, OnlyLookedAt

LEMMA OnlyLookedAtStep ==
  ASSUME TypeOK, OnlyLookedAt, [Next]_vars
  PROVE  OnlyLookedAt'
<1> USE PathKinds DEF TypeOK, OnlyLookedAt, Starting, Goto, Return, Fail,
                      Fault, Accepts, Refuses, NamesNothing
<1>1. CASE UNCHANGED vars
  BY <1>1 DEF vars
<1>2. ASSUME NEW e \in Daemon, Exists(e) PROVE OnlyLookedAt'
  BY <1>2 DEF Exists
<1>3. ASSUME NEW e \in Daemon, SymlinkMetadata(e) PROVE OnlyLookedAt'
  BY <1>3 DEF SymlinkMetadata
<1>4. ASSUME NEW e \in Daemon, Connect(e) PROVE OnlyLookedAt'
  BY <1>4 DEF Connect
<1>5. ASSUME NEW e \in Daemon, RemoveStale(e) PROVE OnlyLookedAt'
  BY <1>5 DEF RemoveStale
<1>6. ASSUME NEW e \in Daemon, BindInode(e) PROVE OnlyLookedAt'
  BY <1>6 DEF BindInode
<1>7. ASSUME NEW e \in Daemon, Listen(e) PROVE OnlyLookedAt'
  BY <1>7 DEF Listen
<1>8. ASSUME NEW e \in Daemon, SetPermissions(e) PROVE OnlyLookedAt'
  BY <1>8 DEF SetPermissions
<1>9. ASSUME NEW e \in Daemon, RemoveWreckage(e) PROVE OnlyLookedAt'
  BY <1>9 DEF RemoveWreckage
<1>10. ASSUME NEW e \in Daemon, GiveSocketToGroup(e) PROVE OnlyLookedAt'
  BY <1>10 DEF GiveSocketToGroup
<1>11. ASSUME NEW e \in Daemon, Drop(e) PROVE OnlyLookedAt'
  BY <1>11 DEF Drop
<1>12. ASSUME NEW e \in Daemon, CloseListener(e) PROVE OnlyLookedAt'
  BY <1>12 DEF CloseListener
<1>13. ASSUME NEW e \in Daemon, Crash(e) PROVE OnlyLookedAt'
  BY <1>13 DEF Crash
<1>14. QED
  BY <1>1, <1>2, <1>3, <1>4, <1>5, <1>6, <1>7, <1>8, <1>9, <1>10, <1>11,
     <1>12, <1>13 DEF Next, BindStep

\* ReachableIsConfigured, from set_permissions on: a daemon that the path leads
\* to has had its chmod and its chown act on its own inode.
ConfiguredSoFar ==
  /\ ReachableIsConfigured
  /\ \A d \in Daemon : pc[d] = "chown" /\ path = d => mode[d] = "config"

LEMMA ConfiguredStep ==
  ASSUME TypeOK, ConfiguredSoFar, [Next]_vars
  PROVE  ConfiguredSoFar'
<1> USE PathKinds DEF TypeOK, ConfiguredSoFar, ReachableIsConfigured, Starting,
                      Goto, Return, Fail, Fault, NamesNothing
<1>1. CASE UNCHANGED vars
  BY <1>1 DEF vars
<1>2. ASSUME NEW e \in Daemon, Exists(e) PROVE ConfiguredSoFar'
  BY <1>2 DEF Exists
<1>3. ASSUME NEW e \in Daemon, SymlinkMetadata(e) PROVE ConfiguredSoFar'
  BY <1>3 DEF SymlinkMetadata
<1>4. ASSUME NEW e \in Daemon, Connect(e) PROVE ConfiguredSoFar'
  BY <1>4 DEF Connect
<1>5. ASSUME NEW e \in Daemon, RemoveStale(e) PROVE ConfiguredSoFar'
  BY <1>5 DEF RemoveStale
<1>6. ASSUME NEW e \in Daemon, BindInode(e) PROVE ConfiguredSoFar'
  BY <1>6 DEF BindInode
<1>7. ASSUME NEW e \in Daemon, Listen(e) PROVE ConfiguredSoFar'
  BY <1>7 DEF Listen
<1>8. ASSUME NEW e \in Daemon, SetPermissions(e) PROVE ConfiguredSoFar'
  BY <1>8 DEF SetPermissions
<1>9. ASSUME NEW e \in Daemon, RemoveWreckage(e) PROVE ConfiguredSoFar'
  BY <1>9 DEF RemoveWreckage
<1>10. ASSUME NEW e \in Daemon, GiveSocketToGroup(e) PROVE ConfiguredSoFar'
  BY <1>10 DEF GiveSocketToGroup
<1>11. ASSUME NEW e \in Daemon, Drop(e) PROVE ConfiguredSoFar'
  BY <1>11 DEF Drop
<1>12. ASSUME NEW e \in Daemon, CloseListener(e) PROVE ConfiguredSoFar'
  BY <1>12 DEF CloseListener
<1>13. ASSUME NEW e \in Daemon, Crash(e) PROVE ConfiguredSoFar'
  BY <1>13 DEF Crash
<1>14. QED
  BY <1>1, <1>2, <1>3, <1>4, <1>5, <1>6, <1>7, <1>8, <1>9, <1>10, <1>11,
     <1>12, <1>13 DEF Next, BindStep

\* Any number of starts at once may run chmod and chown on each other's inodes:
\* a daemon that serves where the path leads has the mode and the group it asked
\* for, or has said what it lacks.
THEOREM ReachableConfigured == Spec => []ReachableIsConfigured
<1>1. Init => TypeOK /\ ConfiguredSoFar
  BY TypeInitially DEF Init, ConfiguredSoFar, ReachableIsConfigured
<1>2. TypeOK /\ ConfiguredSoFar /\ [Next]_vars => (TypeOK /\ ConfiguredSoFar)'
  BY TypeStep, ConfiguredStep
<1>3. ConfiguredSoFar => ReachableIsConfigured
  BY DEF ConfiguredSoFar
<1>4. QED
  BY <1>1, <1>2, <1>3, PTL DEF Spec

-----------------------------------------------------------------------------
(***************************************************************************)
(* What holds under a supervisor that runs one start at a time.            *)
(***************************************************************************)

\* SerialStarts, as a state formula: at most one daemon is inside bind.
OneStart ==
  \A d, e \in Daemon : pc[d] \in Starting /\ pc[e] \in Starting => d = e

\* ServingIsReachable, from bind(2) on: it is what makes set_permissions and
\* chown, which name the path, act on the caller's own inode.
OwnersHoldPath == \A d \in Daemon : pc[d] \in Owning => path = d

\* ModeBeforeServing, from set_permissions on.
ModeSinceChmod ==
  \A d \in Daemon : pc[d] \in {"chown", "serving"} => mode[d] = "config"

SupervisedInv ==
  /\ TypeOK
  /\ NothingLeft
  /\ OnlyLookedAt
  /\ OneStart
  /\ OwnersHoldPath
  /\ ReclaimOnlyStale
  /\ ModeSinceChmod
  /\ GroupFailureIsSaid

LEMMA SupervisedInitially == Init => SupervisedInv
<1>1. Init => OneStart /\ OwnersHoldPath /\ ReclaimOnlyStale /\ ModeSinceChmod
              /\ GroupFailureIsSaid
  BY DEF Init, Starting, Owning, OneStart, OwnersHoldPath, ReclaimOnlyStale,
         ModeSinceChmod, GroupFailureIsSaid
<1>2. QED
  BY <1>1, TypeInitially, NothingLeftInitially, OnlyLookedAtInitially
     DEF SupervisedInv

LEMMA OneStartStep ==
  ASSUME SerialStarts, TypeOK, OneStart, [Next]_vars
  PROVE  OneStart'
<1> USE DEF TypeOK, OneStart, Starting, Goto, Return, Fail, Fault
<1>1. CASE UNCHANGED vars
  BY <1>1 DEF vars
<1>2. ASSUME NEW e \in Daemon, Exists(e) PROVE OneStart'
  BY <1>2 DEF Exists, MayStart
<1>3. ASSUME NEW e \in Daemon, SymlinkMetadata(e) PROVE OneStart'
  BY <1>3 DEF SymlinkMetadata
<1>4. ASSUME NEW e \in Daemon, Connect(e) PROVE OneStart'
  BY <1>4 DEF Connect
<1>5. ASSUME NEW e \in Daemon, RemoveStale(e) PROVE OneStart'
  BY <1>5 DEF RemoveStale
<1>6. ASSUME NEW e \in Daemon, BindInode(e) PROVE OneStart'
  BY <1>6 DEF BindInode
<1>7. ASSUME NEW e \in Daemon, Listen(e) PROVE OneStart'
  BY <1>7 DEF Listen
<1>8. ASSUME NEW e \in Daemon, SetPermissions(e) PROVE OneStart'
  BY <1>8 DEF SetPermissions
<1>9. ASSUME NEW e \in Daemon, RemoveWreckage(e) PROVE OneStart'
  BY <1>9 DEF RemoveWreckage
<1>10. ASSUME NEW e \in Daemon, GiveSocketToGroup(e) PROVE OneStart'
  BY <1>10 DEF GiveSocketToGroup
<1>11. ASSUME NEW e \in Daemon, Drop(e) PROVE OneStart'
  BY <1>11 DEF Drop
<1>12. ASSUME NEW e \in Daemon, CloseListener(e) PROVE OneStart'
  BY <1>12 DEF CloseListener
<1>13. ASSUME NEW e \in Daemon, Crash(e) PROVE OneStart'
  BY <1>13 DEF Crash
<1>14. QED
  BY <1>1, <1>2, <1>3, <1>4, <1>5, <1>6, <1>7, <1>8, <1>9, <1>10, <1>11,
     <1>12, <1>13 DEF Next, BindStep

\* The owner's path changes only by the owner's own calls: whoever else is in
\* bind is the only one there, and has found a stale inode, or nothing.
LEMMA OwnersHoldPathStep ==
  ASSUME SupervisedInv, [Next]_vars
  PROVE  OwnersHoldPath'
<1> USE PathKinds DEF SupervisedInv, TypeOK, OwnersHoldPath, OneStart, Starting,
                      Owning, Goto, Return, Fail, Fault
<1>1. CASE UNCHANGED vars
  BY <1>1 DEF vars
<1>2. ASSUME NEW e \in Daemon, Exists(e) PROVE OwnersHoldPath'
  BY <1>2 DEF Exists
<1>3. ASSUME NEW e \in Daemon, SymlinkMetadata(e) PROVE OwnersHoldPath'
  BY <1>3 DEF SymlinkMetadata
<1>4. ASSUME NEW e \in Daemon, Connect(e) PROVE OwnersHoldPath'
  BY <1>4 DEF Connect
<1>5. ASSUME NEW e \in Daemon, RemoveStale(e) PROVE OwnersHoldPath'
  BY <1>5 DEF RemoveStale, ReclaimOnlyStale
<1>6. ASSUME NEW e \in Daemon, BindInode(e) PROVE OwnersHoldPath'
  BY <1>6 DEF BindInode
<1>7. ASSUME NEW e \in Daemon, Listen(e) PROVE OwnersHoldPath'
  BY <1>7 DEF Listen
<1>8. ASSUME NEW e \in Daemon, SetPermissions(e) PROVE OwnersHoldPath'
  BY <1>8 DEF SetPermissions
<1>9. ASSUME NEW e \in Daemon, RemoveWreckage(e) PROVE OwnersHoldPath'
  BY <1>9 DEF RemoveWreckage
<1>10. ASSUME NEW e \in Daemon, GiveSocketToGroup(e) PROVE OwnersHoldPath'
  BY <1>10 DEF GiveSocketToGroup
<1>11. ASSUME NEW e \in Daemon, Drop(e) PROVE OwnersHoldPath'
  BY <1>11 DEF Drop
<1>12. ASSUME NEW e \in Daemon, CloseListener(e) PROVE OwnersHoldPath'
  BY <1>12 DEF CloseListener
<1>13. ASSUME NEW e \in Daemon, Crash(e) PROVE OwnersHoldPath'
  BY <1>13 DEF Crash
<1>14. QED
  BY <1>1, <1>2, <1>3, <1>4, <1>5, <1>6, <1>7, <1>8, <1>9, <1>10, <1>11,
     <1>12, <1>13 DEF Next, BindStep

\* The probe's answer is still true when remove_file runs.
LEMMA ReclaimOnlyStaleStep ==
  ASSUME SupervisedInv, OneStart', [Next]_vars
  PROVE  ReclaimOnlyStale'
<1> USE PathKinds DEF SupervisedInv, TypeOK, ReclaimOnlyStale, OwnersHoldPath,
                      OneStart, Starting, Owning, Goto, Return, Fail, Fault
<1>1. CASE UNCHANGED vars
  BY <1>1 DEF vars
<1>2. ASSUME NEW e \in Daemon, Exists(e) PROVE ReclaimOnlyStale'
  BY <1>2 DEF Exists
<1>3. ASSUME NEW e \in Daemon, SymlinkMetadata(e) PROVE ReclaimOnlyStale'
  BY <1>3 DEF SymlinkMetadata
<1>4. ASSUME NEW e \in Daemon, Connect(e) PROVE ReclaimOnlyStale'
  BY <1>4 DEF Connect, Refuses, Accepts, Listening, NamesNothing, OnlyLookedAt
<1>5. ASSUME NEW e \in Daemon, RemoveStale(e) PROVE ReclaimOnlyStale'
  BY <1>5 DEF RemoveStale
<1>6. ASSUME NEW e \in Daemon, BindInode(e) PROVE ReclaimOnlyStale'
  BY <1>6 DEF BindInode
<1>7. ASSUME NEW e \in Daemon, Listen(e) PROVE ReclaimOnlyStale'
  BY <1>7 DEF Listen
<1>8. ASSUME NEW e \in Daemon, SetPermissions(e) PROVE ReclaimOnlyStale'
  BY <1>8 DEF SetPermissions
<1>9. ASSUME NEW e \in Daemon, RemoveWreckage(e) PROVE ReclaimOnlyStale'
  BY <1>9 DEF RemoveWreckage
<1>10. ASSUME NEW e \in Daemon, GiveSocketToGroup(e) PROVE ReclaimOnlyStale'
  BY <1>10 DEF GiveSocketToGroup
<1>11. ASSUME NEW e \in Daemon, Drop(e) PROVE ReclaimOnlyStale'
  BY <1>11 DEF Drop
<1>12. ASSUME NEW e \in Daemon, CloseListener(e) PROVE ReclaimOnlyStale'
  BY <1>12 DEF CloseListener
<1>13. ASSUME NEW e \in Daemon, Crash(e) PROVE ReclaimOnlyStale'
  BY <1>13 DEF Crash
<1>14. QED
  BY <1>1, <1>2, <1>3, <1>4, <1>5, <1>6, <1>7, <1>8, <1>9, <1>10, <1>11,
     <1>12, <1>13 DEF Next, BindStep

LEMMA ModeSinceChmodStep ==
  ASSUME SupervisedInv, [Next]_vars
  PROVE  ModeSinceChmod'
<1> USE PathKinds DEF SupervisedInv, TypeOK, ModeSinceChmod, OwnersHoldPath,
                      Starting, Owning, Goto, Return, Fail, Fault
<1>1. CASE UNCHANGED vars
  BY <1>1 DEF vars
<1>2. ASSUME NEW e \in Daemon, Exists(e) PROVE ModeSinceChmod'
  BY <1>2 DEF Exists
<1>3. ASSUME NEW e \in Daemon, SymlinkMetadata(e) PROVE ModeSinceChmod'
  BY <1>3 DEF SymlinkMetadata
<1>4. ASSUME NEW e \in Daemon, Connect(e) PROVE ModeSinceChmod'
  BY <1>4 DEF Connect
<1>5. ASSUME NEW e \in Daemon, RemoveStale(e) PROVE ModeSinceChmod'
  BY <1>5 DEF RemoveStale
<1>6. ASSUME NEW e \in Daemon, BindInode(e) PROVE ModeSinceChmod'
  BY <1>6 DEF BindInode
<1>7. ASSUME NEW e \in Daemon, Listen(e) PROVE ModeSinceChmod'
  BY <1>7 DEF Listen
<1>8. ASSUME NEW e \in Daemon, SetPermissions(e) PROVE ModeSinceChmod'
  BY <1>8 DEF SetPermissions
<1>9. ASSUME NEW e \in Daemon, RemoveWreckage(e) PROVE ModeSinceChmod'
  BY <1>9 DEF RemoveWreckage
<1>10. ASSUME NEW e \in Daemon, GiveSocketToGroup(e) PROVE ModeSinceChmod'
  BY <1>10 DEF GiveSocketToGroup
<1>11. ASSUME NEW e \in Daemon, Drop(e) PROVE ModeSinceChmod'
  BY <1>11 DEF Drop
<1>12. ASSUME NEW e \in Daemon, CloseListener(e) PROVE ModeSinceChmod'
  BY <1>12 DEF CloseListener
<1>13. ASSUME NEW e \in Daemon, Crash(e) PROVE ModeSinceChmod'
  BY <1>13 DEF Crash
<1>14. QED
  BY <1>1, <1>2, <1>3, <1>4, <1>5, <1>6, <1>7, <1>8, <1>9, <1>10, <1>11,
     <1>12, <1>13 DEF Next, BindStep

LEMMA GroupFailureIsSaidStep ==
  ASSUME SupervisedInv, [Next]_vars
  PROVE  GroupFailureIsSaid'
<1> USE PathKinds, SocketPathAssumption
    DEF SocketPathAssumption, SupervisedInv, TypeOK, GroupFailureIsSaid,
        OwnersHoldPath, Starting, Owning, Goto, Return, Fail, Fault
<1>1. CASE UNCHANGED vars
  BY <1>1 DEF vars
<1>2. ASSUME NEW e \in Daemon, Exists(e) PROVE GroupFailureIsSaid'
  BY <1>2 DEF Exists
<1>3. ASSUME NEW e \in Daemon, SymlinkMetadata(e) PROVE GroupFailureIsSaid'
  BY <1>3 DEF SymlinkMetadata
<1>4. ASSUME NEW e \in Daemon, Connect(e) PROVE GroupFailureIsSaid'
  BY <1>4 DEF Connect
<1>5. ASSUME NEW e \in Daemon, RemoveStale(e) PROVE GroupFailureIsSaid'
  BY <1>5 DEF RemoveStale
<1>6. ASSUME NEW e \in Daemon, BindInode(e) PROVE GroupFailureIsSaid'
  BY <1>6 DEF BindInode
<1>7. ASSUME NEW e \in Daemon, Listen(e) PROVE GroupFailureIsSaid'
  BY <1>7 DEF Listen
<1>8. ASSUME NEW e \in Daemon, SetPermissions(e) PROVE GroupFailureIsSaid'
  BY <1>8 DEF SetPermissions
<1>9. ASSUME NEW e \in Daemon, RemoveWreckage(e) PROVE GroupFailureIsSaid'
  BY <1>9 DEF RemoveWreckage
<1>10. ASSUME NEW e \in Daemon, GiveSocketToGroup(e) PROVE GroupFailureIsSaid'
  BY <1>10 DEF GiveSocketToGroup
<1>11. ASSUME NEW e \in Daemon, Drop(e) PROVE GroupFailureIsSaid'
  BY <1>11 DEF Drop
<1>12. ASSUME NEW e \in Daemon, CloseListener(e) PROVE GroupFailureIsSaid'
  BY <1>12 DEF CloseListener
<1>13. ASSUME NEW e \in Daemon, Crash(e) PROVE GroupFailureIsSaid'
  BY <1>13 DEF Crash
<1>14. QED
  BY <1>1, <1>2, <1>3, <1>4, <1>5, <1>6, <1>7, <1>8, <1>9, <1>10, <1>11,
     <1>12, <1>13 DEF Next, BindStep

LEMMA SupervisedStep ==
  SerialStarts /\ SupervisedInv /\ [Next]_vars => SupervisedInv'
<1> SUFFICES ASSUME SerialStarts, SupervisedInv, [Next]_vars
             PROVE  SupervisedInv'
  OBVIOUS
<1>1. TypeOK' /\ NothingLeft' /\ OnlyLookedAt'
  BY TypeStep, NothingLeftStep, OnlyLookedAtStep DEF SupervisedInv
<1>2. OneStart'
  BY OneStartStep DEF SupervisedInv
<1>3. OwnersHoldPath' /\ ModeSinceChmod' /\ GroupFailureIsSaid'
  BY OwnersHoldPathStep, ModeSinceChmodStep, GroupFailureIsSaidStep
<1>4. ReclaimOnlyStale'
  BY <1>2, ReclaimOnlyStaleStep
<1>5. QED
  BY <1>1, <1>2, <1>3, <1>4 DEF SupervisedInv

LEMMA SupervisedAlways == SerialStarts /\ Spec => []SupervisedInv
<1>1. SerialStarts /\ SupervisedInv /\ [Next]_vars => SupervisedInv'
  BY SupervisedStep
<1>2. CASE SerialStarts
  <2>1. SupervisedInv /\ [Next]_vars => SupervisedInv'
    BY <1>1, <1>2
  <2>2. QED
    BY <2>1, SupervisedInitially, PTL DEF Spec
<1>3. QED
  BY <1>2

\* No other daemon's start takes the socket of a daemon in its accept loop.
THEOREM ReachableWhileServing == SerialStarts /\ Spec => []ServingIsReachable
<1>1. SupervisedInv => ServingIsReachable
  BY DEF SupervisedInv, OwnersHoldPath, Owning, ServingIsReachable
<1>2. QED
  BY <1>1, SupervisedAlways, PTL

\* One start at a time is what the source's promise lacks: then the socket of a
\* daemon in its accept loop is not taken from under it, which two starts at
\* once can do.
THEOREM NotTakenOneByOne == SerialStarts /\ Spec => LiveSocketNotTaken
<1>1. SupervisedInv /\ SupervisedInv'
        => [\A d \in Daemon :
              pc[d] = "serving" /\ pc'[d] = "serving" /\ path = d => path' = d]_vars
  BY DEF SupervisedInv, OwnersHoldPath, Owning
<1>2. QED
  BY <1>1, SupervisedAlways, PTL DEF Spec, LiveSocketNotTaken

\* What reclaim_stale_socket removes is still stale when it removes it.
THEOREM OnlyStaleIsReclaimed == SerialStarts /\ Spec => []ReclaimOnlyStale
<1>1. SupervisedInv => ReclaimOnlyStale
  BY DEF SupervisedInv
<1>2. QED
  BY <1>1, SupervisedAlways, PTL

\* A daemon serves behind the mode it was configured with.
THEOREM ConfiguredMode == SerialStarts /\ Spec => []ModeBeforeServing
<1>1. SupervisedInv => ModeBeforeServing
  BY DEF SupervisedInv, ModeSinceChmod, ModeBeforeServing
<1>2. QED
  BY <1>1, SupervisedAlways, PTL

\* A daemon that could not give its socket to the group has said so.
THEOREM GroupFailureSaid == SerialStarts /\ Spec => []GroupFailureIsSaid
<1>1. SupervisedInv => GroupFailureIsSaid
  BY DEF SupervisedInv
<1>2. QED
  BY <1>1, SupervisedAlways, PTL

\* AlreadyActive is said of a daemon that serves: one that is shutting down
\* has unlinked its path before its listener closes, if it may, and nobody else
\* starts.
LEMMA AlreadyActiveStep ==
  ASSUME SupervisedInv, [Next]_vars, NEW d \in Daemon,
         outcome[d] # "AlreadyActive", outcome'[d] = "AlreadyActive"
  PROVE  \E q \in Daemon :
           /\ path = q
           /\ pc[q] = "serving" \/ (pc[q] = "closing" /\ outcome[q] = "Left")
<1> USE DEF SupervisedInv, TypeOK, Starting, Goto, Return, Fail, Fault
<1> DEFINE Served ==
      \E q \in Daemon :
        /\ path = q
        /\ pc[q] = "serving" \/ (pc[q] = "closing" /\ outcome[q] = "Left")
<1>1. CASE UNCHANGED vars
  BY <1>1 DEF vars
<1>2. ASSUME NEW e \in Daemon, Exists(e) PROVE Served
  BY <1>2 DEF Exists
<1>3. ASSUME NEW e \in Daemon, SymlinkMetadata(e) PROVE Served
  BY <1>3 DEF SymlinkMetadata
<1>4. ASSUME NEW e \in Daemon, Connect(e) PROVE Served
  BY <1>4 DEF Connect, Accepts, Listening, OneStart, NothingLeft
<1>5. ASSUME NEW e \in Daemon, RemoveStale(e) PROVE Served
  BY <1>5 DEF RemoveStale
<1>6. ASSUME NEW e \in Daemon, BindInode(e) PROVE Served
  BY <1>6 DEF BindInode
<1>7. ASSUME NEW e \in Daemon, Listen(e) PROVE Served
  BY <1>7 DEF Listen
<1>8. ASSUME NEW e \in Daemon, SetPermissions(e) PROVE Served
  BY <1>8 DEF SetPermissions
<1>9. ASSUME NEW e \in Daemon, RemoveWreckage(e) PROVE Served
  BY <1>9 DEF RemoveWreckage
<1>10. ASSUME NEW e \in Daemon, GiveSocketToGroup(e) PROVE Served
  BY <1>10 DEF GiveSocketToGroup
<1>11. ASSUME NEW e \in Daemon, Drop(e) PROVE Served
  BY <1>11 DEF Drop
<1>12. ASSUME NEW e \in Daemon, CloseListener(e) PROVE Served
  BY <1>12 DEF CloseListener
<1>13. ASSUME NEW e \in Daemon, Crash(e) PROVE Served
  BY <1>13 DEF Crash
<1>14. QED
  BY <1>1, <1>2, <1>3, <1>4, <1>5, <1>6, <1>7, <1>8, <1>9, <1>10, <1>11,
     <1>12, <1>13 DEF Next, BindStep

\* A bind that says AlreadyActive says it of a daemon in its accept loop.
THEOREM AlreadyActiveHolds == SerialStarts /\ Spec => AlreadyActiveIsTrue
<1>1. SupervisedInv /\ [Next]_vars
        => [\A d \in Daemon :
              outcome[d] # "AlreadyActive" /\ outcome'[d] = "AlreadyActive"
                => \E q \in Daemon :
                     /\ path = q
                     /\ pc[q] = "serving" \/ (pc[q] = "closing" /\ outcome[q] = "Left")]_vars
  BY AlreadyActiveStep
<1>2. QED
  BY <1>1, SupervisedAlways, PTL DEF Spec, AlreadyActiveIsTrue

-----------------------------------------------------------------------------
(***************************************************************************)
(* The path implements the lock of PathOwnership.                          *)
(***************************************************************************)

Owner == IF path \in Daemon /\ pc[path] \in Owning THEN path ELSE "free"

Serving == {d \in Daemon : pc[d] = "serving"}

LEMMA OwnershipInitially == Init => Ownership!OwnershipInit
BY DEF Init, Owning, Ownership!OwnershipInit

\* Every system call acquires, serves, releases, or leaves the lock alone.
LEMMA OwnershipStep ==
  ASSUME SupervisedInv, SupervisedInv', [Next]_vars
  PROVE  [Ownership!OwnershipNext]_(Ownership!ownershipVars)
<1> DEFINE Lock == [Ownership!OwnershipNext]_(Ownership!ownershipVars)
<1> USE PathKinds DEF SupervisedInv, TypeOK, OwnersHoldPath, Starting, Owning,
                      Owner, Serving, Goto, Return, Fail, Fault
<1>1. ASSUME Owner' = Owner, Serving' = Serving PROVE Lock
  BY <1>1 DEF Ownership!ownershipVars
<1>2. ASSUME NEW d \in Daemon, Owner = "free", Owner' = d, Serving' = Serving
      PROVE  Lock
  BY <1>2 DEF Ownership!OwnershipNext, Ownership!Acquire
<1>3. ASSUME NEW d \in Daemon, Owner = d, Owner' = Owner,
             Serving' = Serving \cup {d}
      PROVE  Lock
  BY <1>3 DEF Ownership!OwnershipNext, Ownership!Serve
<1>4. ASSUME NEW d \in Daemon, Owner = d, Owner' = "free",
             Serving' = Serving \ {d}
      PROVE  Lock
  BY <1>4 DEF Ownership!OwnershipNext, Ownership!Release
<1>5. CASE UNCHANGED vars
  BY <1>1, <1>5 DEF vars
<1>6. ASSUME NEW e \in Daemon, Exists(e) PROVE Lock
  <2>1. Owner' = Owner /\ Serving' = Serving
    BY <1>6 DEF Exists
  <2>2. QED
    BY <2>1, <1>1
<1>7. ASSUME NEW e \in Daemon, SymlinkMetadata(e) PROVE Lock
  <2>1. Owner' = Owner /\ Serving' = Serving
    BY <1>7 DEF SymlinkMetadata
  <2>2. QED
    BY <2>1, <1>1
<1>8. ASSUME NEW e \in Daemon, Connect(e) PROVE Lock
  <2>1. Owner' = Owner /\ Serving' = Serving
    BY <1>8 DEF Connect
  <2>2. QED
    BY <2>1, <1>1
<1>9. ASSUME NEW e \in Daemon, RemoveStale(e) PROVE Lock
  <2>1. Owner' = Owner /\ Serving' = Serving
    BY <1>9 DEF RemoveStale, ReclaimOnlyStale
  <2>2. QED
    BY <2>1, <1>1
<1>10. ASSUME NEW e \in Daemon, BindInode(e) PROVE Lock
  <2>1. pc[e] = "bind"
    BY <1>10 DEF BindInode
  <2>2. CASE pc' = [pc EXCEPT ![e] = "listen"]
    <3>1. path = "free" /\ path' = e
      BY <1>10, <2>2 DEF BindInode
    <3>2. Owner = "free" /\ Owner' = e
      BY <2>1, <2>2, <3>1
    <3>3. Serving' = Serving
      BY <2>1, <2>2
    <3>4. QED
      BY <3>2, <3>3, <1>2
  <2>3. CASE pc' = [pc EXCEPT ![e] = "down"] /\ path' = path
    <3>1. Owner' = Owner /\ Serving' = Serving
      BY <2>1, <2>3
    <3>2. QED
      BY <3>1, <1>1
  <2>4. QED
    BY <1>10, <2>2, <2>3 DEF BindInode
<1>11. ASSUME NEW e \in Daemon, Listen(e) PROVE Lock
  <2>1. CASE pc' = [pc EXCEPT ![e] = "chmod"]
    <3>1. Owner' = Owner /\ Serving' = Serving
      BY <1>11, <2>1 DEF Listen
    <3>2. QED
      BY <3>1, <1>1
  <2>2. CASE pc' = [pc EXCEPT ![e] = "down"]
    <3>1. Owner = e /\ Owner' = "free" /\ Serving' = Serving \ {e}
      BY <1>11, <2>2 DEF Listen
    <3>2. QED
      BY <3>1, <1>4
  <2>3. QED
    BY <1>11, <2>1, <2>2 DEF Listen
<1>12. ASSUME NEW e \in Daemon, SetPermissions(e) PROVE Lock
  <2>1. Owner' = Owner /\ Serving' = Serving
    BY <1>12 DEF SetPermissions
  <2>2. QED
    BY <2>1, <1>1
<1>13. ASSUME NEW e \in Daemon, RemoveWreckage(e) PROVE Lock
  <2>1. Owner = e /\ Owner' = "free" /\ Serving' = Serving \ {e}
    BY <1>13 DEF RemoveWreckage
  <2>2. QED
    BY <2>1, <1>4
<1>14. ASSUME NEW e \in Daemon, GiveSocketToGroup(e) PROVE Lock
  <2>1. Owner = e /\ Owner' = Owner /\ Serving' = Serving \cup {e}
    BY <1>14 DEF GiveSocketToGroup
  <2>2. QED
    BY <2>1, <1>3
<1>15. ASSUME NEW e \in Daemon, Drop(e) PROVE Lock
  <2>1. Owner = e /\ Owner' = "free" /\ Serving' = Serving \ {e}
    BY <1>15 DEF Drop
  <2>2. QED
    BY <2>1, <1>4
<1>16. ASSUME NEW e \in Daemon, CloseListener(e) PROVE Lock
  <2>1. Owner' = Owner /\ Serving' = Serving
    BY <1>16 DEF CloseListener
  <2>2. QED
    BY <2>1, <1>1
<1>17. ASSUME NEW e \in Daemon, Crash(e) PROVE Lock
  <2>1. CASE pc[e] \in Owning
    <3>1. Owner = e /\ Owner' = "free" /\ Serving' = Serving \ {e}
      BY <1>17, <2>1 DEF Crash
    <3>2. QED
      BY <3>1, <1>4
  <2>2. CASE pc[e] \notin Owning
    <3>1. Owner' = Owner /\ Serving' = Serving
      BY <1>17, <2>2 DEF Crash
    <3>2. QED
      BY <3>1, <1>1
  <2>3. QED
    BY <2>1, <2>2
<1>18. QED
  BY <1>5, <1>6, <1>7, <1>8, <1>9, <1>10, <1>11, <1>12, <1>13, <1>14, <1>15,
     <1>16, <1>17 DEF Next, BindStep

\* uds-policy's promise about the path: it is a lock, held from bind(2) on,
\* and nobody serves without it.
THEOREM PathIsALock == SerialStarts /\ Spec => ImplementsOwnership
<1>1. Init => Ownership!OwnershipInit
  BY OwnershipInitially
<1>2. SupervisedInv /\ SupervisedInv' /\ [Next]_vars
        => [Ownership!OwnershipNext]_(Ownership!ownershipVars)
  BY OwnershipStep
<1>3. QED
  BY <1>1, <1>2, SupervisedAlways, PTL
     DEF Spec, ImplementsOwnership, Ownership!OwnershipSpec

=============================================================================
