----------------------- MODULE SharedDirectoryProofs ------------------------
(***************************************************************************)
(* What is safe in a directory that is not the daemons' alone, for every   *)
(* set of daemons and however often an outsider meddles: what is no socket *)
(* from the starts that come later, and, until two starts race, all but    *)
(* one daemon for each thing the outsider does.                            *)
(***************************************************************************)
EXTENDS SharedDirectory, SocketPathProofs, FiniteSetTheorems

-----------------------------------------------------------------------------
(***************************************************************************)
(* What one system call does to the path, whoever makes it.                *)
(***************************************************************************)

\* The path stays.  A daemon goes on to the probe past the is_socket check, and
\* to the unlink past a refusal; it owns nothing it did not own before.
Stays(d) ==
  /\ path' = path
  /\ pc'[d] = "probe" => path \in Daemon
  /\ pc'[d] = "unlink" => pc[d] = "probe" /\ (path \in Daemon => ~Listening(path))
  /\ pc'[d] \in Owning => pc[d] \in Owning

\* remove_file, in a reclaim, in bind's error arm or in Drop.
Unlinks(d) ==
  /\ pc[d] \in {"unlink", "cleanup", "serving"}
  /\ path' = "free"
  /\ pc'[d] = (IF pc[d] = "unlink" THEN "bind" ELSE "closing")

\* bind(2)
Binds(d) ==
  /\ pc[d] = "bind" /\ pc'[d] = "listen"
  /\ path = "free" /\ path' = d

Moves(d) ==
  /\ \A e \in Daemon \ {d} : pc'[e] = pc[e]
  /\ Stays(d) \/ Unlinks(d) \/ Binds(d)

LEMMA EveryStepMoves ==
  ASSUME TypeOK, Next
  PROVE  \E d \in Daemon : Moves(d)
<1> USE PathKinds DEF TypeOK, Moves, Stays, Starting, Owning, Goto, Return, Fail,
                      Fault, Accepts, Refuses
<1>1. ASSUME NEW d \in Daemon, Exists(d) PROVE Moves(d)
  BY <1>1 DEF Exists
<1>2. ASSUME NEW d \in Daemon, SymlinkMetadata(d) PROVE Moves(d)
  BY <1>2 DEF SymlinkMetadata
<1>3. ASSUME NEW d \in Daemon, Connect(d) PROVE Moves(d)
  BY <1>3 DEF Connect
<1>4. ASSUME NEW d \in Daemon, RemoveStale(d) PROVE Moves(d)
  BY <1>4 DEF RemoveStale, Unlinks
<1>5. ASSUME NEW d \in Daemon, BindInode(d) PROVE Moves(d)
  BY <1>5 DEF BindInode, Binds
<1>6. ASSUME NEW d \in Daemon, Listen(d) PROVE Moves(d)
  BY <1>6 DEF Listen
<1>7. ASSUME NEW d \in Daemon, SetPermissions(d) PROVE Moves(d)
  BY <1>7 DEF SetPermissions
<1>8. ASSUME NEW d \in Daemon, RemoveWreckage(d) PROVE Moves(d)
  BY <1>8 DEF RemoveWreckage, Unlinks
<1>9. ASSUME NEW d \in Daemon, GiveSocketToGroup(d) PROVE Moves(d)
  BY <1>9 DEF GiveSocketToGroup
<1>10. ASSUME NEW d \in Daemon, Drop(d) PROVE Moves(d)
  BY <1>10 DEF Drop, Unlinks
<1>11. ASSUME NEW d \in Daemon, CloseListener(d) PROVE Moves(d)
  BY <1>11 DEF CloseListener
<1>12. ASSUME NEW d \in Daemon, Crash(d) PROVE Moves(d)
  BY <1>12 DEF Crash
<1>13. QED
  BY <1>1, <1>2, <1>3, <1>4, <1>5, <1>6, <1>7, <1>8, <1>9, <1>10, <1>11,
     <1>12 DEF Next, BindStep

LEMMA SharedTypeInitially == SharedInit => SharedTypeOK
<1> SUFFICES ASSUME SharedInit PROVE SharedTypeOK
  OBVIOUS
<1>1. TypeOK /\ meddles \in 0 .. MaxMeddles /\ unaware \subseteq Daemon
  BY TypeInitially, SharedDirectoryAssumption
     DEF SharedInit, SharedDirectoryAssumption
<1>2. raced \in BOOLEAN
  BY Zenon DEF SharedInit
<1>3. QED
  BY <1>1, <1>2 DEF SharedTypeOK

LEMMA SharedTypeStep ==
  ASSUME SharedTypeOK, [SharedNext]_sharedVars
  PROVE  SharedTypeOK'
<1> USE DEF SharedTypeOK
<1>1. CASE UNCHANGED sharedVars
  <2>1. [Next]_vars
    BY <1>1 DEF sharedVars
  <2>2. QED
    BY <1>1, <2>1, TypeStep DEF sharedVars
<1>2. CASE DaemonStep
  <2>1. TypeOK'
    BY <1>2, TypeStep DEF DaemonStep
  <2>2. QED
    BY <1>2, <2>1 DEF DaemonStep
<1>3. CASE Meddle
  <2>1. path' \in Foreign \cup {"free"}
    BY <1>3 DEF Meddle, Replace, Remove
  <2>2. TypeOK'
    BY <1>3, <2>1 DEF Meddle, TypeOK
  <2>3. unaware' \subseteq Daemon
    BY <1>3 DEF Meddle, Replace, Remove
  <2>4. meddles' \in 0 .. MaxMeddles /\ raced' = raced
    BY <1>3, SharedDirectoryAssumption DEF Meddle, SharedDirectoryAssumption
  <2>5. QED
    BY <2>2, <2>3, <2>4
<1>4. QED
  BY <1>1, <1>2, <1>3 DEF SharedNext

\* The variables of the path and of its outsider keep their types.
THEOREM SharedTypes == SharedSpec => []SharedTypeOK
<1>1. SharedInit => SharedTypeOK
  BY SharedTypeInitially
<1>2. SharedTypeOK /\ [SharedNext]_sharedVars => SharedTypeOK'
  BY SharedTypeStep
<1>3. QED
  BY <1>1, <1>2, PTL DEF SharedSpec

-----------------------------------------------------------------------------
(***************************************************************************)
(* What is no socket.                                                      *)
(***************************************************************************)

\* Whoever is committed while the path is no socket was so before it was put
\* there: the is_socket check and bind(2) let nobody through since.
CommittedAreUnaware ==
  path \in Foreign => \A d \in Daemon : pc[d] \in Committed => d \in unaware

LEMMA CommittedInitially == SharedInit => CommittedAreUnaware
BY DEF SharedInit, Init, CommittedAreUnaware, Committed, Owning

LEMMA CommittedStep ==
  ASSUME SharedTypeOK, CommittedAreUnaware, [SharedNext]_sharedVars
  PROVE  CommittedAreUnaware'
<1> USE PathKinds DEF SharedTypeOK, CommittedAreUnaware, Committed, Owning
<1>1. CASE UNCHANGED sharedVars
  BY <1>1 DEF sharedVars, vars
<1>2. CASE DaemonStep
  <2> SUFFICES ASSUME path' \in Foreign, NEW d \in Daemon, pc'[d] \in Committed
               PROVE  d \in unaware'
    OBVIOUS
  <2>1. PICK e \in Daemon : Moves(e)
    BY <1>2, EveryStepMoves DEF DaemonStep
  <2>2. Stays(e)
    BY <2>1 DEF Moves, Unlinks, Binds
  <2>3. pc[d] \in Committed
    BY <2>1, <2>2 DEF Moves, Stays
  <2>4. d \in unaware
    BY <2>2, <2>3 DEF Stays
  <2>5. QED
    BY <1>2, <2>4 DEF DaemonStep
<1>3. CASE Meddle
  BY <1>3 DEF Meddle, Replace, Remove
<1>4. QED
  BY <1>1, <1>2, <1>3 DEF SharedNext

\* Files and links that are no sockets are safe from every daemon that looks at
\* the path, or binds it, after they were put there: whoever starts when.
THEOREM ForeignIsSafeFromLaterStarts == SharedSpec => LaterStartsLeaveForeign
<1> DEFINE Inv == SharedTypeOK /\ CommittedAreUnaware
<1>1. SharedInit => Inv
  BY SharedTypeInitially, CommittedInitially
<1>2. Inv /\ [SharedNext]_sharedVars => Inv'
  BY SharedTypeStep, CommittedStep
<1>3. Inv /\ [SharedNext]_sharedVars
        => [\A d \in Daemon :
              path \in Foreign /\ path' # path /\ pc'[d] # pc[d] => d \in unaware]_sharedVars
  <2> SUFFICES ASSUME Inv, SharedNext, NEW d \in Daemon,
                      path \in Foreign, path' # path, pc'[d] # pc[d]
               PROVE  d \in unaware
    OBVIOUS
  <2>1. DaemonStep
    BY DEF SharedNext, Meddle
  <2>2. PICK e \in Daemon : Moves(e)
    BY <2>1, EveryStepMoves DEF DaemonStep, SharedTypeOK
  <2>3. d = e /\ Unlinks(e)
    BY <2>2, PathKinds DEF Moves, Stays, Binds
  <2>4. pc[d] \in Committed
    BY <2>3 DEF Unlinks, Committed, Owning
  <2>5. QED
    BY <2>4 DEF CommittedAreUnaware
<1>4. QED
  BY <1>1, <1>2, <1>3, PTL DEF SharedSpec, LaterStartsLeaveForeign

-----------------------------------------------------------------------------
(***************************************************************************)
(* What SocketPath promises of starts at will.                             *)
(***************************************************************************)

OwnInodeInv == SharedTypeOK /\ NothingLeft /\ ConfiguredSoFar

LEMMA OwnInodeStep ==
  ASSUME OwnInodeInv, [SharedNext]_sharedVars
  PROVE  OwnInodeInv'
<1>1. SharedTypeOK'
  BY SharedTypeStep DEF OwnInodeInv
<1>2. CASE DaemonStep \/ UNCHANGED sharedVars
  <2>1. TypeOK /\ [Next]_vars
    BY <1>2 DEF OwnInodeInv, SharedTypeOK, DaemonStep, sharedVars
  <2>2. NothingLeft' /\ ConfiguredSoFar'
    BY <2>1, NothingLeftStep, ConfiguredStep DEF OwnInodeInv
  <2>3. QED
    BY <1>1, <2>2 DEF OwnInodeInv
<1>3. CASE Meddle
  <2>1. path' \notin Daemon
    BY <1>3, PathKinds DEF Meddle, Replace, Remove
  <2>2. NothingLeft' /\ ConfiguredSoFar'
    BY <2>1 DEF NothingLeft, NoWreckage, ConfiguredSoFar, ReachableIsConfigured
  <2>3. QED
    BY <1>1, <2>2 DEF OwnInodeInv
<1>4. QED
  BY <1>2, <1>3 DEF SharedNext

\* An outsider cannot bring back an inode that was moved away, so whatever it does,
\* no daemon that ended in order has its inode at the path, and none that clients
\* reach is reached through another mode or group than it configured or reported.
THEOREM OwnInodeInSharedDirectory ==
  SharedSpec => [](NoWreckage /\ ReachableIsConfigured)
<1>1. SharedInit => OwnInodeInv
  BY SharedTypeInitially, NothingLeftInitially
     DEF SharedInit, Init, OwnInodeInv, ConfiguredSoFar, ReachableIsConfigured
<1>2. OwnInodeInv /\ [SharedNext]_sharedVars => OwnInodeInv'
  BY OwnInodeStep
<1>3. OwnInodeInv => NoWreckage /\ ReachableIsConfigured
  BY DEF OwnInodeInv, NothingLeft, ConfiguredSoFar
<1>4. QED
  BY <1>1, <1>2, <1>3, PTL DEF SharedSpec

-----------------------------------------------------------------------------
(***************************************************************************)
(* The daemons the path does not lead to.                                  *)
(***************************************************************************)

\* Few are stranded: the number in StrandingIsBounded is one, because the set is
\* finite.
FewStranded ==
  /\ IsFiniteSet(Stranded)
  /\ Cardinality(Stranded) <= meddles

\* No more than before, or one more after an outsider's step, or one in the place
\* of the one that handed its loss on.
LEMMA FewerStranded ==
  ASSUME FewStranded, meddles \in Nat, meddles' = meddles,
         Stranded' \subseteq Stranded
  PROVE  FewStranded'
<1>1. IsFiniteSet(Stranded') /\ Cardinality(Stranded') <= Cardinality(Stranded)
  BY FS_Subset DEF FewStranded
<1>2. Cardinality(Stranded) \in Nat /\ Cardinality(Stranded') \in Nat
  BY <1>1, FS_CardinalityType DEF FewStranded
<1>3. QED
  BY <1>1, <1>2 DEF FewStranded

LEMMA OneMoreStranded ==
  ASSUME FewStranded, meddles \in Nat, meddles' = meddles + 1, NEW x,
         Stranded' \subseteq Stranded \cup {x}
  PROVE  FewStranded'
<1> DEFINE More == Stranded \cup {x}
<1>1. Cardinality(Stranded) \in Nat
  BY FS_CardinalityType DEF FewStranded
<1>2. IsFiniteSet(More) /\ Cardinality(More) <= Cardinality(Stranded) + 1
  BY <1>1, FS_AddElement DEF FewStranded
<1>3. IsFiniteSet(Stranded') /\ Cardinality(Stranded') <= Cardinality(More)
  BY <1>2, FS_Subset
<1>4. Cardinality(More) \in Nat /\ Cardinality(Stranded') \in Nat
  BY <1>2, <1>3, FS_CardinalityType
<1>5. QED
  BY <1>1, <1>2, <1>3, <1>4 DEF FewStranded

LEMMA OneForAnother ==
  ASSUME FewStranded, meddles \in Nat, meddles' = meddles, NEW x,
         NEW d \in Stranded, Stranded' \subseteq (Stranded \ {d}) \cup {x}
  PROVE  FewStranded'
<1> DEFINE Rest == Stranded \ {d}
<1>1. Cardinality(Stranded) \in Nat
  BY FS_CardinalityType DEF FewStranded
<1>2. IsFiniteSet(Rest) /\ Cardinality(Rest) = Cardinality(Stranded) - 1
  BY FS_RemoveElement DEF FewStranded
<1>3. Cardinality(Rest) \in Nat
  BY <1>2, FS_CardinalityType
<1>4. /\ IsFiniteSet(Rest \cup {x})
      /\ Cardinality(Rest \cup {x}) \in {Cardinality(Rest), Cardinality(Rest) + 1}
  <2> HIDE DEF Rest
  <2>1. QED
    BY <1>2, FS_AddElement, Zenon
<1>5. IsFiniteSet(Stranded') /\ Cardinality(Stranded') <= Cardinality(Rest \cup {x})
  BY <1>4, FS_Subset
<1>6. Cardinality(Stranded') \in Nat
  BY <1>5, FS_CardinalityType
<1>7. QED
  BY <1>1, <1>2, <1>3, <1>4, <1>5, <1>6 DEF FewStranded

LEMMA FewStrandedStep ==
  ASSUME SharedTypeOK, FewStranded, [SharedNext]_sharedVars, ~raced'
  PROVE  FewStranded'
<1> USE PathKinds DEF SharedTypeOK, Stranded
<1>1. meddles \in Nat
  OBVIOUS
<1>2. CASE UNCHANGED sharedVars
  BY <1>1, <1>2, FewerStranded DEF sharedVars, vars
<1>3. CASE DaemonStep
  <2>1. PICK e \in Daemon : Moves(e)
    BY <1>3, EveryStepMoves DEF DaemonStep
  <2>2. meddles' = meddles
    BY <1>3 DEF DaemonStep
  <2>3. CASE Stays(e)
    <3>1. Stranded' \subseteq Stranded
      BY <2>1, <2>3 DEF Moves, Stays
    <3>2. QED
      BY <1>1, <2>2, <3>1, FewerStranded
  <2>4. CASE Binds(e)
    <3>1. Stranded' \subseteq Stranded
      BY <2>1, <2>4 DEF Moves, Binds
    <3>2. QED
      BY <1>1, <2>2, <3>1, FewerStranded
  <2>5. CASE Unlinks(e) /\ pc[e] = "unlink"
    <3>1. path \in Daemon => pc[path] \notin Owning
      BY <1>3, <2>5 DEF DaemonStep, TakesOver, Unlinks
    <3>2. Stranded' \subseteq Stranded
      BY <2>1, <2>5, <3>1 DEF Moves, Unlinks, Owning
    <3>3. QED
      BY <1>1, <2>2, <3>2, FewerStranded
  <2>6. CASE Unlinks(e) /\ path = e
    <3>1. Stranded' \subseteq Stranded
      BY <2>1, <2>6 DEF Moves, Unlinks, Owning
    <3>2. QED
      BY <1>1, <2>2, <3>1, FewerStranded
  <2>7. CASE Unlinks(e) /\ pc[e] # "unlink" /\ path # e
    <3>1. e \in Stranded
      BY <2>7 DEF Unlinks, Owning
    <3>2. Stranded' \subseteq (Stranded \ {e}) \cup {path}
      BY <2>1, <2>7 DEF Moves, Unlinks, Owning
    <3>3. QED
      BY <1>1, <2>2, <3>1, <3>2, OneForAnother
  <2>8. QED
    BY <2>1, <2>3, <2>4, <2>5, <2>6, <2>7 DEF Moves
<1>4. CASE Meddle
  <2>1. Stranded' \subseteq Stranded \cup {path} /\ meddles' = meddles + 1
    BY <1>4 DEF Meddle
  <2>2. QED
    BY <1>1, <2>1, OneMoreStranded
<1>5. QED
  BY <1>2, <1>3, <1>4 DEF SharedNext

StrandingInv == SharedTypeOK /\ (~raced => FewStranded)

LEMMA StrandingInitially == SharedInit => StrandingInv
<1> SUFFICES ASSUME SharedInit PROVE StrandingInv
  OBVIOUS
<1>1. Stranded = {} /\ meddles = 0
  BY DEF SharedInit, Init, Stranded, Owning
<1>2. FewStranded
  BY <1>1, FS_EmptySet DEF FewStranded
<1>3. QED
  BY <1>2, SharedTypeInitially DEF StrandingInv

LEMMA StrandingStep ==
  ASSUME StrandingInv, [SharedNext]_sharedVars
  PROVE  StrandingInv'
<1>1. SharedTypeOK'
  BY SharedTypeStep DEF StrandingInv
<1>2. ASSUME ~raced' PROVE FewStranded'
  <2>1. ~raced
    BY <1>2 DEF SharedNext, DaemonStep, Meddle, sharedVars
  <2>2. QED
    BY <1>2, <2>1, FewStrandedStep DEF StrandingInv
<1>3. QED
  BY <1>1, <1>2 DEF StrandingInv

\* An outsider's every act costs at most one daemon its clients, for as long as the
\* daemons go on starting and shutting down and no two starts race.
THEOREM StrandingBounded == SharedSpec => []StrandingIsBounded
<1>1. StrandingInv /\ [SharedNext]_sharedVars => StrandingInv'
  BY StrandingStep
<1>2. StrandingInv => StrandingIsBounded
  BY DEF StrandingInv, FewStranded, StrandingIsBounded
<1>3. QED
  BY <1>1, <1>2, StrandingInitially, PTL DEF SharedSpec

-----------------------------------------------------------------------------
(***************************************************************************)
(* One start at a time.                                                    *)
(***************************************************************************)

\* ReclaimOnlyStale, as much of it as an outsider leaves: a reclaim about to
\* unlink takes the path from no daemon that owns it.
UnlinksNoOwner ==
  \A d \in Daemon : pc[d] = "unlink" /\ path \in Daemon => pc[path] \notin Owning

LEMMA UnlinksNoOwnerStep ==
  ASSUME SharedTypeOK, OneStart, UnlinksNoOwner, [SharedNext]_sharedVars
  PROVE  UnlinksNoOwner'
<1> USE PathKinds DEF SharedTypeOK, UnlinksNoOwner, OneStart, Owning, Starting
<1>1. CASE UNCHANGED sharedVars
  BY <1>1 DEF sharedVars, vars
<1>2. CASE DaemonStep
  <2> SUFFICES ASSUME NEW d \in Daemon, pc'[d] = "unlink", path' \in Daemon,
                      pc'[path'] \in Owning
               PROVE  FALSE
    OBVIOUS
  <2>1. PICK e \in Daemon : Moves(e)
    BY <1>2, EveryStepMoves DEF DaemonStep
  <2>2. CASE Binds(e)
    BY <2>1, <2>2 DEF Moves, Binds
  <2>3. CASE Stays(e) /\ d # e
    BY <2>1, <2>3 DEF Moves, Stays
  <2>4. CASE Stays(e) /\ d = e
    <3>1. path # e /\ pc[path] = pc'[path] /\ ~Listening(path)
      BY <2>1, <2>4 DEF Moves, Stays
    <3>2. pc[path] = "listen" /\ pc[e] = "probe"
      BY <2>4, <3>1 DEF Stays, Listening
    <3>3. QED
      BY <2>4, <3>1, <3>2 DEF Stays
  <2>5. QED
    BY <2>1, <2>2, <2>3, <2>4 DEF Moves, Unlinks
<1>3. CASE Meddle
  BY <1>3 DEF Meddle, Replace, Remove
<1>4. QED
  BY <1>1, <1>2, <1>3 DEF SharedNext

NoRaceInv == SharedTypeOK /\ OneStart /\ UnlinksNoOwner /\ ~raced

LEMMA NoRaceStep ==
  ASSUME SerialStarts, NoRaceInv, [SharedNext]_sharedVars
  PROVE  NoRaceInv'
<1> USE DEF NoRaceInv
<1>1. SharedTypeOK' /\ UnlinksNoOwner'
  BY SharedTypeStep, UnlinksNoOwnerStep
<1>2. CASE DaemonStep
  <2>1. OneStart'
    BY <1>2, OneStartStep DEF DaemonStep, SharedTypeOK
  <2>2. ~raced'
    BY <1>2 DEF DaemonStep, TakesOver, UnlinksNoOwner
  <2>3. QED
    BY <1>1, <2>1, <2>2
<1>3. CASE Meddle \/ UNCHANGED sharedVars
  BY <1>1, <1>3 DEF Meddle, sharedVars, vars, OneStart
<1>4. QED
  BY <1>2, <1>3 DEF SharedNext

\* Where a supervisor starts one daemon at a time no two starts race, so the
\* outsider's acts alone bound the daemons that lose their clients.
THEOREM StrandingBoundedOneByOne ==
  SerialStarts /\ SharedSpec => [](Cardinality(Stranded) <= meddles)
<1>1. SharedInit => NoRaceInv
  BY SharedTypeInitially
     DEF SharedInit, Init, NoRaceInv, OneStart, UnlinksNoOwner, Starting
<1>2. SerialStarts /\ NoRaceInv /\ [SharedNext]_sharedVars => NoRaceInv'
  BY NoRaceStep
<1>3. NoRaceInv /\ StrandingIsBounded => Cardinality(Stranded) <= meddles
  BY DEF NoRaceInv, StrandingIsBounded
<1>4. CASE SerialStarts
  <2>1. NoRaceInv /\ [SharedNext]_sharedVars => NoRaceInv'
    BY <1>2, <1>4
  <2>2. QED
    BY <1>1, <1>3, <2>1, StrandingBounded, PTL DEF SharedSpec
<1>5. QED
  BY <1>4

=============================================================================
