--------------------------- MODULE SelfTestProofs ---------------------------
(***************************************************************************)
(* What the self-test's hang is: not a delay but an end, in any process    *)
(* and under any scheduling.  And that its check of the gate asks a fair   *)
(* question, whoever runs it.                                              *)
(***************************************************************************)
EXTENDS SelfTest, TLAPS

\* The client was refused and has given up, and the daemon is in its accept.
Stuck ==
  /\ client = "Err"
  /\ conn = "none"
  /\ main = "serve"
  /\ \A d \in Daemon : pc[d] = "serving"

Exited == main \in {"Ok", "Err"}

LEMMA StuckStays == Stuck /\ [Client \/ Main]_selfTestVars => Stuck'
<1> SUFFICES ASSUME Stuck, [Client \/ Main]_selfTestVars PROVE Stuck'
  OBVIOUS
<1> USE DEF Stuck
<1>1. CASE UNCHANGED selfTestVars
  BY <1>1 DEF selfTestVars, vars
<1>2. CASE Client
  BY <1>2 DEF Client, ClientWaits, ClientConnects, ClientReads
<1>3. ASSUME NEW d \in Daemon, MainBinds(d) PROVE FALSE
  BY <1>3 DEF MainBinds, Exists, BindStep, SymlinkMetadata, Connect, RemoveStale,
              BindInode, Listen, SetPermissions, RemoveWreckage, GiveSocketToGroup
<1>4. ASSUME NEW d \in Daemon, MainServes(d) \/ MainDropsListener(d) \/ MainJoins(d)
      PROVE  FALSE
  BY <1>4 DEF MainServes, MainDropsListener, MainJoins
<1>5. QED
  BY <1>1, <1>2, <1>3, <1>4 DEF Main

LEMMA ExitedStays == Exited /\ [Client \/ Main]_selfTestVars => Exited'
<1> SUFFICES ASSUME Exited, [Client \/ Main]_selfTestVars PROVE Exited'
  OBVIOUS
<1>1. main # "serve" /\ main # "join"
  BY DEF Exited
<1>2. main' = main
  BY <1>1 DEF Client, ClientWaits, ClientConnects, ClientReads, Main, MainBinds,
              MainServes, MainDropsListener, MainJoins, selfTestVars
<1>3. QED
  BY <1>2 DEF Exited

\* A self-test that is ever stuck never exits: no thread, and no fairness, gets
\* it out of there again.
THEOREM StuckForGood == SelfTestSpec => (<>Stuck => ~SelfTestExits)
<1>1. Stuck => ~Exited
  BY DEF Stuck, Exited
<1>2. SelfTestExits <=> <>Exited
  BY DEF SelfTestExits, Exited
<1>3. QED
  BY <1>1, <1>2, StuckStays, ExitedStays, PTL DEF SelfTestSpec

\* The next uid is not this one, and the gate refuses it, at the end of the
\* range too, where it wraps around to root's.
THEOREM StrangerIsRefused ==
  ASSUME UidRange \in Nat, UidRange > 1, OwnUid \in 0 .. UidRange - 1,
         \A n \in Nat : [uid |-> n, gid |-> 0] \notin {Unreadable, InProcess},
         Unreadable # InProcess
  PROVE  GateIsReal
<1> DEFINE next == (OwnUid + 1) % UidRange
           stranger == [uid |-> next, gid |-> 0]
           gate == ForUids({OwnUid})
<1>1. next \in Nat /\ next # OwnUid
  <2>1. CASE OwnUid + 1 < UidRange
    BY <2>1
  <2>2. CASE OwnUid + 1 = UidRange
    BY <2>2
  <2>3. QED
    BY <2>1, <2>2
<1>2. /\ gate.kind = "PeerGate" /\ gate.allowed_uids = {OwnUid}
      /\ gate.allowed_gids = {} /\ gate.reject_unreadable_caller
  BY DEF ForUids, PeerGate
<1>3. ~authorize(gate, Unreadable)
  BY <1>2 DEF authorize, Admits, Listed, uid, gid
<1>4. ~authorize(gate, stranger)
  <2>1. stranger \notin {Unreadable, InProcess}
    BY <1>1
  <2>2. uid(stranger) = {next} /\ gid(stranger) = {0}
    BY <2>1 DEF uid, gid
  <2> HIDE DEF next, stranger, gate
  <2>3. QED
    BY <1>1, <1>2, <2>1, <2>2 DEF authorize, Admits, Listed
<1>5. QED
  BY <1>3, <1>4 DEF GateIsReal

=============================================================================
