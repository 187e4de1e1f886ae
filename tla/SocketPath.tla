----------------------------- MODULE SocketPath -----------------------------
(***************************************************************************)
(* Who owns the socket path: Socket::bind, reclaim_stale_socket,           *)
(* give_socket_to_group and Drop of src/src/socket.rs, one action per      *)
(* system call, run by several daemons against one path.  The code holds   *)
(* no lock across these calls and names the inode only by its path, so     *)
(* every call acts on whatever the path names when it runs.                *)
(*                                                                         *)
(* A socket inode is identified by the daemon that bound it: a daemon has  *)
(* at most one listener, and its previous inode has no listener once the   *)
(* daemon is down.                                                         *)
(***************************************************************************)
EXTENDS Naturals, FiniteSets

CONSTANTS
  Daemon,        \* the daemons that call Socket::bind with this path
  SerialStarts,  \* TRUE when a supervisor runs one Socket::bind at a time
  GroupAsked,    \* TRUE when SocketConfig::socket_group is Some
  MaxCrashes,    \* bound on the kills of a daemon
  MaxFaults      \* bound on system calls that fail for an outside reason

\* What else can be at the path: a file that is not a socket (for the is_socket
\* check a symbolic link to something that exists is the same), or a dangling
\* symbolic link.
Foreign == {"file", "dangling"}

ASSUME SocketPathAssumption ==
  /\ Daemon \cap (Foreign \cup {"free"}) = {}
  /\ SerialStarts \in BOOLEAN
  /\ GroupAsked \in BOOLEAN
  /\ MaxCrashes \in Nat
  /\ MaxFaults \in Nat

VARIABLES
  pc,       \* pc[d]: the next system call of daemon d
  path,     \* what the path names: "free", a Foreign, or the inode of a daemon
  mode,     \* mode[d]: the file mode of the inode d bound
  group,    \* group[d]: the group of the inode d bound
  warned,   \* warned[d]: give_socket_to_group wrote a line to d's stderr
  outcome,  \* outcome[d]: what d's latest Socket::bind returned, with the Io of a
            \* failed set_permissions told from the others; "Left" once an unlink
            \* whose result the code ignores was refused
  crashes, faults

vars == <<pc, path, mode, group, warned, outcome, crashes, faults>>

Starting == {"lstat", "probe", "unlink", "bind", "listen", "chmod",
             "cleanup", "chown"}

\* From bind(2) until the call that unlinks the path again.
Owning == {"listen", "chmod", "cleanup", "chown", "serving"}

\* From listen(2) until the listener is closed.
Listening(d) == pc[d] \in {"chmod", "cleanup", "chown", "serving", "closing"}

\* What connect(2) finds at the path: a listener, an inode nobody listens on
\* (a file that is not a socket is refused alike), or nothing.  It follows
\* links, as chmod(2) does.
Accepts == path \in Daemon /\ Listening(path)
Refuses == path \in Daemon \cup {"file"} /\ ~Accepts
NamesNothing == path \in {"free", "dangling"}

TypeOK ==
  /\ pc \in [Daemon -> Starting \cup {"down", "serving", "closing"}]
  /\ path \in Daemon \cup Foreign \cup {"free"}
  /\ mode \in [Daemon -> {"umask", "config"}]
  /\ group \in [Daemon -> {"own", "given"}]
  /\ warned \in [Daemon -> BOOLEAN]
  /\ outcome \in [Daemon -> {"none", "Ok", "AlreadyActive", "NotASocket",
                             "Unverifiable", "Io", "IoChmod", "Left"}]
  /\ crashes \in Nat
  /\ faults \in Nat

\* Nobody runs yet; the path is free, someone else's, or a stale inode.
Init ==
  /\ pc = [d \in Daemon |-> "down"]
  /\ path \in Daemon \cup Foreign \cup {"free"}
  /\ mode = [d \in Daemon |-> "umask"]
  /\ group = [d \in Daemon |-> "own"]
  /\ warned = [d \in Daemon |-> FALSE]
  /\ outcome = [d \in Daemon |-> "none"]
  /\ crashes = 0
  /\ faults = 0

-----------------------------------------------------------------------------

Goto(d, label) == pc' = [pc EXCEPT ![d] = label]

Return(d, result) == outcome' = [outcome EXCEPT ![d] = result]

\* Socket::bind returns an error and d's process ends.
Fail(d, error) ==
  /\ Goto(d, "down")
  /\ Return(d, error)
  /\ UNCHANGED path

\* A system call fails for a reason outside the model.
Fault ==
  /\ faults < MaxFaults
  /\ faults' = faults + 1

MayStart(d) ==
  SerialStarts => \A e \in Daemon \ {d} : pc[e] \notin Starting

-----------------------------------------------------------------------------
(***************************************************************************)
(* Mistakes the properties must notice, each the mutant of one action.     *)
(***************************************************************************)

\* The is_socket check is missing.
SymlinkMetadataUnchecked(d) ==
  /\ pc[d] = "lstat"
  /\ \/ path = "free" /\ Fail(d, "Io")
     \/ path # "free" /\ Goto(d, "probe") /\ UNCHANGED <<path, outcome>>
  /\ UNCHANGED <<mode, group, warned, crashes, faults>>

\* Whatever the probe says, the inode is taken to be stale.
ConnectTakesAll(d) ==
  /\ pc[d] = "probe"
  /\ Goto(d, "unlink")
  /\ UNCHANGED <<path, mode, group, warned, outcome, crashes, faults>>

\* A probe that could not be completed reclaims too.
ConnectTakesUnverifiable(d) ==
  /\ pc[d] = "probe"
  /\ \/ Accepts /\ Fail(d, "AlreadyActive") /\ UNCHANGED faults
     \/ Refuses /\ Goto(d, "unlink") /\ UNCHANGED <<path, outcome, faults>>
     \/ NamesNothing /\ Goto(d, "bind") /\ UNCHANGED <<path, outcome, faults>>
     \/ Fault /\ Goto(d, "unlink") /\ UNCHANGED <<path, outcome>>
  /\ UNCHANGED <<mode, group, warned, crashes>>

\* A refused connection is reported and not reclaimed.
ConnectNeverReclaims(d) ==
  /\ pc[d] = "probe"
  /\ IF NamesNothing
       THEN Goto(d, "bind") /\ UNCHANGED <<path, outcome>>
       ELSE Fail(d, "AlreadyActive")
  /\ UNCHANGED <<mode, group, warned, crashes, faults>>

\* The result of set_permissions is not looked at.
SetPermissionsUnchecked(d) ==
  /\ pc[d] = "chmod"
  /\ Goto(d, "chown")
  /\ \/ path \in Daemon /\ mode' = [mode EXCEPT ![path] = "config"] /\ UNCHANGED faults
     \/ NamesNothing /\ UNCHANGED <<mode, faults>>
     \/ Fault /\ UNCHANGED mode
  /\ UNCHANGED <<path, group, warned, outcome, crashes>>

\* bind's error arm returns without the unlink.
RemoveWreckageNot(d) ==
  /\ pc[d] = "cleanup"
  /\ Goto(d, "closing")
  /\ Return(d, "IoChmod")
  /\ UNCHANGED <<path, mode, group, warned, crashes, faults>>

\* An absent group is swallowed.
GiveSocketToGroupSilently(d) ==
  /\ pc[d] = "chown"
  /\ Goto(d, "serving")
  /\ Return(d, "Ok")
  /\ UNCHANGED <<path, mode, group, warned, crashes, faults>>

\* There is no Drop: the listener is closed and the path stays.
DropNot(d) ==
  /\ pc[d] = "serving"
  /\ Goto(d, "closing")
  /\ UNCHANGED <<path, mode, group, warned, outcome, crashes, faults>>

\* A closed listener leaves its daemon in no state to be started from.
CloseListenerForGood(d) ==
  /\ pc[d] = "closing"
  /\ Goto(d, "closed")
  /\ UNCHANGED <<path, mode, group, warned, outcome, crashes, faults>>

\* The unlink comes, again, when the listener is closed.
CloseListenerUnlinks(d) ==
  /\ pc[d] = "closing"
  /\ path' = "free"
  /\ Goto(d, "down")
  /\ UNCHANGED <<mode, group, warned, outcome, crashes, faults>>

-----------------------------------------------------------------------------

\* socket_path.exists(), which follows links, and says no when it cannot tell.
Exists(d) ==
  /\ pc[d] = "down"
  /\ MayStart(d)
  /\ \/ Goto(d, IF NamesNothing THEN "bind" ELSE "lstat") /\ UNCHANGED faults
     \/ Fault /\ Goto(d, "bind")
  /\ Return(d, "none")
  /\ warned' = [warned EXCEPT ![d] = FALSE]
  /\ UNCHANGED <<path, mode, group, crashes>>

\* reclaim_stale_socket: symlink_metadata and the is_socket check.
SymlinkMetadata(d) ==
  /\ pc[d] = "lstat"
  /\ \/ path = "free" /\ Fail(d, "Io") /\ UNCHANGED faults
     \/ path \in Foreign /\ Fail(d, "NotASocket") /\ UNCHANGED faults
     \/ path \in Daemon /\ Goto(d, "probe") /\ UNCHANGED <<path, outcome, faults>>
     \/ Fault /\ Fail(d, "Io")
  /\ UNCHANGED <<mode, group, warned, crashes>>

\* reclaim_stale_socket: the probe.
Connect(d) ==
  /\ pc[d] = "probe"
  /\ \/ Accepts /\ Fail(d, "AlreadyActive") /\ UNCHANGED faults
     \/ Refuses /\ Goto(d, "unlink") /\ UNCHANGED <<path, outcome, faults>>
     \/ NamesNothing /\ Goto(d, "bind") /\ UNCHANGED <<path, outcome, faults>>
     \/ Fault /\ Fail(d, "Unverifiable")
  /\ UNCHANGED <<mode, group, warned, crashes>>

\* reclaim_stale_socket: remove_file of whatever the path names by now.
RemoveStale(d) ==
  /\ pc[d] = "unlink"
  /\ \/ path = "free" /\ Fail(d, "Io") /\ UNCHANGED faults
     \/ /\ path # "free"
        /\ path' = "free"
        /\ Goto(d, "bind")
        /\ UNCHANGED <<outcome, faults>>
     \/ Fault /\ Fail(d, "Io")
  /\ UNCHANGED <<mode, group, warned, crashes>>

\* UnixListener::bind, first half: bind(2) makes the inode, with the mode and
\* the group a new inode gets, or finds the address in use, or is refused.
BindInode(d) ==
  /\ pc[d] = "bind"
  /\ \/ /\ path = "free"
        /\ path' = d
        /\ Goto(d, "listen")
        /\ mode' = [mode EXCEPT ![d] = "umask"]
        /\ group' = [group EXCEPT ![d] = "own"]
        /\ UNCHANGED <<outcome, faults>>
     \/ path # "free" /\ Fail(d, "Io") /\ UNCHANGED <<mode, group, faults>>
     \/ Fault /\ Fail(d, "Io") /\ UNCHANGED <<mode, group>>
  /\ UNCHANGED <<warned, crashes>>

\* UnixListener::bind, second half: listen(2), whose failure leaves the inode.
Listen(d) ==
  /\ pc[d] = "listen"
  /\ \/ Goto(d, "chmod") /\ UNCHANGED <<path, outcome, faults>>
     \/ Fault /\ Fail(d, "Io")
  /\ UNCHANGED <<mode, group, warned, crashes>>

\* set_permissions acts on the path, not on the listener: on a file that has
\* taken the inode's place as well.
SetPermissions(d) ==
  /\ pc[d] = "chmod"
  /\ \/ /\ ~NamesNothing
        /\ mode' = [e \in Daemon |-> IF path = e THEN "config" ELSE mode[e]]
        /\ Goto(d, "chown")
        /\ UNCHANGED faults
     \/ /\ \/ NamesNothing /\ UNCHANGED faults
           \/ Fault
        /\ Goto(d, "cleanup")
        /\ UNCHANGED mode
  /\ UNCHANGED <<path, group, warned, outcome, crashes>>

\* bind's error arm after a failed set_permissions: unlink the path, ignore
\* the result, and return, which drops the listener.
RemoveWreckage(d) ==
  /\ pc[d] = "cleanup"
  /\ \/ path' = "free" /\ Return(d, "IoChmod") /\ UNCHANGED faults
     \/ Fault /\ Return(d, "Left") /\ UNCHANGED path
  /\ Goto(d, "closing")
  /\ UNCHANGED <<mode, group, warned, crashes>>

\* give_socket_to_group: none of its outcomes keeps bind from returning Ok.
GiveSocketToGroup(d) ==
  /\ pc[d] = "chown"
  /\ Goto(d, "serving")
  /\ Return(d, "Ok")
  /\ \/ /\ ~GroupAsked
        /\ UNCHANGED <<group, warned>>
     \/ /\ GroupAsked  \* the group resolves and chown succeeds
        /\ ~NamesNothing
        /\ group' = [e \in Daemon |-> IF path = e THEN "given" ELSE group[e]]
        /\ UNCHANGED warned
     \/ /\ GroupAsked  \* no such group, no answer about it, or chown fails
        /\ warned' = [warned EXCEPT ![d] = TRUE]
        /\ UNCHANGED group
  /\ UNCHANGED <<path, mode, crashes, faults>>

\* Drop for Socket: unlink the path, ignore the result.
Drop(d) ==
  /\ pc[d] = "serving"
  /\ \/ path' = "free" /\ UNCHANGED <<outcome, faults>>
     \/ Fault /\ Return(d, "Left") /\ UNCHANGED path
  /\ Goto(d, "closing")
  /\ UNCHANGED <<mode, group, warned, crashes>>

\* The listener field is dropped after Drop has run.
CloseListener(d) ==
  /\ pc[d] = "closing"
  /\ Goto(d, "down")
  /\ UNCHANGED <<path, mode, group, warned, outcome, crashes, faults>>

\* SIGKILL, SIGABRT from the watchdog, a panic that aborts: the listener is
\* closed by the kernel and the inode stays.
Crash(d) ==
  /\ pc[d] # "down"
  /\ crashes < MaxCrashes
  /\ crashes' = crashes + 1
  /\ Goto(d, "down")
  /\ Return(d, "none")
  /\ UNCHANGED <<path, mode, group, warned, faults>>

BindStep(d) ==
  \/ SymlinkMetadata(d)
  \/ Connect(d)
  \/ RemoveStale(d)
  \/ BindInode(d)
  \/ Listen(d)
  \/ SetPermissions(d)
  \/ RemoveWreckage(d)
  \/ GiveSocketToGroup(d)

Next ==
  \E d \in Daemon :
    Exists(d) \/ BindStep(d) \/ Drop(d) \/ CloseListener(d) \/ Crash(d)

Spec == Init /\ [][Next]_vars

\* A started bind runs to its end, a shutdown is finished, and a supervisor
\* keeps starting daemons.  Shutdowns, crashes and faults are never owed.
Fairness ==
  /\ \A d \in Daemon : WF_vars(BindStep(d)) /\ WF_vars(CloseListener(d))
  /\ WF_vars(\E d \in Daemon : Exists(d))

FairSpec == Spec /\ Fairness

-----------------------------------------------------------------------------
(***************************************************************************)
(* Safety of a supervised path: these need SerialStarts, as the runs with  *)
(* concurrent starts show.                                                 *)
(***************************************************************************)

\* A daemon in its accept loop is the one a client reaches through the path:
\* no other daemon's start has reclaimed its live socket.
ServingIsReachable == \A d \in Daemon : pc[d] = "serving" => path = d

\* Between the refused probe and remove_file nothing changes what the path
\* names: what is about to be removed is still an inode nobody owns.
ReclaimOnlyStale ==
  \A d \in Daemon :
    pc[d] = "unlink" => path \in Daemon /\ pc[path] \notin Owning

\* A daemon serves only behind the configured mode, never behind the umask's,
\* although set_permissions names the path and not the listener.
ModeBeforeServing == \A d \in Daemon : pc[d] = "serving" => mode[d] = "config"

\* None of give_socket_to_group's outcomes is silent: a daemon that asked for
\* a group and serves on a socket without it has said so.
GroupFailureIsSaid ==
  \A d \in Daemon :
    pc[d] = "serving" /\ GroupAsked /\ group[d] = "own" => warned[d]

\* AlreadyActive is an answer about a daemon that is serving, never about one
\* that is on its way out or has failed its start; unless that one was refused
\* the unlink, and still listens behind the inode it could not remove.
AlreadyActiveIsTrue ==
  [][\A d \in Daemon :
       outcome[d] # "AlreadyActive" /\ outcome'[d] = "AlreadyActive"
         => \E q \in Daemon :
              /\ path = q
              /\ pc[q] = "serving" \/ (pc[q] = "closing" /\ outcome[q] = "Left")]_vars

(***************************************************************************)
(* Safety of any path, whoever starts when.                                *)
(***************************************************************************)

\* A daemon that serves and that the path still leads to has the mode it was
\* configured with, and the group or a line about it, although chmod and chown
\* may have met another start's inode: then the path leads to another daemon.
ReachableIsConfigured ==
  \A d \in Daemon :
    pc[d] = "serving" /\ path = d =>
      /\ mode[d] = "config"
      /\ GroupAsked => group[d] = "given" \/ warned[d]

\* A daemon that shut down cleanly, or whose set_permissions failed, has not
\* left its inode for the next start to reason about.  (A refused unlink is
\* the exception the code ignores: its outcome is "Left".)
NoWreckage ==
  \A d \in Daemon :
    pc[d] = "down" /\ outcome[d] \in {"Ok", "IoChmod"} => path # d

(***************************************************************************)
(* What the source says of the path and concurrent starts break.           *)
(***************************************************************************)

\* The socket of a daemon in its accept loop is not taken from under it: only
\* the daemon itself makes the path name something else.
LiveSocketNotTaken ==
  [][\A d \in Daemon :
       pc[d] = "serving" /\ pc'[d] = "serving" /\ path = d => path' = d]_vars

-----------------------------------------------------------------------------
\* The path is a lock: it is owned from bind(2) until its owner unlinks it or
\* dies, and a daemon serves only while it owns it.
Ownership == INSTANCE PathOwnership WITH
  NoOne <- "free",
  owner <- IF path \in Daemon /\ pc[path] \in Owning THEN path ELSE "free",
  serving <- {d \in Daemon : pc[d] = "serving"}

ImplementsOwnership == Ownership!OwnershipSpec

\* Whatever a predecessor left, short of something that is not a socket, some
\* daemon serves again: no crash, failed start or stale inode blocks the path.
Recovery == (path \notin Foreign) ~> (\E d \in Daemon : pc[d] = "serving")

=============================================================================
