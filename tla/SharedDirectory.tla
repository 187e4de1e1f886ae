-------------------------- MODULE SharedDirectory ---------------------------
(***************************************************************************)
(* The socket's directory is not the daemons' alone: an administrator, a   *)
(* cleaner of old files or another program removes what is at the path, or *)
(* puts something there that is no socket, between any two system calls of *)
(* module SocketPath.  remove_file then meets whatever the path names by   *)
(* that time, in a reclaim, in bind's error arm, and in Drop.              *)
(*                                                                         *)
(* An outsider does not put a daemon's inode back once it has moved it.    *)
(***************************************************************************)
EXTENDS SocketPath

CONSTANT MaxMeddles  \* bound on what an outsider does to the path

ASSUME SharedDirectoryAssumption == MaxMeddles \in Nat

VARIABLES
  meddles,  \* how often an outsider has changed what the path names
  unaware,  \* the daemons that had looked at the path, or bound it, before what
            \* is there now was put there, and have not ended since
  raced     \* a reclaim has unlinked an inode that a daemon owned

sharedVars == <<vars, meddles, unaware, raced>>

\* Past the is_socket check, and with an unlink still to come; and from bind(2)
\* until the unlink.
Committed == {"probe", "unlink"} \cup Owning

SharedTypeOK ==
  /\ TypeOK
  /\ meddles \in 0 .. MaxMeddles
  /\ unaware \subseteq Daemon
  /\ raced \in BOOLEAN

SharedInit ==
  /\ Init
  /\ meddles = 0
  /\ unaware = {}
  /\ raced = FALSE

-----------------------------------------------------------------------------

\* Something that is no socket takes the place of what is at the path.
Replace ==
  /\ path' \in Foreign \ {path}
  /\ unaware' = {d \in Daemon : pc[d] \in Committed}

\* What is at the path is removed, or moved away.
Remove ==
  /\ path # "free"
  /\ path' = "free"
  /\ UNCHANGED unaware

Meddle ==
  /\ meddles < MaxMeddles
  /\ meddles' = meddles + 1
  /\ Replace \/ Remove
  /\ UNCHANGED <<pc, mode, group, warned, outcome, crashes, faults, raced>>

\* Of two starts the second takes for stale what the first has bound.
TakesOver ==
  \E d \in Daemon :
    pc[d] = "unlink" /\ pc'[d] = "bind" /\ path \in Daemon /\ pc[path] \in Owning

\* A step of a daemon; one that is down has forgotten what it looked at.
DaemonStep ==
  /\ Next
  /\ raced' = (raced \/ TakesOver)
  /\ unaware' = {d \in unaware : pc'[d] # "down"}
  /\ UNCHANGED meddles

SharedNext == DaemonStep \/ Meddle

SharedSpec == SharedInit /\ [][SharedNext]_sharedVars

-----------------------------------------------------------------------------

\* What is no socket is safe from every daemon that starts after it was put
\* there, however long it stays, whatever fails, and however many start: only
\* one that had already looked, or bound, may unlink it, in its reclaim, in the
\* error arm of bind or in Drop.
LaterStartsLeaveForeign ==
  [][\A d \in Daemon :
       path \in Foreign /\ path' # path /\ pc'[d] # pc[d] => d \in unaware]_sharedVars

\* The daemons that hold a listener the path does not lead to.
Stranded == {d \in Daemon : pc[d] \in Owning /\ path # d}

\* Each thing an outsider does costs at most one daemon its clients, until two
\* starts race for the path: Drop and bind's error arm unlink another daemon's live
\* socket only when their own daemon was stranded before, so the loss is handed on
\* and never multiplied.
StrandingIsBounded == ~raced => Cardinality(Stranded) <= meddles

=============================================================================
