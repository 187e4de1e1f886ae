---------------------------- MODULE PathOwnership ----------------------------
(***************************************************************************)
(* What uds-policy promises about a socket path, with no system call in    *)
(* sight: the path is a lock.  At most one daemon owns it, a daemon serves *)
(* only while it owns it, and ownership passes on only after its owner has *)
(* given it up, by a clean shutdown, by a failed start or by dying.        *)
(* "A stale socket left behind by a crashed predecessor is reclaimed; a    *)
(* live one is not" (src/src/socket.rs, Socket::bind).                     *)
(***************************************************************************)

CONSTANTS
  Daemon,  \* the daemons that may bind the path
  NoOne    \* the owner of a path nobody owns, which is no daemon

VARIABLES
  owner,   \* the daemon whose listener is behind the path, or NoOne
  serving  \* the daemons in their accept loop

ownershipVars == <<owner, serving>>

OwnershipInit ==
  /\ owner = NoOne
  /\ serving = {}

\* Socket::bind binds the path's inode.
Acquire(d) ==
  /\ owner = NoOne
  /\ owner' = d
  /\ UNCHANGED serving

\* Socket::bind returns Ok to a daemon that still owns the path.
Serve(d) ==
  /\ owner = d
  /\ serving' = serving \cup {d}
  /\ UNCHANGED owner

\* The owner shuts down, fails to finish its start, or dies.
Release(d) ==
  /\ owner = d
  /\ owner' = NoOne
  /\ serving' = serving \ {d}

OwnershipNext ==
  \E d \in Daemon : Acquire(d) \/ Serve(d) \/ Release(d)

OwnershipSpec == OwnershipInit /\ [][OwnershipNext]_ownershipVars

=============================================================================
