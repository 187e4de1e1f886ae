--------------------------- MODULE Authorization ---------------------------
(***************************************************************************)
(* May they: the calls of src/src/call.rs, the callers of                  *)
(* src/src/caller.rs and the three authorizers of                          *)
(* src/src/authorization.rs.  A caller is a credential, that is a record   *)
(* with a uid and a gid, or one of two callers without any.                *)
(***************************************************************************)
CONSTANTS
  Unreadable,  \* the caller whose credentials the kernel would not report
  InProcess    \* the caller that is the daemon itself

\* Call::gated and Call::unprivileged, by their authorization.
Gated == "Policy"
Unprivileged == "Unprivileged"

\* Caller::uid and Caller::gid, as Options.
uid(who) == IF who \in {Unreadable, InProcess} THEN {} ELSE {who.uid}
gid(who) == IF who \in {Unreadable, InProcess} THEN {} ELSE {who.gid}

AllowSocketPeers == [kind |-> "AllowSocketPeers"]

DenyAll == [kind |-> "DenyAll"]

PeerGate(uids, gids, reject) ==
  [kind |-> "PeerGate", allowed_uids |-> uids, allowed_gids |-> gids,
   reject_unreadable_caller |-> reject]

ForUids(uids) == PeerGate(uids, {}, TRUE)

ForGids(gids) == PeerGate({}, gids, TRUE)

\* What #[derive(Default)] makes of a PeerGate.
DefaultGate == PeerGate({}, {}, FALSE)

\* A caller is on one of the gate's lists.
Listed(gate, who) ==
  uid(who) \cap gate.allowed_uids # {} \/ gid(who) \cap gate.allowed_gids # {}

\* A gate takes whoever it does not know for the daemon itself.
AdmitsUnidentified(gate, who) ==
  Listed(gate, who) \/ who \in {InProcess, Unreadable}

\* <PeerGate as Authorizer>::authorize
Admits(gate, who) ==
  \/ Listed(gate, who)
  \/ who = InProcess
  \/ who = Unreadable /\ ~gate.reject_unreadable_caller

\* Authorizer::authorize.  No authorizer here looks at the call.
authorize(authorizer, who) ==
  CASE authorizer.kind = "AllowSocketPeers" -> TRUE
    [] authorizer.kind = "DenyAll" -> FALSE
    [] authorizer.kind = "PeerGate" -> Admits(authorizer, who)

=============================================================================
