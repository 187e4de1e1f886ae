---------------------------- MODULE MCGatekeeper ----------------------------
(***************************************************************************)
(* Gatekeeper for TLC: two parties, each with a uid and a gid, and the     *)
(* daemons to try: the example's, one of each other authorizer, and the    *)
(* three read timeouts.                                                    *)
(***************************************************************************)
EXTENDS Gatekeeper

TwoParties == {[uid |-> 1, gid |-> 1], [uid |-> 2, gid |-> 2]}

OneParty == {[uid |-> 1, gid |-> 1]}

Example == Daemon(ForUids({1}), Gated, "Some", TRUE)

Several == {
  Example,
  [Example EXCEPT !.request_read_timeout = "zero"],
  Daemon(AllowSocketPeers, Unprivileged, "None", TRUE),
  Daemon(DenyAll, Gated, "Some", FALSE),
  Daemon([ForGids({2}) EXCEPT !.reject_unreadable_caller = FALSE], Gated, "Some", FALSE)}

JustTheExample == {[Example EXCEPT !.armed = FALSE]}

EmptyGate == {Daemon(DefaultGate, Gated, "Some", FALSE)}

=============================================================================
