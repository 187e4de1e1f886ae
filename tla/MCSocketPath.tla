---------------------------- MODULE MCSocketPath ----------------------------
(***************************************************************************)
(* SocketPath for TLC: the daemons are interchangeable in every safety     *)
(* property, so the safety runs may permute them.                          *)
(***************************************************************************)
EXTENDS SocketPath, TLC

DaemonSymmetry == Permutations(Daemon)

=============================================================================
