----------------------------- MODULE MCService -----------------------------
(***************************************************************************)
(* Service for TLC: the environments worth telling apart are no watchdog,  *)
(* one for this process with and without its pid, one for another process, *)
(* and the shortest there is.                                              *)
(***************************************************************************)
EXTENDS Service

ManyEnvironments == {
  [usec |-> 0, pid |-> "unset"], [usec |-> 2, pid |-> "ours"],
  [usec |-> 2, pid |-> "unset"], [usec |-> 2, pid |-> "other"],
  [usec |-> 1, pid |-> "ours"]}

=============================================================================
