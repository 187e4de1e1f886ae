----------------------------- MODULE MCWatchdog -----------------------------
(***************************************************************************)
(* Watchdog for TLC: an even timeout, so that the second missed pet ties   *)
(* with the kill; a bounded call may outlive the timeout; streams without  *)
(* and with a ceiling.                                                     *)
(***************************************************************************)
EXTENDS Watchdog

StreamCeilings == {{}, {3}}

=============================================================================
