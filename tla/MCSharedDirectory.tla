------------------------- MODULE MCSharedDirectory --------------------------
(***************************************************************************)
(* SharedDirectory for TLC, with the daemons interchangeable.              *)
(***************************************************************************)
EXTENDS SharedDirectory, MCSocketPath

=============================================================================
