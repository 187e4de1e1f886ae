--------------------------- MODULE MCCallerNames ---------------------------
(***************************************************************************)
(* CallerNames for TLC.                                                    *)
(***************************************************************************)
EXTENDS CallerNames
=============================================================================
