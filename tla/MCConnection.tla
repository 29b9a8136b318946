---------------------------- MODULE MCConnection ----------------------------
(* One connection that only its listener writes to, and one, accepted or   *)
(* opened by the process, that another thread writes to and closes.        *)
EXTENDS Connection
=============================================================================
