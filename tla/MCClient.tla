------------------------------ MODULE MCClient ------------------------------
(* A client process. *)
EXTENDS Client
=============================================================================
