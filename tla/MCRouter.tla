------------------------------ MODULE MCRouter ------------------------------
(* Router with two links to its control port and a client. *)
EXTENDS Router
=============================================================================
