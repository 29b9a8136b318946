---------------------------- MODULE MCGameServer ----------------------------
(* GameServer with two zones and two threads that call it. *)
EXTENDS GameServer, TLC

Symmetry == Permutations(Callers)
=============================================================================
