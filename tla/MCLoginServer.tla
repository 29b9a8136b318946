--------------------------- MODULE MCLoginServer ---------------------------
(* LoginServer on small sets of users and connections. *)
EXTENDS LoginServer, TLC

Symmetry == Permutations(Users) \cup Permutations(Conns)
=============================================================================
