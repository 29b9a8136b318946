----------------------------- MODULE MCControl -----------------------------
(* Control with a few game servers; the code has four zones.  The servers  *)
(* and zones are numbers, whose order matters, so there is no symmetry.    *)
EXTENDS Control
=============================================================================
