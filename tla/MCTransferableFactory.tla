----------------------- MODULE MCTransferableFactory -----------------------
(* TransferableFactory with two listener threads. *)
EXTENDS TransferableFactory, TLC

Symmetry == Permutations(Listeners) \cup Permutations(Senders)
=============================================================================
