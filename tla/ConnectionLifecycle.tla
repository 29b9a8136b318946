------------------------- MODULE ConnectionLifecycle -------------------------
(***************************************************************************)
(* What a connection that only its listener writes to promises its owner:  *)
(* it is opened once and closed once, never opened again, its listener ends*)
(* only when it is closed, and the owner is told of the end at most once,  *)
(* after the connection was closed and by the listener, so not after that  *)
(* has ended.                                                              *)
(***************************************************************************)
CONSTANT Conns

VARIABLES
    phase,      \* phase[c]: "new", "open", "closed" or "ended"
    told        \* told[c]: how often the owner was told

vars == <<phase, told>>

Init ==
    /\ phase = [c \in Conns |-> "new"]
    /\ told = [c \in Conns |-> 0]

Go(c, from, to) ==
    /\ phase[c] = from
    /\ phase' = [phase EXCEPT ![c] = to]
    /\ UNCHANGED told

Open(c)  == Go(c, "new", "open")
Close(c) == Go(c, "open", "closed")
End(c)   == Go(c, "closed", "ended")

Tell(c) ==
    /\ phase[c] = "closed"
    /\ told[c] = 0
    /\ told' = [told EXCEPT ![c] = 1]
    /\ UNCHANGED phase

Next == \E c \in Conns : Open(c) \/ Close(c) \/ Tell(c) \/ End(c)

Spec == Init /\ [][Next]_vars
=============================================================================
