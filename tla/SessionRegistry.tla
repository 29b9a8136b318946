-------------------------- MODULE SessionRegistry --------------------------
(***************************************************************************)
(* What the login server promises to the rest of the system, with nothing  *)
(* said of tables, locks or messages: a user has at most one session, the  *)
(* id of a session is never given again, and as long as every connection   *)
(* keeps to its own session, a session ends with the connection it was     *)
(* opened on.                                                              *)
(***************************************************************************)
EXTENDS Integers

CONSTANTS
    Users,          \* the user names of the USERS table
    Conns,          \* the connections clients open
    NoSession       \* what session[u] is when u is not logged in

VARIABLES
    session,        \* the session of each user: its id and its connection
    issued,         \* how many ids have been given: 0 .. issued - 1
    astray,         \* a connection has touched a session not its own, or
                    \* opened a second one
    gone            \* the connections that are closed for good

vars == <<session, issued, astray, gone>>

Init ==
    /\ session = [u \in Users |-> NoSession]
    /\ issued = 0
    /\ astray = FALSE
    /\ gone = {}

IsOf(c, u) == session[u] # NoSession /\ session[u].conn = c

(* A session opens for a user who has none, on a live connection, under    *)
(* the next id.                                                            *)
Open(u, c) ==
    /\ session[u] = NoSession
    /\ c \notin gone
    /\ session' = [session EXCEPT ![u] = [id |-> issued, conn |-> c]]
    /\ issued' = issued + 1
    /\ astray' = (astray \/ \E v \in Users : IsOf(c, v))
    /\ UNCHANGED gone

(* Another login of the same user ends the session. *)
End(u) ==
    /\ session[u] # NoSession
    /\ session' = [session EXCEPT ![u] = NoSession]
    /\ UNCHANGED <<issued, astray, gone>>

(* A logout asked on connection c ends the session, whosever it is. *)
Leave(u, c) ==
    /\ session[u] # NoSession
    /\ c \notin gone
    /\ session' = [session EXCEPT ![u] = NoSession]
    /\ astray' = (astray \/ ~IsOf(c, u))
    /\ UNCHANGED <<issued, gone>>

(* A logout from a foreign connection that the server does not survive. *)
Stray(u, c) ==
    /\ session[u] # NoSession
    /\ c \notin gone /\ ~IsOf(c, u)
    /\ astray' = TRUE
    /\ UNCHANGED <<session, issued, gone>>

(* A connection closes, and a session opened on it ends at that moment: if *)
(* no request went astray, none that was opened on it is left.             *)
Drop(c) ==
    /\ c \notin gone
    /\ gone' = gone \cup {c}
    /\ \/ session' = session
       \/ \E u \in Users :
            /\ IsOf(c, u)
            /\ session' = [session EXCEPT ![u] = NoSession]
    /\ ~astray => \A v \in Users : ~IsOf(c, v)'
    /\ UNCHANGED <<issued, astray>>

Next ==
    \/ \E u \in Users : End(u)
    \/ \E c \in Conns : Drop(c)
    \/ \E u \in Users, c \in Conns : Open(u, c) \/ Leave(u, c) \/ Stray(u, c)

Spec == Init /\ [][Next]_vars
=============================================================================
