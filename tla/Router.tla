------------------------------- MODULE Router -------------------------------
(***************************************************************************)
(* The router (servrouter): the tables of users, zones and servers, each   *)
(* under a mutex, and the instructions that change them.                   *)
(*                                                                         *)
(* Listener threads of links to the control port run instructions; those   *)
(* of clients pass each message to sendToServerUsers.  A method of Router  *)
(* takes its mutexes one by one, and acts with all of them.  What the      *)
(* listener of a client never runs (ConnectUserRcvd) is left out, and so   *)
(* are the methods that nothing calls.                                     *)
(***************************************************************************)
EXTENDS Integers, SequencesExt

CONSTANTS
    Users, Tokens, Zones, Servers,  \* the ids and tokens Control may name
    Links,                          \* connections to the control port
    Clients                         \* connections of clients

ASSUME IdsAssumption == -1 \notin Users \cup Zones \cup Servers
ASSUME ThreadsAssumption == Links \cap Clients = {}

Threads == Links \cup Clients
None == -1
Mutexes == {"users", "zones", "servers"}
Methods == {"addServer", "addZone", "startZoneToServerTransfer",
            "endZoneToServerTransfer", "connectServer", "addUser",
            "setUserToZone", "delUser", "sendToServerUsers",
            "sendAnswer", "connect"}    \* the last two of the link itself

VARIABLES
    mUsers,     \* the ids that have an entry
    live,       \* those whose User object has not been deleted
    token,      \* token[u]
    zoneOf,     \* zoneOf[u]: User::mZone
    mZones,     \* the ids of zones
    server,     \* server[z]: Zone::mServer
    newServer,  \* newServer[z]: Zone::mNewServer
    inTransfer, \* the zones in transfer
    usersIn,    \* usersIn[z]: Zone::mUsers
    mServers,   \* the ids of servers
    zonesOf,    \* zonesOf[s]: Server::mZones
    connected,  \* the servers with a Connection object
    todo,       \* todo[t]: the methods the instruction of t is still to call
    args,       \* args[t]: the fields of that instruction
    held,       \* held[t]: how many mutexes of the first method t has
    closed,     \* the links that are closed
    status      \* "running" or "undefined"

users   == <<mUsers, live, token, zoneOf>>
zones   == <<mZones, server, newServer, inTransfer, usersIn>>
servers == <<mServers, zonesOf, connected>>
tables  == <<users, zones, servers>>
vars    == <<tables, todo, args, held, closed, status>>

Args == [user : Users \cup {None}, token : Tokens \cup {None},
         zone : Zones \cup {None}, server : Servers \cup {None}]
NoArgs == [user |-> None, token |-> None, zone |-> None, server |-> None]

Init ==
    /\ mUsers = {} /\ live = {}
    /\ token = [u \in Users |-> None]
    /\ zoneOf = [u \in Users |-> None]
    /\ mZones = {} /\ inTransfer = {}
    /\ server = [z \in Zones |-> None]
    /\ newServer = [z \in Zones |-> None]
    /\ usersIn = [z \in Zones |-> {}]
    /\ mServers = {} /\ connected = {}
    /\ zonesOf = [s \in Servers |-> {}]
    /\ todo = [t \in Threads |-> <<>>]
    /\ args = [t \in Threads |-> NoArgs]
    /\ held = [t \in Threads |-> 0]
    /\ closed = {}
    /\ status = "running"

-----------------------------------------------------------------------------
(* What a method does once it has its mutexes. *)

Undefined == status' = "undefined" /\ UNCHANGED tables
Nothing   == UNCHANGED <<tables, status>>

AddServer(s) ==
    /\ mServers' = mServers \cup {s}
    /\ UNCHANGED <<users, zones, zonesOf, connected, status>>

AddZone(z) ==
    /\ mZones' = mZones \cup {z}
    /\ UNCHANGED <<users, server, newServer, inTransfer, usersIn, servers, status>>

StartZoneToServerTransfer(z, s) ==
    IF z \in mZones /\ s \in mServers
      THEN /\ newServer' = [newServer EXCEPT ![z] = s]
           /\ inTransfer' = inTransfer \cup {z}
           /\ UNCHANGED <<users, mZones, server, usersIn, servers, status>>
      ELSE Nothing

(* Zone::endTransfer and the tables of both servers. *)
Transfer(z) ==
    /\ zonesOf' = [s \in Servers |->
            CASE s = newServer[z] -> zonesOf[s] \cup {z}
              [] s = server[z] /\ s # newServer[z] -> zonesOf[s] \ {z}
              [] OTHER -> zonesOf[s]]
    /\ server' = [server EXCEPT ![z] = newServer[z]]
    /\ newServer' = [newServer EXCEPT ![z] = None]
    /\ inTransfer' = inTransfer \ {z}
    /\ UNCHANGED <<users, mZones, usersIn, mServers, connected, status>>

(* Both the old and the new server must be in the table. *)
EndZoneToServerTransfer(z) ==
    IF z \in mZones /\ z \in inTransfer /\ {server[z], newServer[z]} \subseteq mServers
      THEN Transfer(z)
      ELSE Nothing

(* The server gets the Connection that GetServerIpRvcd made; connect was   *)
(* called on another, so it is offline and AddRouterSend is dropped.       *)
ConnectServer(s) ==
    IF s \in mServers
      THEN connected' = connected \cup {s} /\ UNCHANGED <<users, zones, mServers, zonesOf, status>>
      ELSE Nothing

(* A new User, or the new token for the one that is in the table; a User   *)
(* that was deleted is in the table too.                                   *)
AddUser(u, tok) ==
    IF u \in mUsers \ live THEN Undefined
    ELSE /\ mUsers' = mUsers \cup {u}
         /\ live' = live \cup {u}
         /\ token' = [token EXCEPT ![u] = tok]
         /\ UNCHANGED <<zoneOf, zones, servers, status>>

(* The zone the user leaves is dereferenced unseen. *)
SetUserToZone(u, z) ==
    IF u \notin mUsers \/ z \notin mZones THEN Nothing
    ELSE IF u \notin live \/ zoneOf[u] \notin mZones THEN Undefined
    ELSE /\ usersIn' = [usersIn EXCEPT ![z] = @ \cup {u}, ![zoneOf[u]] = @ \ {u}]
         /\ zoneOf' = [zoneOf EXCEPT ![u] = z]
         /\ UNCHANGED <<mUsers, live, token, mZones, server, newServer,
                        inTransfer, servers, status>>

(* The User is deleted, its entry stays.  mZones is read without its       *)
(* mutex, which another thread may hold to change it.                      *)
DelUser(t, u) ==
    IF u \notin mUsers THEN Nothing
    ELSE IF u \notin live THEN Undefined
    ELSE \/ /\ live' = live \ {u}
            /\ usersIn' = [z \in Zones |->
                    IF z = zoneOf[u] THEN usersIn[z] \ {u} ELSE usersIn[z]]
            /\ UNCHANGED <<mUsers, token, zoneOf, mZones, server, newServer,
                           inTransfer, servers, status>>
         \/ /\ \E o \in Threads \ {t} : held[o] = 1 /\ Head(todo[o]) = "addZone"
            /\ Undefined

(* A message of a client has no target, targetId() is -1 for a Datagram:   *)
(* there is no server -1 whose users would get it.                         *)
SendToServerUsers == Nothing

(* connect on a connection that the port accepted: nobody has set its      *)
(* socket and its SSL context.  On a number that is no free socket it      *)
(* fails and changes nothing; on one that is, SSL_new gets garbage.        *)
Connect == Nothing \/ Undefined

Effect(t, method) ==
    LET a == args[t] IN
    CASE method = "addServer" -> AddServer(a.server)
      [] method = "addZone" -> AddZone(a.zone)
      [] method = "startZoneToServerTransfer" -> StartZoneToServerTransfer(a.zone, a.server)
      [] method = "endZoneToServerTransfer" -> EndZoneToServerTransfer(a.zone)
      [] method = "connectServer" -> ConnectServer(a.server)
      [] method = "addUser" -> AddUser(a.user, a.token)
      [] method = "setUserToZone" -> SetUserToZone(a.user, a.zone)
      [] method = "delUser" -> DelUser(t, a.user)
      [] method = "sendToServerUsers" -> SendToServerUsers
      [] method = "sendAnswer" -> Nothing
      [] method = "connect" -> Connect

(* The write of an answer may fail, and closes the link; its listener runs *)
(* the instruction to the end and reads no other.                          *)
LinksAfter(t, method) ==
    IF method = "sendAnswer" THEN {closed, closed \cup {t}} ELSE {closed}

-----------------------------------------------------------------------------
(* The mutexes, in the order the lock_guards of a method take them. *)

(* Variant of Locks: endZoneToServerTransfer takes its two the other way.  *)
LocksCrossed(method) ==
    CASE method \in {"addServer", "connectServer", "sendToServerUsers"} -> <<"servers">>
      [] method = "addZone" -> <<"zones">>
      [] method = "startZoneToServerTransfer" -> <<"zones", "servers">>
      [] method = "endZoneToServerTransfer" -> <<"servers", "zones">>
      [] method \in {"addUser", "delUser"} -> <<"users">>
      [] method = "setUserToZone" -> <<"users", "zones">>
      [] method \in {"sendAnswer", "connect"} -> <<>>

Locks(method) ==
    CASE method \in {"addServer", "connectServer", "sendToServerUsers"} -> <<"servers">>
      [] method = "addZone" -> <<"zones">>
      [] method \in {"startZoneToServerTransfer", "endZoneToServerTransfer"} ->
             <<"zones", "servers">>
      [] method \in {"addUser", "delUser"} -> <<"users">>
      [] method = "setUserToZone" -> <<"users", "zones">>
      [] method \in {"sendAnswer", "connect"} -> <<>>

Has(t, mutex) == \E k \in 1 .. held[t] : Locks(Head(todo[t]))[k] = mutex

Acquire(t) ==
    /\ todo[t] # <<>>
    /\ held[t] < Len(Locks(Head(todo[t])))
    /\ \A o \in Threads : ~Has(o, Locks(Head(todo[t]))[held[t] + 1])
    /\ held' = [held EXCEPT ![t] = @ + 1]
    /\ UNCHANGED <<tables, todo, args, closed, status>>

Act(t) ==
    /\ todo[t] # <<>>
    /\ held[t] = Len(Locks(Head(todo[t])))
    /\ Effect(t, Head(todo[t]))
    /\ closed' \in LinksAfter(t, Head(todo[t]))
    /\ held' = [held EXCEPT ![t] = 0]
    /\ todo' = [todo EXCEPT ![t] = Tail(@)]
    /\ args' = IF Len(todo[t]) = 1 THEN [args EXCEPT ![t] = NoArgs] ELSE args

Working(t) == status = "running" /\ (Acquire(t) \/ Act(t))

-----------------------------------------------------------------------------
(* The instructions, as they arrive on a link. *)

Begin(t, methods, fields) ==
    /\ status = "running"
    /\ todo[t] = <<>> /\ t \notin closed
    /\ todo' = [todo EXCEPT ![t] = methods]
    /\ args' = [args EXCEPT ![t] = fields]
    /\ UNCHANGED <<tables, held, closed, status>>

(* Variant of SetZoneToServerRcvd: -1 is a server like any other. *)
SetZoneToServerAny(t, z, s) ==
    Begin(t, <<"addServer", "sendAnswer">>
               \o (IF z # None THEN <<"addZone">> ELSE <<>>)
               \o <<"startZoneToServerTransfer", "endZoneToServerTransfer">>,
          [NoArgs EXCEPT !.zone = z, !.server = s])

(* -1 stands for no server and for no zone.  Control is asked for the      *)
(* address of the server on the same link.                                 *)
SetZoneToServerRcvd(t, z, s) ==
    Begin(t, (IF s # None THEN <<"addServer", "sendAnswer">> ELSE <<>>)
               \o (IF z # None THEN <<"addZone">> ELSE <<>>)
               \o <<"startZoneToServerTransfer", "endZoneToServerTransfer">>,
          [NoArgs EXCEPT !.zone = z, !.server = s])

(* connect is called on the link that the message came on. *)
GetServerIpRvcd(t, s) ==
    Begin(t, <<"connect", "connectServer">>, [NoArgs EXCEPT !.server = s])

AddUserRcvd(t, u, tok, z) ==
    Begin(t, <<"addUser", "setUserToZone">>,
          [NoArgs EXCEPT !.user = u, !.token = tok, !.zone = z])

DelUserRcvd(t, u) == Begin(t, <<"delUser">>, [NoArgs EXCEPT !.user = u])

FromClient(t) == Begin(t, <<"sendToServerUsers">>, NoArgs)

FromControl(t) ==
    \/ \E z \in Zones \cup {None}, s \in Servers \cup {None} : SetZoneToServerRcvd(t, z, s)
    \/ \E s \in Servers : GetServerIpRvcd(t, s)
    \/ \E u \in Users, tok \in Tokens, z \in Zones : AddUserRcvd(t, u, tok, z)
    \/ \E u \in Users : DelUserRcvd(t, u)

(* The listener of a link reads an error and closes it. *)
LinkCloses(t) ==
    /\ status = "running"
    /\ todo[t] = <<>> /\ t \notin closed
    /\ closed' = closed \cup {t}
    /\ UNCHANGED <<tables, todo, args, held, status>>

Next ==
    \/ \E t \in Links : FromControl(t) \/ LinkCloses(t)
    \/ \E t \in Clients : FromClient(t)
    \/ \E t \in Threads : Working(t)

Spec == Init /\ [][Next]_vars

(* Threads run, and a link that waits for a mutex gets it if it is free    *)
(* again and again.  The write of an answer ends, with or without success: *)
(* a GetServerIpSend is a few bytes, which the socket takes without the    *)
(* other end, and the link has no other writer.                            *)
FairSpec ==
    /\ Spec
    /\ \A t \in Links : SF_vars(Working(t))
    /\ \A t \in Clients : WF_vars(Working(t))

-----------------------------------------------------------------------------
(* Properties. *)

(* The tables hold ids of the instructions, never -1. *)
TypeOK ==
    /\ live \subseteq mUsers /\ mUsers \subseteq Users
    /\ token \in [Users -> Tokens \cup {None}]
    /\ zoneOf \in [Users -> Zones \cup {None}]
    /\ mZones \subseteq Zones /\ inTransfer \subseteq mZones
    /\ server \in [Zones -> Servers \cup {None}]
    /\ newServer \in [Zones -> Servers \cup {None}]
    /\ usersIn \in [Zones -> SUBSET Users]
    /\ mServers \subseteq Servers /\ connected \subseteq mServers
    /\ zonesOf \in [Servers -> SUBSET Zones]
    /\ todo \in [Threads -> Seq(Methods)]
    /\ args \in [Threads -> Args]
    /\ held \in [Threads -> 0 .. 2]
    /\ closed \subseteq Links
    /\ status \in {"running", "undefined"}

(* Every instruction of a link is carried out: no two threads wait for     *)
(* each other's mutex (users before zones before servers, in every method).*)
InstructionsEnd ==
    \A t \in Links : todo[t] # <<>> ~> (todo[t] = <<>> \/ status = "undefined")
=============================================================================
