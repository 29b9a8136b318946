---------------------------- MODULE Router_proofs ----------------------------
(***************************************************************************)
(* For any users, zones, servers, links and clients: the types of Router's *)
(* tables, and that the threads never all wait for each other's mutexes.   *)
(***************************************************************************)
EXTENDS Router, SequenceTheorems, TLAPS

(* What the instruction of a thread must name for it to call the method.   *)
Ready(method, a) ==
    /\ method \in {"addServer", "connectServer"} => a.server \in Servers
    /\ method \in {"addZone", "setUserToZone"} => a.zone \in Zones
    /\ method \in {"addUser", "setUserToZone", "delUser"} => a.user \in Users

(* Every method a thread is still to call finds the ids it needs in the    *)
(* instruction; only links call anything but sendToServerUsers.            *)
TodoInv ==
    \A t \in Threads : \A k \in 1 .. Len(todo[t]) :
        /\ Ready(todo[t][k], args[t])
        /\ t \in Clients => todo[t][k] = "sendToServerUsers"

(* A thread has mutexes only of the method it is about to call.            *)
HeldInv ==
    \A t \in Threads : held[t] > 0 =>
        /\ todo[t] # <<>>
        /\ held[t] <= Len(Locks(Head(todo[t])))

IInv == TypeOK /\ TodoInv /\ HeldInv

-----------------------------------------------------------------------------
(* The methods and their mutexes. *)

(* A method takes at most two mutexes, and a second one comes later in the *)
(* order users, zones, servers.                                            *)
LEMMA LocksInOrder ==
    ASSUME NEW m \in Methods
    PROVE  /\ Len(Locks(m)) \in 0 .. 2
           /\ \A k \in 1 .. Len(Locks(m)) : Locks(m)[k] \in Mutexes
           /\ Len(Locks(m)) = 2 =>
                 \/ Locks(m) = <<"users", "zones">>
                 \/ Locks(m) = <<"zones", "servers">>
BY DEF Methods, Locks, Mutexes

(* The first of a thread's methods, and what is left of them after it.     *)
LEMMA FirstMethod ==
    ASSUME NEW s \in Seq(Methods), s # <<>>
    PROVE  /\ Head(s) \in Methods /\ Head(s) = s[1] /\ 1 \in 1 .. Len(s)
           /\ Tail(s) \in Seq(Methods)
           /\ Len(Tail(s)) = Len(s) - 1
           /\ \A k \in 1 .. Len(Tail(s)) : k + 1 \in 1 .. Len(s) /\ Tail(s)[k] = s[k + 1]
<1>1. Len(s) \in Nat /\ Len(s) # 0
  BY EmptySeq, LenProperties
<1>2. Tail(s) \in Seq(Methods) /\ Head(s) \in Methods
  BY HeadTailProperties
<1>3. Len(Tail(s)) = Len(s) - 1 /\ \A k \in 1 .. Len(Tail(s)) : Tail(s)[k] = s[k + 1]
  BY HeadTailProperties
<1> QED
  BY <1>1, <1>2, <1>3

(* The router starts with empty tables and idle threads.                   *)
LEMMA InitIInv == Init => IInv
<1> SUFFICES ASSUME Init PROVE IInv
  OBVIOUS
<1>1. TypeOK
  BY DEF Init, TypeOK, Args, NoArgs
<1>2. TodoInv
  BY DEF Init, TodoInv
<1>3. HeldInv
  BY DEF Init, HeldInv
<1> QED
  BY <1>1, <1>2, <1>3 DEF IInv

-----------------------------------------------------------------------------
(* A thread takes a mutex. *)

LEMMA AcquireStep ==
    ASSUME IInv, NEW t \in Threads, status = "running", Acquire(t)
    PROVE  IInv'
<1>1. TypeOK
  BY DEF IInv
<1>2. Head(todo[t]) \in Methods
  BY <1>1, FirstMethod DEF TypeOK, Acquire
<1>3. Len(Locks(Head(todo[t]))) \in 0 .. 2
  BY <1>2, LocksInOrder
<1> DEFINE n == Len(Locks(Head(todo[t])))
<1>a. /\ held[t] \in 0 .. 2 /\ held[t] < n /\ n \in 0 .. 2 /\ todo[t] # <<>>
      /\ held' = [held EXCEPT ![t] = @ + 1]
      /\ UNCHANGED <<todo, closed, status>>
  BY <1>1, <1>3 DEF TypeOK, Acquire
<1> HIDE DEF n
<1>4. held' \in [Threads -> 0 .. 2]
  BY <1>1, <1>a DEF TypeOK
<1>5. TypeOK'
  BY <1>1, <1>4 DEF TypeOK, Acquire, tables, users, zones, servers
<1>6. TodoInv'
  BY DEF IInv, TodoInv, Acquire
<1>7. HeldInv'
  <2> SUFFICES ASSUME NEW o \in Threads, held'[o] > 0
               PROVE  todo[o] # <<>> /\ held'[o] <= Len(Locks(Head(todo[o])))
    BY <1>a DEF HeldInv
  <2>1. CASE o = t
    <3>1. held'[o] = held[t] + 1
      BY <1>1, <1>a, <2>1 DEF TypeOK
    <3>2. held[t] + 1 <= n
      BY <1>a
    <3> QED
      BY <1>a, <2>1, <3>1, <3>2 DEF n
  <2>2. CASE o # t
    <3>1. held'[o] = held[o]
      BY <1>1, <1>a, <2>2 DEF TypeOK
    <3> QED
      BY <3>1 DEF IInv, HeldInv
  <2> QED
    BY <2>1, <2>2
<1> QED
  BY <1>5, <1>6, <1>7 DEF IInv

-----------------------------------------------------------------------------
(* A method acts on the tables. *)

Tables ==
    /\ live \subseteq mUsers /\ mUsers \subseteq Users
    /\ token \in [Users -> Tokens \cup {None}]
    /\ zoneOf \in [Users -> Zones \cup {None}]
    /\ mZones \subseteq Zones /\ inTransfer \subseteq mZones
    /\ server \in [Zones -> Servers \cup {None}]
    /\ newServer \in [Zones -> Servers \cup {None}]
    /\ usersIn \in [Zones -> SUBSET Users]
    /\ mServers \subseteq Servers /\ connected \subseteq mServers
    /\ zonesOf \in [Servers -> SUBSET Zones]
    /\ status \in {"running", "undefined"}

(* The transfer of a zone ends at a server that exists: the zone leaves    *)
(* the table of the old one and enters that of the new one.                *)
LEMMA TransferStep ==
    ASSUME Tables, NEW z \in inTransfer, newServer[z] \in mServers, Transfer(z)
    PROVE  Tables'
<1> USE DEF Tables, users
<1>1. z \in Zones /\ newServer[z] \in Servers
  OBVIOUS
<1>2. /\ server' = [server EXCEPT ![z] = newServer[z]]
      /\ newServer' = [newServer EXCEPT ![z] = None]
      /\ inTransfer' = inTransfer \ {z}
      /\ UNCHANGED <<mUsers, live, token, zoneOf, mZones, usersIn, mServers, connected, status>>
  BY DEF Transfer
<1>3. zonesOf' = [s \in Servers |->
            CASE s = newServer[z] -> zonesOf[s] \cup {z}
              [] s = server[z] /\ s # newServer[z] -> zonesOf[s] \ {z}
              [] OTHER -> zonesOf[s]]
  BY DEF Transfer
<1>4. \A s \in Servers : zonesOf'[s] \subseteq Zones
  BY <1>1, <1>3
<1>5. zonesOf' \in [Servers -> SUBSET Zones]
  BY <1>3, <1>4
<1> QED
  BY <1>1, <1>2, <1>5

(* Whatever a method of a thread does, the tables keep their types.        *)
LEMMA EffectStep ==
    ASSUME Tables, NEW t \in Threads, NEW m \in Methods,
           Ready(m, args[t]), args[t] \in Args, Effect(t, m)
    PROVE  Tables'
<1> DEFINE a == args[t]
<1> USE DEF users, zones, servers
<1>0. a \in Args
  OBVIOUS
<1>a. a.user \in Users \cup {None} /\ a.token \in Tokens \cup {None}
      /\ a.zone \in Zones \cup {None} /\ a.server \in Servers \cup {None}
  BY <1>0 DEF Args
<1> HIDE DEF a
<1>u. (Undefined \/ Nothing) => Tables'
  BY DEF Undefined, Nothing, Tables, tables
<1>1. CASE m = "addServer"
  <2>1. AddServer(a.server) /\ a.server \in Servers
    BY <1>1 DEF Effect, Ready, a
  <2> QED
    BY <2>1 DEF AddServer, Tables
<1>2. CASE m = "addZone"
  <2>1. AddZone(a.zone) /\ a.zone \in Zones
    BY <1>2 DEF Effect, Ready, a
  <2> QED
    BY <2>1 DEF AddZone, Tables
<1>3. CASE m = "startZoneToServerTransfer"
  <2>1. StartZoneToServerTransfer(a.zone, a.server)
    BY <1>3 DEF Effect, a
  <2>2. CASE a.zone \in mZones /\ a.server \in mServers
    <3>1. /\ newServer' = [newServer EXCEPT ![a.zone] = a.server]
          /\ inTransfer' = inTransfer \cup {a.zone}
          /\ UNCHANGED <<users, mZones, server, usersIn, servers, status>>
      BY <2>1, <2>2 DEF StartZoneToServerTransfer
    <3> QED
      BY <2>2, <3>1 DEF Tables
  <2>3. CASE ~(a.zone \in mZones /\ a.server \in mServers)
    BY <2>1, <2>3, <1>u DEF StartZoneToServerTransfer
  <2> QED
    BY <2>2, <2>3
<1>4. CASE m = "endZoneToServerTransfer"
  <2>1. EndZoneToServerTransfer(a.zone)
    BY <1>4 DEF Effect, a
  <2>2. CASE a.zone \in mZones /\ a.zone \in inTransfer
                /\ {server[a.zone], newServer[a.zone]} \subseteq mServers
    <3>1. Transfer(a.zone)
      BY <2>1, <2>2 DEF EndZoneToServerTransfer
    <3> QED
      BY <2>2, <3>1, TransferStep
  <2>3. CASE ~(a.zone \in mZones /\ a.zone \in inTransfer
                /\ {server[a.zone], newServer[a.zone]} \subseteq mServers)
    BY <2>1, <2>3, <1>u DEF EndZoneToServerTransfer
  <2> QED
    BY <2>2, <2>3
<1>5. CASE m = "connectServer"
  <2>1. ConnectServer(a.server)
    BY <1>5 DEF Effect, a
  <2>2. CASE a.server \in mServers
    BY <2>1, <2>2 DEF ConnectServer, Tables
  <2>3. CASE a.server \notin mServers
    BY <2>1, <2>3, <1>u DEF ConnectServer
  <2> QED
    BY <2>2, <2>3
<1>6. CASE m = "addUser"
  <2>1. AddUser(a.user, a.token) /\ a.user \in Users
    BY <1>6 DEF Effect, Ready, a
  <2>2. CASE a.user \in mUsers \ live
    <3>1. Undefined
      BY <2>1, <2>2 DEF AddUser
    <3> QED
      BY <2>2, <3>1, <1>u
  <2>3. CASE a.user \notin mUsers \ live
    BY <1>a, <2>1, <2>3 DEF AddUser, Tables
  <2> QED
    BY <2>2, <2>3
<1>7. CASE m = "setUserToZone"
  <2>1. SetUserToZone(a.user, a.zone) /\ a.user \in Users /\ a.zone \in Zones
    BY <1>7 DEF Effect, Ready, a
  <2>2. CASE a.user \notin mUsers \/ a.zone \notin mZones
    BY <2>1, <2>2, <1>u DEF SetUserToZone
  <2>3. CASE /\ ~(a.user \notin mUsers \/ a.zone \notin mZones)
             /\ a.user \notin live \/ zoneOf[a.user] \notin mZones
    <3>1. Undefined
      BY <2>1, <2>3 DEF SetUserToZone
    <3> QED
      BY <2>3, <3>1, <1>u
  <2>4. CASE /\ ~(a.user \notin mUsers \/ a.zone \notin mZones)
             /\ ~(a.user \notin live \/ zoneOf[a.user] \notin mZones)
    <3>1. /\ usersIn' = [usersIn EXCEPT ![a.zone] = @ \cup {a.user},
                                        ![zoneOf[a.user]] = @ \ {a.user}]
          /\ zoneOf' = [zoneOf EXCEPT ![a.user] = a.zone]
          /\ UNCHANGED <<mUsers, live, token, mZones, server, newServer,
                         inTransfer, servers, status>>
      BY <2>1, <2>4, Zenon DEF SetUserToZone
    <3>2. usersIn' \in [Zones -> SUBSET Users]
      BY <2>1, <3>1 DEF Tables
    <3> QED
      BY <2>1, <3>1, <3>2 DEF Tables
  <2> QED
    BY <2>2, <2>3, <2>4
<1>8. CASE m = "delUser"
  <2>1. DelUser(t, a.user) /\ a.user \in Users
    BY <1>8 DEF Effect, Ready, a
  <2>2. CASE a.user \notin mUsers
    BY <2>1, <2>2, <1>u DEF DelUser
  <2>3. CASE a.user \in mUsers \ live
    <3>1. Undefined
      BY <2>1, <2>3 DEF DelUser
    <3> QED
      BY <2>3, <3>1, <1>u
  <2>4. CASE a.user \in live /\ a.user \in mUsers
    <3>1. CASE /\ live' = live \ {a.user}
               /\ usersIn' = [z \in Zones |->
                     IF z = zoneOf[a.user] THEN usersIn[z] \ {a.user} ELSE usersIn[z]]
               /\ UNCHANGED <<mUsers, token, zoneOf, mZones, server, newServer,
                              inTransfer, servers, status>>
      BY <2>1, <3>1 DEF Tables
    <3>2. CASE /\ \E o \in Threads \ {t} : held[o] = 1 /\ Head(todo[o]) = "addZone"
               /\ Undefined
      BY <3>2, <1>u
    <3> QED
      BY <2>1, <2>4, <3>1, <3>2 DEF DelUser
  <2> QED
    BY <2>2, <2>3, <2>4
<1>9. CASE m = "sendToServerUsers"
  <2>1. Nothing
    BY <1>9 DEF Effect, SendToServerUsers
  <2> QED
    BY <2>1, <1>u
<1>10. CASE m \in {"sendAnswer", "connect"}
  <2>1. Undefined \/ Nothing
    BY <1>10 DEF Effect, Connect
  <2> QED
    BY <2>1, <1>u
<1> QED
  BY <1>1, <1>2, <1>3, <1>4, <1>5, <1>6, <1>7, <1>8, <1>9, <1>10 DEF Methods

LEMMA ActStep ==
    ASSUME IInv, NEW t \in Threads, status = "running", Act(t)
    PROVE  IInv'
<1> DEFINE m == Head(todo[t])
<1>1. TypeOK /\ TodoInv /\ HeldInv
  BY DEF IInv
<1>2. /\ todo[t] \in Seq(Methods) /\ todo[t] # <<>> /\ args[t] \in Args
      /\ Effect(t, m) /\ closed' \in LinksAfter(t, m)
      /\ held' = [held EXCEPT ![t] = 0]
      /\ todo' = [todo EXCEPT ![t] = Tail(@)]
      /\ args' = IF Len(todo[t]) = 1 THEN [args EXCEPT ![t] = NoArgs] ELSE args
  BY <1>1 DEF Act, TypeOK
<1>3. /\ m \in Methods /\ m = todo[t][1] /\ 1 \in 1 .. Len(todo[t])
      /\ Tail(todo[t]) \in Seq(Methods)
      /\ Len(Tail(todo[t])) = Len(todo[t]) - 1
      /\ \A k \in 1 .. Len(Tail(todo[t])) :
            k + 1 \in 1 .. Len(todo[t]) /\ Tail(todo[t])[k] = todo[t][k + 1]
  BY <1>2, FirstMethod
<1>4. Ready(m, args[t])
  BY <1>1, <1>3 DEF TodoInv
<1>5. Tables
  BY <1>1 DEF TypeOK, Tables
<1>6. Tables'
  BY <1>2, <1>3, <1>4, <1>5, EffectStep
<1> HIDE DEF m
<1>7. TypeOK'
  <2>1. todo' \in [Threads -> Seq(Methods)]
    BY <1>1, <1>2, <1>3 DEF TypeOK
  <2>2. args' \in [Threads -> Args]
    BY <1>1, <1>2 DEF TypeOK, Args, NoArgs
  <2>3. held' \in [Threads -> 0 .. 2]
    BY <1>1, <1>2 DEF TypeOK
  <2>4. closed' \subseteq Links
    <3>1. t \in Links \/ m = "sendToServerUsers"
      BY <1>1, <1>3 DEF TodoInv, Threads
    <3> QED
      BY <1>1, <1>2, <3>1 DEF TypeOK, LinksAfter
  <2> QED
    BY <1>6, <2>1, <2>2, <2>3, <2>4 DEF Tables, TypeOK
<1>8. TodoInv'
  <2> SUFFICES ASSUME NEW o \in Threads, NEW k \in 1 .. Len(todo'[o])
               PROVE  /\ Ready(todo'[o][k], args'[o])
                      /\ o \in Clients => todo'[o][k] = "sendToServerUsers"
    BY DEF TodoInv
  <2>1. CASE o # t
    BY <1>1, <1>2, <2>1 DEF TypeOK, TodoInv
  <2>2. CASE o = t
    <3>1. todo'[o] = Tail(todo[t])
      BY <1>1, <1>2, <2>2 DEF TypeOK
    <3>2. k + 1 \in 1 .. Len(todo[t]) /\ todo'[o][k] = todo[t][k + 1]
      BY <1>3, <3>1
    <3>3. Len(todo[t]) # 1
      BY <1>3, <3>1
    <3>4. args'[o] = args[t]
      BY <1>2, <2>2, <3>3
    <3> QED
      BY <1>1, <2>2, <3>2, <3>4 DEF TodoInv
  <2> QED
    BY <2>1, <2>2
<1>9. HeldInv'
  BY <1>1, <1>2 DEF TypeOK, HeldInv
<1> QED
  BY <1>7, <1>8, <1>9 DEF IInv

-----------------------------------------------------------------------------
(* An instruction arrives. *)

LEMMA BeginStep ==
    ASSUME IInv, NEW t \in Threads, NEW ms \in Seq(Methods), NEW a \in Args,
           \A k \in 1 .. Len(ms) : /\ Ready(ms[k], a)
                                   /\ t \in Clients => ms[k] = "sendToServerUsers",
           Begin(t, ms, a)
    PROVE  IInv'
<1>1. TypeOK /\ TodoInv /\ HeldInv
  BY DEF IInv
<1>2. /\ status = "running" /\ todo[t] = <<>>
      /\ todo' = [todo EXCEPT ![t] = ms]
      /\ args' = [args EXCEPT ![t] = a]
      /\ UNCHANGED <<tables, held, closed, status>>
  BY DEF Begin
<1>3. TypeOK'
  BY <1>1, <1>2 DEF TypeOK, tables, users, zones, servers
<1>4. TodoInv'
  BY <1>1, <1>2 DEF TypeOK, TodoInv
<1>5. HeldInv'
  BY <1>1, <1>2 DEF TypeOK, HeldInv
<1> QED
  BY <1>3, <1>4, <1>5 DEF IInv

LEMMA FromControlStep == ASSUME IInv, NEW t \in Links, FromControl(t) PROVE IInv'
<1>0. t \in Threads /\ t \notin Clients
  BY ThreadsAssumption DEF Threads
<1>1. ASSUME NEW z \in Zones \cup {None}, NEW s \in Servers \cup {None},
             SetZoneToServerRcvd(t, z, s)
      PROVE  IInv'
  <2> DEFINE sm == IF s # None THEN <<"addServer", "sendAnswer">> ELSE <<>>
             zm == IF z # None THEN <<"addZone">> ELSE <<>>
             tm == <<"startZoneToServerTransfer", "endZoneToServerTransfer">>
             ms == sm \o zm \o tm
             a == [NoArgs EXCEPT !.zone = z, !.server = s]
  <2>1. a \in Args /\ a.zone = z /\ a.server = s
    BY DEF NoArgs, Args
  <2>2. /\ sm \in Seq(Methods) /\ zm \in Seq(Methods) /\ tm \in Seq(Methods)
        /\ \A k \in 1 .. Len(sm) : sm[k] \in {"addServer", "sendAnswer"} /\ s # None
        /\ \A k \in 1 .. Len(zm) : zm[k] = "addZone" /\ z # None
        /\ \A k \in 1 .. Len(tm) : tm[k] \in {"startZoneToServerTransfer",
                                              "endZoneToServerTransfer"}
    <3>1. /\ <<"addServer", "sendAnswer">> \in Seq(Methods) /\ <<"addZone">> \in Seq(Methods)
          /\ <<>> \in Seq(Methods) /\ tm \in Seq(Methods)
          /\ \A k \in 1 .. Len(<<"addServer", "sendAnswer">>) :
                <<"addServer", "sendAnswer">>[k] \in {"addServer", "sendAnswer"}
          /\ \A k \in 1 .. Len(<<"addZone">>) : <<"addZone">>[k] = "addZone"
          /\ \A k \in 1 .. Len(<<>>) : FALSE
      BY DEF Methods
    <3>2. \A k \in 1 .. Len(tm) : tm[k] \in {"startZoneToServerTransfer",
                                              "endZoneToServerTransfer"}
      OBVIOUS
    <3>3. sm \in Seq(Methods) /\ \A k \in 1 .. Len(sm) : sm[k] \in {"addServer", "sendAnswer"} /\ s # None
      BY <3>1
    <3>4. zm \in Seq(Methods) /\ \A k \in 1 .. Len(zm) : zm[k] = "addZone" /\ z # None
      BY <3>1
    <3> QED
      BY <3>1, <3>2, <3>3, <3>4
  <2>3. Begin(t, ms, a)
    BY <1>1 DEF SetZoneToServerRcvd
  <2> HIDE DEF sm, zm, tm, a
  <2>4. ms \in Seq(Methods)
    BY <2>2, ConcatProperties
  <2>5. \A k \in 1 .. Len(ms) :
           \/ ms[k] \in {"addServer", "sendAnswer"} /\ s # None
           \/ ms[k] = "addZone" /\ z # None
           \/ ms[k] \in {"startZoneToServerTransfer", "endZoneToServerTransfer"}
    <3>1. /\ sm \o zm \in Seq(Methods)
          /\ Len(sm \o zm) = Len(sm) + Len(zm)
          /\ \A k \in 1 .. Len(sm \o zm) :
                (sm \o zm)[k] = IF k <= Len(sm) THEN sm[k] ELSE zm[k - Len(sm)]
      BY <2>2, ConcatProperties
    <3>2. /\ Len(ms) = Len(sm \o zm) + Len(tm)
          /\ \A k \in 1 .. Len(ms) :
                ms[k] = IF k <= Len(sm \o zm) THEN (sm \o zm)[k]
                        ELSE tm[k - Len(sm \o zm)]
      BY <2>2, <3>1, ConcatProperties
    <3>3. Len(sm) \in Nat /\ Len(zm) \in Nat /\ Len(tm) \in Nat
      BY <2>2, LenProperties
    <3> HIDE DEF ms
    <3> TAKE k \in 1 .. Len(ms)
    <3>4. CASE k <= Len(sm)
      BY <2>2, <3>1, <3>2, <3>3, <3>4
    <3>5. CASE k > Len(sm) /\ k <= Len(sm) + Len(zm)
      <4>1. k - Len(sm) \in 1 .. Len(zm)
        BY <3>3, <3>5
      <4>2. ms[k] = zm[k - Len(sm)]
        BY <3>1, <3>2, <3>3, <3>5
      <4> QED
        BY <2>2, <4>1, <4>2
    <3>6. CASE k > Len(sm) + Len(zm)
      <4>1. k - (Len(sm) + Len(zm)) \in 1 .. Len(tm)
        BY <3>1, <3>2, <3>3, <3>6
      <4>2. ms[k] = tm[k - (Len(sm) + Len(zm))]
        BY <3>1, <3>2, <3>3, <3>6
      <4> QED
        BY <2>2, <4>1, <4>2
    <3> QED
      BY <3>3, <3>4, <3>5, <3>6
  <2> HIDE DEF ms
  <2>6. \A k \in 1 .. Len(ms) : Ready(ms[k], a)
    BY <2>1, <2>5 DEF Ready
  <2> QED
    BY <1>0, <2>1, <2>3, <2>4, <2>6, BeginStep
<1>2. ASSUME NEW s \in Servers, GetServerIpRvcd(t, s) PROVE IInv'
  <2> DEFINE a == [NoArgs EXCEPT !.server = s]
  <2>1. a \in Args /\ a.server = s
    BY DEF NoArgs, Args
  <2>2. <<"connect", "connectServer">> \in Seq(Methods)
    BY DEF Methods
  <2>3. Begin(t, <<"connect", "connectServer">>, a)
    BY <1>2 DEF GetServerIpRvcd
  <2> HIDE DEF a
  <2>4. \A k \in 1 .. Len(<<"connect", "connectServer">>) : Ready(<<"connect", "connectServer">>[k], a)
    BY <2>1 DEF Ready
  <2> QED
    BY <1>0, <2>1, <2>2, <2>3, <2>4, BeginStep
<1>3. ASSUME NEW u \in Users, NEW tok \in Tokens, NEW z \in Zones, AddUserRcvd(t, u, tok, z)
      PROVE  IInv'
  <2> DEFINE a == [NoArgs EXCEPT !.user = u, !.token = tok, !.zone = z]
             ms == <<"addUser", "setUserToZone">>
  <2>1. a \in Args /\ a.user = u /\ a.zone = z
    BY DEF NoArgs, Args
  <2>2. ms \in Seq(Methods)
    BY DEF Methods
  <2>3. Begin(t, ms, a)
    BY <1>3 DEF AddUserRcvd
  <2> HIDE DEF a
  <2>4. \A k \in 1 .. Len(ms) : Ready(ms[k], a)
    BY <2>1 DEF Ready
  <2> QED
    BY <1>0, <2>1, <2>2, <2>3, <2>4, BeginStep
<1>4. ASSUME NEW u \in Users, DelUserRcvd(t, u) PROVE IInv'
  <2> DEFINE a == [NoArgs EXCEPT !.user = u]
  <2>1. a \in Args /\ a.user = u
    BY DEF NoArgs, Args
  <2>2. <<"delUser">> \in Seq(Methods)
    BY DEF Methods
  <2>3. Begin(t, <<"delUser">>, a)
    BY <1>4 DEF DelUserRcvd
  <2> HIDE DEF a
  <2>4. \A k \in 1 .. Len(<<"delUser">>) : Ready(<<"delUser">>[k], a)
    BY <2>1 DEF Ready
  <2> QED
    BY <1>0, <2>1, <2>2, <2>3, <2>4, BeginStep
<1> QED
  BY <1>1, <1>2, <1>3, <1>4, Zenon DEF FromControl

LEMMA FromClientStep == ASSUME IInv, NEW t \in Clients, FromClient(t) PROVE IInv'
<1>1. t \in Threads /\ NoArgs \in Args /\ <<"sendToServerUsers">> \in Seq(Methods)
  BY DEF Threads, NoArgs, Args, Methods
<1>2. \A k \in 1 .. Len(<<"sendToServerUsers">>) :
         /\ Ready(<<"sendToServerUsers">>[k], NoArgs)
         /\ <<"sendToServerUsers">>[k] = "sendToServerUsers"
  BY DEF Ready
<1>3. Begin(t, <<"sendToServerUsers">>, NoArgs)
  BY DEF FromClient
<1> QED
  BY <1>1, <1>2, <1>3, BeginStep

LEMMA NextIInv == IInv /\ [Next]_vars => IInv'
<1> SUFFICES ASSUME IInv, [Next]_vars PROVE IInv'
  OBVIOUS
<1>1. ASSUME NEW t \in Links, FromControl(t) PROVE IInv'
  BY <1>1, FromControlStep
<1>2. ASSUME NEW t \in Clients, FromClient(t) PROVE IInv'
  BY <1>2, FromClientStep
<1>3. ASSUME NEW t \in Threads, Working(t) PROVE IInv'
  BY <1>3, AcquireStep, ActStep DEF Working
<1>4. ASSUME NEW t \in Links, LinkCloses(t) PROVE IInv'
  <2>1. TypeOK'
    BY <1>4 DEF LinkCloses, IInv, TypeOK, tables, users, zones, servers
  <2>2. TodoInv' /\ HeldInv'
    BY <1>4 DEF LinkCloses, IInv, TodoInv, HeldInv
  <2> QED
    BY <2>1, <2>2 DEF IInv
<1>5. CASE UNCHANGED vars
  <2>1. TypeOK'
    BY <1>5 DEF IInv, TypeOK, vars, tables, users, zones, servers
  <2>2. TodoInv'
    BY <1>5 DEF IInv, TodoInv, vars
  <2>3. HeldInv'
    BY <1>5 DEF IInv, HeldInv, vars
  <2> QED
    BY <2>1, <2>2, <2>3 DEF IInv
<1> QED
  BY <1>1, <1>2, <1>3, <1>4, <1>5 DEF Next

(* IInv is an invariant of the router.                                     *)
LEMMA Invariant == Spec => []IInv
BY InitIInv, NextIInv, PTL DEF Spec

-----------------------------------------------------------------------------
(* The theorems. *)

(* The tables hold ids of the instructions, never -1: SetZoneToServerRcvd  *)
(* leaves out the methods it has no id for.                                *)
THEOREM TablesTyped == Spec => []TypeOK
<1>1. IInv => TypeOK
  BY DEF IInv
<1> QED
  BY <1>1, Invariant, PTL

-----------------------------------------------------------------------------
(* No thread waits for ever for a mutex. *)

Waits(t, mutex) ==
    /\ todo[t] # <<>>
    /\ held[t] < Len(Locks(Head(todo[t])))
    /\ Locks(Head(todo[t]))[held[t] + 1] = mutex

(* t has its mutexes, or the next one it wants is free.                    *)
CanMove(t) ==
    /\ todo[t] # <<>>
    /\ \/ held[t] = Len(Locks(Head(todo[t])))
       \/ \E mutex \in Mutexes : /\ Waits(t, mutex)
                                 /\ \A o \in Threads : ~Has(o, mutex)

(* As long as any thread has an instruction to carry out, one of those     *)
(* threads is not waiting for another's mutex.                             *)
SomeThreadCanMove ==
    (\E t \in Threads : todo[t] # <<>>) => \E t \in Threads : CanMove(t)

(* Who has a mutex and waits, waits for one later in the order.            *)
LEMMA WaitsInOrder ==
    ASSUME IInv, NEW t \in Threads, NEW mutex \in Mutexes, Has(t, mutex)
    PROVE  \/ CanMove(t)
           \/ mutex = "users" /\ Waits(t, "zones")
           \/ mutex = "zones" /\ Waits(t, "servers")
<1> DEFINE L == Locks(Head(todo[t]))
<1>1. PICK k \in 1 .. held[t] : L[k] = mutex
  BY DEF Has
<1>2. held[t] \in 0 .. 2 /\ todo[t] \in Seq(Methods)
  BY DEF IInv, TypeOK
<1>3. todo[t] # <<>> /\ held[t] <= Len(L)
  BY <1>1, <1>2 DEF IInv, HeldInv
<1>4. Head(todo[t]) \in Methods
  BY <1>2, <1>3, FirstMethod
<1>5. /\ Len(L) \in 0 .. 2
      /\ Len(L) = 2 => L = <<"users", "zones">> \/ L = <<"zones", "servers">>
  BY <1>4, LocksInOrder
<1> HIDE DEF L
<1>6. CASE held[t] = Len(L)
  BY <1>3, <1>6 DEF CanMove, L
<1>7. CASE held[t] # Len(L)
  <2>1. held[t] = 1 /\ Len(L) = 2 /\ k = 1
    <3>1. \A h \in 0 .. 2, n \in 0 .. 2 : \A j \in 1 .. h :
             h <= n /\ h # n => h = 1 /\ n = 2 /\ j = 1
      OBVIOUS
    <3> QED
      BY <1>2, <1>3, <1>5, <1>7, <3>1, Zenon
  <2>2. \/ mutex = "users" /\ L[2] = "zones"
        \/ mutex = "zones" /\ L[2] = "servers"
    BY <1>1, <1>5, <2>1
  <2> QED
    BY <1>3, <2>1, <2>2 DEF Waits, L
<1> QED
  BY <1>6, <1>7

(* Whatever mutex a thread waits for, it is free, or one of the threads    *)
(* that have it, or that have the next one, can move.                      *)
LEMMA WaitEnds ==
    ASSUME IInv, NEW t \in Threads, NEW mutex \in Mutexes, Waits(t, mutex)
    PROVE  \E o \in Threads : CanMove(o)
<1>1. ASSUME NEW o \in Threads, Waits(o, "servers") PROVE \E p \in Threads : CanMove(p)
  <2>1. CASE \A p \in Threads : ~Has(p, "servers")
    BY <1>1, <2>1 DEF CanMove, Mutexes, Waits
  <2>2. CASE \E p \in Threads : Has(p, "servers")
    BY <2>2, WaitsInOrder DEF Mutexes
  <2> QED
    BY <2>1, <2>2
<1>2. ASSUME NEW o \in Threads, Waits(o, "zones") PROVE \E p \in Threads : CanMove(p)
  <2>1. CASE \A p \in Threads : ~Has(p, "zones")
    BY <1>2, <2>1 DEF CanMove, Mutexes, Waits
  <2>2. CASE \E p \in Threads : Has(p, "zones")
    BY <1>1, <2>2, WaitsInOrder DEF Mutexes
  <2> QED
    BY <2>1, <2>2
<1>3. ASSUME NEW o \in Threads, Waits(o, "users") PROVE \E p \in Threads : CanMove(p)
  <2>1. CASE \A p \in Threads : ~Has(p, "users")
    BY <1>3, <2>1 DEF CanMove, Mutexes, Waits
  <2>2. CASE \E p \in Threads : Has(p, "users")
    BY <1>2, <2>2, WaitsInOrder DEF Mutexes
  <2> QED
    BY <2>1, <2>2
<1> QED
  BY <1>1, <1>2, <1>3 DEF Mutexes

(* The lock_guards of the methods take their mutexes in one order, so the  *)
(* threads never all wait for each other: what fairness then needs to      *)
(* carry every instruction out.                                            *)
THEOREM NoCircularWait == Spec => []SomeThreadCanMove
<1>1. IInv => SomeThreadCanMove
  <2> SUFFICES ASSUME IInv, NEW t \in Threads, todo[t] # <<>>
               PROVE  \E o \in Threads : CanMove(o)
    BY DEF SomeThreadCanMove
  <2>1. held[t] \in 0 .. 2 /\ todo[t] \in Seq(Methods)
    BY DEF IInv, TypeOK
  <2>2. Head(todo[t]) \in Methods
    BY <2>1, FirstMethod
  <2> DEFINE L == Locks(Head(todo[t]))
  <2>3. Len(L) \in 0 .. 2 /\ \A k \in 1 .. Len(L) : L[k] \in Mutexes
    BY <2>2, LocksInOrder
  <2>4. held[t] > 0 => held[t] <= Len(L)
    BY DEF IInv, HeldInv
  <2> HIDE DEF L
  <2>5. CASE held[t] = Len(L)
    BY <2>5 DEF CanMove, L
  <2>6. CASE held[t] # Len(L)
    <3>1. held[t] < Len(L) /\ L[held[t] + 1] \in Mutexes
      BY <2>1, <2>3, <2>4, <2>6
    <3>2. Waits(t, L[held[t] + 1])
      BY <3>1 DEF Waits, L
    <3> QED
      BY <3>1, <3>2, WaitEnds
  <2> QED
    BY <2>5, <2>6
<1> QED
  BY <1>1, Invariant, PTL
=============================================================================
