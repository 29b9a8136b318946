------------------------------- MODULE Control -------------------------------
(***************************************************************************)
(* The control server (servcontrol): it gives every zone to a game server, *)
(* then asks the game servers for their loads again and again and orders   *)
(* zones from the most to the least loaded one.  The main thread runs that *)
(* program; listener threads run ServerLoadRcvd, NewUserRcvd and           *)
(* DisconnectUserRcvd beside it.                                           *)
(*                                                                         *)
(* Of a game server only what Control sees is here: it starts the zones it *)
(* is given and answers a request with one message for each of them.  Its  *)
(* handlers of RemoveZone and GetZone do nothing (servjuego InstControl).  *)
(* A load is chosen when its message is handled; nobody looks earlier.     *)
(***************************************************************************)
EXTENDS Integers, FiniteSets, SequencesExt

CONSTANTS
    NServers,           \* game servers Control is started for, ids from 0
    NZones,             \* NZONES
    One,                \* a load of 1.0, in the units of Loads
    Loads,              \* the loads of a zone, between 0 and One
    NoServer,
    Router,             \* the link to the router, beside those to the servers
    MaxComing,          \* bound: answers of a server that are under way
    MaxTotal,           \* bound: a total that a race can still build on
    ConnectMayFail,     \* may connect() fail for a server or the router?
    LinkMayDrop         \* may a link go offline afterwards?

ASSUME CountsAssumption == NServers \in Nat \ {0} /\ NZones \in Nat \ {0}
ASSUME LoadsAssumption == One \in Nat \ {0} /\ Loads \subseteq 0 .. One
ASSUME RouterAssumption == Router \notin 0 .. NServers - 1
ASSUME FlagsAssumption == ConnectMayFail \in BOOLEAN /\ LinkMayDrop \in BOOLEAN

Ids   == 0 .. NServers - 1
Zones == 0 .. NZones - 1
Links == Ids \cup {Router}

VARIABLES
    servers,        \* the list of Server objects, by id
    online,         \* online[l]: isLinkOnline() of a link
    zoneServer,     \* zoneServer[z]: NoServer is what the heap held before
    distribution,   \* distribution[s]: the zones in load.distribution
    load,           \* load[s][z]: the load in the ZoneLoad of zone z
    totalLoad,      \* totalLoad[s]: load.totalLoad
    mask,           \* recievedConnectionMask, as the set of its 1 bits
    timeout,        \* the flag the SIGALRM handler clears
    pc,             \* where main is
    at,             \* main's loop variable
    zoneIndex, zonesRestants,   \* locals of zoneAssignment
    changedZonePosition,        \* local of balance
    coming,         \* coming[s]: the answers of s that are under way
    status,         \* "running", "crashed" or "undefined"
    address,        \* the order of the Server objects in memory
    managed,        \* managed[s]: the zones the game server s runs
    heard,          \* the servers whose last answer of this round is handled
    first           \* is it the first round?

tables  == <<zoneServer, distribution, managed>>
figures == <<load, totalLoad, coming, heard>>
locals  == <<zoneIndex, zonesRestants, changedZonePosition>>
watch   == <<mask, timeout, first>>
vars    == <<servers, online, tables, figures, watch, pc, at, locals,
             status, address>>

Places == {"connect", "front", "assign", "ask", "test", "asleep", "sort",
           "balance", "moving", "resting"}
Answers == [zone : Zones, remaining : 0 .. NZones - 1, stale : BOOLEAN]

(* What a total holds before anything is written to it. *)
Unset == {0, 2 * One}

Init ==
    /\ servers = <<>>
    /\ online = [l \in Links |-> FALSE]
    /\ zoneServer = [z \in Zones |-> NoServer]
    /\ distribution = [s \in Ids |-> <<>>]
    /\ load = [s \in Ids |-> [z \in Zones |-> 0]]
    /\ totalLoad \in [Ids -> Unset]
    /\ mask = {}
    /\ timeout = TRUE
    /\ pc = "connect"
    /\ at = 0
    /\ zoneIndex = 0 /\ zonesRestants = 0
    /\ coming = [s \in Ids |-> <<>>]
    /\ changedZonePosition = -1
    /\ status = "running"
    /\ address \in {f \in [Ids -> Ids] : \A s, t \in Ids : f[s] = f[t] => s = t}
    /\ managed = [s \in Ids |-> {}]
    /\ heard = {}
    /\ first = TRUE

Goto(place, position) == pc' = place /\ at' = position

Listed == {servers[k] : k \in DOMAIN servers}
front  == servers[1]
back   == servers[Len(servers)]

(* Some numbers in their order: the ids of a loop, the keys of a map. *)
Ascending(S) ==
    [k \in 1 .. Cardinality(S) |-> CHOOSE x \in S : Cardinality({y \in S : y <= x}) = k]

-----------------------------------------------------------------------------
(* initializeConnectionsAndServerList: numberServers is lowered for every  *)
(* server that cannot be reached, and the others keep their ids.           *)

numberServers == Len(servers)
modZonesPerServer == NZones % numberServers

Connect ==
    /\ pc = "connect"
    /\ \E up \in SUBSET Links :
         /\ ConnectMayFail \/ up = Links
         /\ online' = [l \in Links |-> l \in up]
         /\ servers' = Ascending(up \ {Router})
    /\ zonesRestants' = NZones
    /\ IF servers' = <<>>           \* NZONES % 0
         THEN status' = "crashed" /\ UNCHANGED zoneIndex
         ELSE zoneIndex' = NZones % Len(servers') /\ UNCHANGED status
    /\ Goto("front", 0)
    /\ UNCHANGED <<tables, figures, watch, changedZonePosition, address>>

(* Variant of GiveZone: the table gets the front server for every zone.    *)
GiveZoneOfFront(s, z) ==
    /\ zoneServer' = [zoneServer EXCEPT ![z] = front]
    /\ distribution' = [distribution EXCEPT ![s] = Append(@, z)]
    /\ totalLoad' = [totalLoad EXCEPT ![s] = 0]
    /\ managed' = [managed EXCEPT ![s] = @ \cup {z}]
    /\ UNCHANGED <<load, coming, heard>>

(* SetZoneToServerSend to s, and the tables of Control; the router is not  *)
(* told (those lines are commented out).                                   *)
GiveZone(s, z) ==
    /\ zoneServer' = [zoneServer EXCEPT ![z] = s]
    /\ distribution' = [distribution EXCEPT ![s] = Append(@, z)]
    /\ totalLoad' = [totalLoad EXCEPT ![s] = 0]
    /\ managed' = [managed EXCEPT ![s] = @ \cup {z}]
    /\ UNCHANGED <<load, coming, heard>>

NoZoneGiven == UNCHANGED <<tables, figures>>

(* Variant of StartRounds, for a mutant: one bit too many. *)
StartRoundsOneMore ==
    /\ Goto("ask", 1)
    /\ mask' = 0 .. numberServers
    /\ zoneIndex' = 0 /\ zonesRestants' = 0
    /\ UNCHANGED <<changedZonePosition, timeout, first>>

(* zoneAssignment ends; the mask is set, this once. *)
StartRounds ==
    /\ Goto("ask", 1)
    /\ mask' = 0 .. numberServers - 1
    /\ zoneIndex' = 0 /\ zonesRestants' = 0
    /\ UNCHANGED <<changedZonePosition, timeout, first>>

(* for (i = 0; i < modZonesPerServer; ++i), all for the front server. *)
AssignFront ==
    /\ pc = "front"
    /\ \/ /\ at < modZonesPerServer
          /\ pc' = pc /\ at' = at + 1
          /\ \/ /\ online[front]
                /\ GiveZone(front, at)
                /\ zonesRestants' = zonesRestants - 1
             \/ ~online[front] /\ NoZoneGiven /\ UNCHANGED zonesRestants
          /\ UNCHANGED <<zoneIndex, changedZonePosition, watch>>
       \/ /\ at = modZonesPerServer /\ zonesRestants > 0
          /\ Goto("assign", 1)
          /\ NoZoneGiven /\ UNCHANGED <<locals, watch>>
       \/ /\ at = modZonesPerServer /\ zonesRestants = 0
          /\ StartRounds
          /\ NoZoneGiven
    /\ UNCHANGED <<servers, online, status, address>>

(* One server of the for loop inside while (zonesRestants > 0). *)
Assign ==
    LET s == servers[at]
        last == at = Len(servers)
    IN
    /\ pc = "assign"
    /\ \/ /\ ~online[s]
          /\ at' = IF last THEN 1 ELSE at + 1
          /\ pc' = pc
          /\ NoZoneGiven /\ UNCHANGED <<locals, watch, status>>
       \/ /\ online[s] /\ zoneIndex = NZones     \* zoneServer[NZONES]
          /\ status' = "undefined"
          /\ NoZoneGiven /\ UNCHANGED <<pc, at, locals, watch>>
       \/ /\ online[s] /\ zoneIndex < NZones
          /\ GiveZone(s, zoneIndex)
          /\ \/ /\ zoneIndex + 1 = NZones
                /\ StartRounds /\ UNCHANGED status
             \/ /\ zoneIndex + 1 < NZones
                /\ zoneIndex' = zoneIndex + 1
                /\ zonesRestants' = zonesRestants - 1
                /\ at' = IF last THEN 1 ELSE at + 1
                /\ pc' = pc
                /\ UNCHANGED <<changedZonePosition, watch, status>>
    /\ UNCHANGED <<servers, online, address>>

-----------------------------------------------------------------------------
(* ServerLoadRcvd::exec. *)

(* Variants of Handle: any answer clears the bit; the total is replaced;   *)
(* the bit is counted from 1.                                              *)
HandleAnyClears(s, msg, value) ==
    /\ load' = [load EXCEPT ![s][msg.zone] = value]
    /\ totalLoad' = [totalLoad EXCEPT ![s] = @ + value]
    /\ mask' = mask \ {s}
    /\ heard' = IF msg.remaining = 0 /\ ~msg.stale THEN heard \cup {s} ELSE heard

HandleReplaces(s, msg, value) ==
    /\ load' = [load EXCEPT ![s][msg.zone] = value]
    /\ totalLoad' = [totalLoad EXCEPT ![s] = value]
    /\ mask' = IF msg.remaining = 0 THEN mask \ {s} ELSE mask
    /\ heard' = IF msg.remaining = 0 /\ ~msg.stale THEN heard \cup {s} ELSE heard

HandleShifts(s, msg, value) ==
    /\ load' = [load EXCEPT ![s][msg.zone] = value]
    /\ totalLoad' = [totalLoad EXCEPT ![s] = @ + value]
    /\ mask' = IF msg.remaining = 0 THEN mask \ {s + 1} ELSE mask
    /\ heard' = IF msg.remaining = 0 /\ ~msg.stale THEN heard \cup {s} ELSE heard

Handle(s, msg, value) ==
    LET known == \E k \in DOMAIN distribution[s] : distribution[s][k] = msg.zone IN
    /\ load' = IF known THEN [load EXCEPT ![s][msg.zone] = value] ELSE load
    /\ totalLoad' = IF known THEN [totalLoad EXCEPT ![s] = @ + value] ELSE totalLoad
    /\ mask' = IF msg.remaining = 0 THEN mask \ {s} ELSE mask
    /\ heard' = IF msg.remaining = 0 /\ ~msg.stale THEN heard \cup {s} ELSE heard

ReceiveLoad(s) ==
    /\ coming[s] # <<>>
    /\ \E value \in Loads : Handle(s, Head(coming[s]), value)
    /\ coming' = [coming EXCEPT ![s] = Tail(@)]
    /\ UNCHANGED <<servers, online, tables, timeout, first, pc, at, locals,
                   status, address>>

(* The handler walks the list while main sorts it, and meets a chain from  *)
(* which the node of s is absent.                                          *)
MissServer(s) ==
    /\ coming[s] # <<>>
    /\ pc \in {"sort", "balance", "moving"}
    /\ coming' = [coming EXCEPT ![s] = Tail(@)]
    /\ UNCHANGED <<servers, online, tables, load, totalLoad, heard, watch, pc,
                   at, locals, status, address>>

-----------------------------------------------------------------------------
(* The loop of main. *)

(* Variant of AnswersOf: remaining-- in place of --remaining. *)
AnswersCountedLate(s) ==
    LET zones == Ascending(managed[s]) IN
    [k \in DOMAIN zones |->
        [zone |-> zones[k], remaining |-> Len(zones) - k + 1, stale |-> FALSE]]

(* The game server answers with a message for each of its zones, in the    *)
(* order of its map; what was under way is of an earlier round.            *)
AnswersOf(s) ==
    LET zones == Ascending(managed[s]) IN
    [k \in DOMAIN zones |->
        [zone |-> zones[k], remaining |-> Len(zones) - k, stale |-> FALSE]]

Request(s, underWay) ==
    coming' = [coming EXCEPT ![s] =
        [k \in DOMAIN underWay |-> [underWay[k] EXCEPT !.stale = TRUE]] \o AnswersOf(s)]

(* One server of the for loop: its total is cleared and it is asked.  main *)
(* clears without recievedMutex, so a handler that has read the total      *)
(* before writes its sum over the zero.                                    *)
Ask ==
    LET s == servers[at] IN
    /\ pc = "ask"
    /\ \/ /\ at > Len(servers)
          /\ Goto("test", 0)
          /\ UNCHANGED <<figures, mask>>
       \/ /\ at <= Len(servers) /\ ~online[s]
          /\ Goto("ask", at + 1)
          /\ UNCHANGED <<figures, mask>>
       \/ /\ at <= Len(servers) /\ online[s]
          /\ Len(coming[s]) + Cardinality(managed[s]) <= MaxComing
          /\ totalLoad' = [totalLoad EXCEPT ![s] = 0]
          /\ Request(s, coming[s])
          /\ heard' = heard \ {s}
          /\ Goto("ask", at + 1)
          /\ UNCHANGED <<load, mask>>
       \/ /\ at <= Len(servers) /\ online[s]
          /\ coming[s] # <<>> /\ totalLoad[s] <= MaxTotal
          /\ Len(coming[s]) + Cardinality(managed[s]) <= MaxComing
          /\ \E value \in Loads :
               Handle(s, [Head(coming[s]) EXCEPT !.stale = TRUE], value)
          /\ Request(s, Tail(coming[s]))
          /\ Goto("ask", at + 1)
    /\ UNCHANGED <<servers, online, tables, timeout, first, locals, status, address>>

(* Variant of Test: the loop does not look at timeout. *)
TestMaskOnly ==
    /\ pc = "test"
    /\ Goto(IF mask # {} THEN "asleep" ELSE "sort", 0)
    /\ UNCHANGED <<servers, online, tables, figures, watch, locals, status,
                   address>>

(* while (recievedConnectionMask && timeout) sleep(50); *)
Test ==
    /\ pc = "test"
    /\ Goto(IF mask # {} /\ timeout THEN "asleep" ELSE "sort", 0)
    /\ UNCHANGED <<servers, online, tables, figures, watch, locals, status, address>>

(* SIGALRM, WAITING_RESPONSE_TIME after the requests. *)
Alarm ==
    /\ pc \in {"test", "asleep"}
    /\ timeout
    /\ timeout' = FALSE
    /\ UNCHANGED <<servers, online, tables, figures, mask, first, pc, at,
                   locals, status, address>>

(* No answer ends the sleep: the signal does, or the 50 seconds if it came *)
(* too early.                                                              *)
Wake ==
    /\ pc = "asleep"
    /\ ~timeout
    /\ Goto("test", 0)
    /\ UNCHANGED <<servers, online, tables, figures, watch, locals, status, address>>

(* list::sort, which keeps the order of equal elements. *)
Sorted(key) ==
    LET Rank(k) == Cardinality({j \in DOMAIN servers :
                        \/ key[servers[j]] < key[servers[k]]
                        \/ key[servers[j]] = key[servers[k]] /\ j <= k})
    IN  [r \in DOMAIN servers |->
            servers[CHOOSE k \in DOMAIN servers : Rank(k) = r]]

Sort ==
    /\ pc = "sort"
    /\ servers' = Sorted(totalLoad)
    /\ Goto("balance", 0)
    /\ UNCHANGED <<online, tables, figures, watch, locals, status, address>>

(* getStDev() > minDev = 1.0, in integers: numberServers is at least 2. *)
SpreadAboveOne ==
    LET sum == MapThenSumSet(LAMBDA s : totalLoad[s], Listed)
        Square(s) == (numberServers * totalLoad[s] - sum) * (numberServers * totalLoad[s] - sum)
    IN  MapThenSumSet(Square, Listed)
            > (numberServers - 1) * numberServers * numberServers * One * One

(* The condition of the while loop of balance: the deviation counts from   *)
(* the second iteration on (standardDev = 2 before the first).             *)
MoreToMove ==
    /\ at = 0 \/ SpreadAboveOne
    /\ at < Len(servers)
    /\ Len(distribution[back]) # 1
    /\ back # front

(* posMinLoadZone: an index into distribution, -1 when no zone of the      *)
(* server has a load below 1.0.                                            *)
posMinLoadZone ==
    LET Of(k) == load[back][distribution[back][k]]
        below == {k \in DOMAIN distribution[back] : Of(k) < One}
    IN  IF below = {} THEN -1
        ELSE Min({k \in below : \A j \in below : Of(k) <= Of(j)}) - 1

(* One iteration, up to zoneChange.  RemoveZone goes to the back server,    *)
(* GetZone to the front one, whose handlers do nothing, and RouterChangeZone*)
(* to the router, each if its link is online; a write that fails is a Drop.*)
OrderMove ==
    /\ pc = "balance"
    /\ MoreToMove
    /\ changedZonePosition' = posMinLoadZone
    /\ Goto("moving", at)
    /\ UNCHANGED <<servers, online, tables, figures, watch, zoneIndex,
                   zonesRestants, status, address>>

(* ... and from there on: the table, and servers.sort() by pointer.        *)
WriteMove ==
    /\ pc = "moving"
    /\ \/ /\ changedZonePosition = -1          \* zoneServer[-1]
          /\ status' = "undefined"
          /\ UNCHANGED <<servers, zoneServer, pc, at, changedZonePosition>>
       \/ /\ changedZonePosition # -1
          /\ zoneServer' = [zoneServer EXCEPT ![changedZonePosition] = front]
          /\ servers' = Sorted(address)
          /\ changedZonePosition' = -1
          /\ Goto("balance", at + 1)
          /\ UNCHANGED status
    /\ UNCHANGED <<online, distribution, managed, figures, watch, zoneIndex,
                   zonesRestants, address>>

EndBalance ==
    /\ pc = "balance"
    /\ ~MoreToMove
    /\ Goto("resting", 0)
    /\ timeout' = TRUE
    /\ UNCHANGED <<servers, online, tables, figures, mask, first, locals,
                   status, address>>

(* SIGALRM, REBALANCING_TIME later. *)
Rebalance ==
    /\ pc = "resting"
    /\ Goto("ask", 1)
    /\ first' = FALSE
    /\ UNCHANGED <<servers, online, tables, figures, mask, timeout, locals,
                   status, address>>

-----------------------------------------------------------------------------
(* A link goes offline; what was under way on it is lost. *)
Drop(l) ==
    /\ LinkMayDrop
    /\ online[l]
    /\ online' = [online EXCEPT ![l] = FALSE]
    /\ coming' = IF l = Router THEN coming ELSE [coming EXCEPT ![l] = <<>>]
    /\ UNCHANGED <<servers, tables, load, totalLoad, heard, watch, pc, at,
                   locals, status, address>>

(* Login has seen Control: main is in its loop. *)
Serving == pc \notin {"connect", "front", "assign"}

(* NewUserRcvd::exec for a user whose zone is z.  sendAnswer writes to an  *)
(* offline link as well, through a NULL ssl.                               *)
NewUser(z) ==
    /\ Serving
    /\ status' = IF zoneServer[z] = NoServer THEN "undefined"
                 ELSE IF online[Router] /\ online[zoneServer[z]] THEN status
                 ELSE "crashed"
    /\ UNCHANGED <<servers, online, tables, figures, watch, pc, at, locals,
                   address>>

(* DisconnectUserRcvd::exec tells the router and keeps nothing. *)
DisconnectUser ==
    /\ Serving
    /\ status' = IF online[Router] THEN status ELSE "crashed"
    /\ UNCHANGED <<servers, online, tables, figures, watch, pc, at, locals,
                   address>>

-----------------------------------------------------------------------------
Main ==
    \/ Connect \/ AssignFront \/ Assign
    \/ Ask \/ Test \/ Alarm \/ Wake \/ Sort
    \/ OrderMove \/ WriteMove \/ EndBalance \/ Rebalance

Next ==
    /\ status = "running"
    /\ \/ Main
       \/ \E s \in Ids : ReceiveLoad(s) \/ MissServer(s)
       \/ \E l \in Links : Drop(l)
       \/ \E z \in Zones : NewUser(z)
       \/ DisconnectUser

Spec == Init /\ [][Next]_vars

(* main is never kept from running, the alarms go off, and an answer that  *)
(* has been sent is handled or lost with its link.                         *)
FairSpec ==
    /\ Spec
    /\ WF_vars(status = "running" /\ Main)
    /\ WF_vars(status = "running" /\ Alarm)
    /\ \A s \in Ids : WF_vars(status = "running" /\ ReceiveLoad(s))

-----------------------------------------------------------------------------
(* Properties. *)

TypeOK ==
    /\ servers \in Seq(Ids) /\ Len(servers) = Cardinality(Listed)
    /\ online \in [Links -> BOOLEAN]
    /\ zoneServer \in [Zones -> Ids \cup {NoServer}]
    /\ distribution \in [Ids -> Seq(Zones)]
    /\ load \in [Ids -> [Zones -> Loads \cup {0}]]
    /\ totalLoad \in [Ids -> Nat]
    /\ mask \subseteq Ids /\ heard \subseteq Ids
    /\ timeout \in BOOLEAN /\ first \in BOOLEAN
    /\ pc \in Places /\ at \in Nat
    /\ zoneIndex \in 0 .. NZones /\ zonesRestants \in 0 .. NZones
    /\ changedZonePosition \in Nat \cup {-1}
    /\ coming \in [Ids -> Seq(Answers)]
    /\ status \in {"running", "crashed", "undefined"}
    /\ managed \in [Ids -> SUBSET Zones]

(* Once zoneAssignment is over and until balance moves one, a zone is in   *)
(* the distribution of exactly one server, the one zoneServer names; only  *)
(* the zones meant for the front of the list can be without, when that     *)
(* server went offline, and then they stay without for good.               *)
Holders(z) == {s \in Ids : \E k \in DOMAIN distribution[s] : distribution[s][k] = z}
AssignmentComplete ==
    first /\ pc \in {"ask", "test", "asleep", "sort"} =>
        \A z \in Zones :
            \/ Holders(z) = {zoneServer[z]}
            \/ /\ z < modZonesPerServer
               /\ Holders(z) = {} /\ zoneServer[z] = NoServer
               /\ \E s \in Listed : ~online[s]

(* While main waits with a bit set, the message that will clear it is      *)
(* under way, or the link of that server is down: nobody is waited for who *)
(* has nothing to say, but for the servers that got no zone because there  *)
(* are more of them than zones (execution.txt starts five for four zones). *)
WaitedAnswerIsComing ==
    pc \in {"test", "asleep"} =>
        \A i \in mask :
            \/ ~online[i]
            \/ \E k \in DOMAIN coming[i] : coming[i][k].remaining = 0
            \/ managed[i] = {} /\ NZones < numberServers

(* In the first round, the list is sorted and the zones are moved either   *)
(* after the timeout or with the loads of every server that can answer; in *)
(* later rounds the mask is empty and main waits for nobody                *)
(* (servjuego/instruccionesControl.txt:43-44: Control has to receive a     *)
(* datagram for every zone and waits until remainingZones is 0).           *)
HasTheLoads ==
    pc = "sort" /\ timeout =>
        \A s \in Listed : online[s] /\ managed[s] # {} => s \in heard
FirstRoundHasTheLoads == first => HasTheLoads

(* In the first round, once a server has given its last answer, its total  *)
(* is the sum of the loads of its zones, whatever the order the answers of *)
(* the servers came in.                                                    *)
FirstTotalsAreSums ==
    first => \A s \in heard :
        totalLoad[s] = MapThenSumSet(LAMBDA z : load[s][z], managed[s])

(* When the servers in the list are those the mask was made for, 0 .. n-1, *)
(* and all have given the answer with remainingZones 0, Control waits for  *)
(* none (servjuego/instruccionesControl.txt:44), however many were out of  *)
(* reach at the start, dropped or answered late.                           *)
AllAnsweredEndsTheWait ==
    Serving /\ heard = 0 .. numberServers - 1 => mask = {}

(* balance orders away a zone of the server it takes it from               *)
(* (Control.cpp:86, "we choose the least loaded zone of maxLoadServer").   *)
MovesAZoneOfTheSource ==
    pc = "balance" /\ MoreToMove /\ posMinLoadZone # -1 =>
        posMinLoadZone \in managed[back]

(* Load rounds go on for ever, unless the process is down or it had no     *)
(* server left to give its zones to, and then zoneAssignment never ends.   *)
Stuck ==
    \/ status # "running"
    \/ pc = "assign" /\ \A s \in Listed : ~online[s]
RoundsRecur == []<>(pc = "resting" \/ Stuck)
=============================================================================
