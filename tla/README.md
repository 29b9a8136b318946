# Formal models of pxc-prop-strikes-back

This directory holds TLA+ models of the servers of pxc-prop-strikes-back, the
TLC configurations that check them on small instances, and proofs that the TLA+
proof system checks for every instance. File and line references are to the
repository (`servlogin/src/LoginRequest.cpp:82`); PROJECT.json maps each
definition to the lines it models.

## 1. The system

A massively multiplayer game is split over processes that talk over TLS:

```
   client ──login──► Login server ──NewClient, ClientDisconnect──► Control server
     │                     ▲─────────── LoginOnline ───────────────────┤   ▲
     │                                                                 │   │ loads
     └──(connect)──► Router ◄── RouterNewUser, UserDisconnect, ────────┤   │
                        │       SetZoneToServer                        ▼   │
                        └────────────► Game servers ◄── SetZoneToServer, RemoveZone,
                                       (zones)          GetZone, ServerLoad
```

Every process links the library `conexion`: a connection has a listener thread
that reads a message, asks the process-wide factory for an object of its kind,
and calls the `exec` of that object, on that thread.

| Component | State | Operations | Interacts by |
|---|---|---|---|
| Login server (`servlogin`) | five tables of sessions, `nextFreeToken`, `usersConnected`, `loginMutex`, the link to Control | `LoginRequestRcvd::exec`, `LogoutRequestRcvd::exec`, `callOnClose`, `ControlConnectionRcvd::exec` | messages to Control and to clients, a close callback on the thread that notices |
| Game server (`servjuego`) | `mZones`, a `ZoneHandler` with a thread and a game for each, clients, routers | `startZone`, `stopZone`, `stopAll`, `markForDetach`, `SendZoneLoads`, `addClient`, `delClient`, `queueInstruction` | zone threads, mutexes, answers to Control |
| Control server (`servcontrol`) | the list of servers with their loads, `zoneServer`, `recievedConnectionMask`, `timeout` | start-up, `zoneAssignment`, load rounds, `balance`, `ServerLoadRcvd`, `NewUserRcvd`, `DisconnectUserRcvd`, `IPServerRcvd` | messages to everyone, two alarm signals, handlers beside main |
| Router (`servrouter`) | users, zones, servers with their links | add, connect, delete, transfer, send | messages, three mutexes |
| Factory (`conexion`) | creators, types and version of the process | `setProtocol`, `creator`, `type`, `protocol` | memory shared by all threads of the process |
| Connections (`conexion`) | `online`, `ssl`, the listener thread, two mutexes | `connect`, `send`, `sendAnswer`, `receive`, `close` | threads, join, the close callback |
| Client (`cliente`) | two links, the login flags, a game that is never made | `setLoginAddress`, `login`, `LoginRequestRcvd::exec`, `ConnectCLientReceived::exec`, `~Client` | messages, flags that three threads share, a 10 second timeout |

What is hard in it, and which property says so, is listed line by line under
"hazards" in PROJECT.json. In short:

- **threads.** All handlers run on listener threads, beside main, zone threads
  and the accept threads. Some state has a mutex, some has not (the factory, the
  list of servers of Control), and some handlers write to a peer while they hold it.
- **failure.** A write that fails closes the connection on the writing thread,
  callback included. Servers may be unreachable at start-up and links drop later.
- **order.** The end and the beginning of a session, a stop and the loop it
  is to stop, an answer and the round it belongs to.
- **time.** Control waits for answers until a signal; a game server answers
  as many messages as it has zones.

What makes each component correct:

- *Login*: the tables describe one set of sessions, whatever clients ask; what a client or Control is
  told of a session is true and complete; every request is answered.
- *Game server*: a zone in the table has a thread and a game and the game outlives
  the thread; a stop ends the thread and comes back.
- *Factory*: a message of a known version is always recognised, and what a message leaves in the tables belongs
  together. No listener gives that to another, so both hold only for undisturbed messages.
- *Control*: each zone is with one server; only those that can answer are waited
  for; balancing sees the loads and takes a zone of the most loaded server; rounds go on.
- *Router*: the tables hold what was named to it, a user that is gone is not used, and no
  two instructions wait for each other's mutexes.
- *Connections*: one close, one callback, one join, and none of oneself.
- *Client*: what `login()` tells is what happened; no handler outlives the object; the process ends, unless
  a server keeps it in a call of OpenSSL.
- *Login, Control and Router together*: the router has the sessions that the login server announced,
  in the order it announced them, and a user it should have forgotten can be explained.

## 2. Modules

| Module | What it is |
|---|---|
| `SessionRegistry` | What the login server promises: one session for a user, bound to one connection, with an id of its own. |
| `LoginServer` | The login server, one thread for each client connection. Implements `SessionRegistry`. |
| `LoginServer_proofs` | The inductive invariant of `LoginServer` and its theorems, up to the implementation of `SessionRegistry`. |
| `Announcements` | `LoginServer` with the two links behind it: Control's handlers and the users of `Router`. |
| `Announcements_proofs` | What the router has of the sessions, proved. |
| `GameServer` | The zone table of a game server and the threads of its zones. |
| `GameServer_proofs` | Its safety properties, proved. |
| `TransferableFactory` | The factory, with the memory operations of its calls. |
| `TransferableFactory_proofs` | What it promises to a message that no other listener disturbs, proved. |
| `ConnectionLifecycle` | What a connection promises its owner: opened once, closed once, and told of at most once. |
| `Connection` | `TCPConnectionSecurity` and the accept loop of `ConnectionManager`: the listener of each connection, the accept thread, and other threads that write or close. |
| `Connection_proofs` | Its types, what `close(false)` guarantees, who is told of a close, and the lifecycle, proved. |
| `Control` | The control server's main program, its handlers, and of the game servers what Control sees. |
| `Control_proofs` | Its safety properties, and what `zoneAssignment` and `balance` write outside `zoneServer`, proved. |
| `Router` | The tables of the router with their three mutexes, and the instructions that change them. |
| `Router_proofs` | Its types, and that its mutexes are not waited for in a circle, proved. |
| `Client` | A client process: main, and the listeners of its two links. |
| `Client_proofs` | Its safety properties, proved. |
| `MC...` | What TLC needs besides (symmetry sets). |

Operators whose comment begins with "Variant" are a definition with one
plausible mistake in it. Each is named under "mutants" in PROJECT.json: put in
place of the definition, it makes TLC find the named property violated,
which shows that the property depends on that piece of code. No specification uses them.

### LoginServer

A connection `c` is its listener thread. `pc[c]` is where it is: `idle`, waiting
for `loginMutex` (`lock`), about to send a `ClientDisconnect` (`withdraw`), to enter a
session (`insert`), to send a `NewClient` (`announce`), to write the answer
(`answer`), in `callOnClose` (`closing`), or `closed`. `call[c]` has the locals of the
handler. The code does
not unlock between those points, so one handler at a time is past its lock; the
points are there because sending may fail, and because closing does not
wait for a handler. A `std::map` is a total function with a sentinel for "no
entry". Where the code erases or dereferences `find(...)` without a look, the model
sets `status` to "undefined" when the entry is absent.

The link to Control is `control`: never there, `unset` (the flag is written, the
pointer is not), `up`, `broken` (gone, not noticed), `closed` (`ssl` is NULL). A
message over a closed or unset link ends the process; over a broken one it is
lost, and the write may notice.

Clients may ask anything. A second login on a connection is entered like the first, because the test
for it is commented out (`LoginRequest.cpp:53`), and `connectionToIdMap` keeps the id of the first. A
logout may name any id and any token on any connection: `LogoutRequest.cpp:12-28` ends the session that has the
two and erases the entry of the connection that asked, whosever that is, or `end()` if there is none. A client
of this repository does ask so: `dummyClient/src/testClient.cpp:54` sends a logout of 0 with token
0 whatever the login gave it. `astray` is history: it rises when a logout touches a session of another connection, and
when a connection enters a session while it has one. From then on `connectionToIdMap` and the other
four tables may tell different stories, so a session may outlive its connection, and an erasure of
`end()` is possible; what properties say of these is said of the time before. What they say of the other four
tables, and of answers and announcements, is said without such a condition.

### Announcements

`Announcements` extends `LoginServer` and puts behind it what its messages do. `sent` is what the
login server wrote to Control, `done` how much of it Control has handled, `toRouter` the queue of the
link from Control to the router. `NewUserRcvd` and `DisconnectUserRcvd` of Control pass each message on
(`ControlForwards`), the router reads it and runs `AddUserRcvd` or `DelUserRcvd`: those are
`AddUser` and `DelUser` of `Router`, instantiated with no zones and no servers, because
this Control gives the router none: the messages that would are commented out (`Control.cpp:231`, `:251`),
and the one that tells of a move arrives as a `ChangeZoneRcvd`, whose body is empty.

`ControlArrives` is a new Control. It goes on without a router that it cannot reach (`Control.cpp:194-199`), so
`routerUp` is a choice, and `RouterLinkBreaks` takes the link away later with some end of what is on it. What
`ControlForwards` writes to a link that is down is lost: `sendAnswer` fails, `NewUser.cpp:18` and
`DisconnectUser.cpp:13` do not look at its result, and Control runs on.

`ControlGoes` is the end of a Control: a failure, or its next write to a router link that it has closed. What it has not handled is lost, and of what it
has sent some of the end; the router's listener of its link may still read (`stale`) while a new Control
comes in and its link is read by another listener. The login server may not have noticed, and what it
writes meanwhile is lost as well. History is `vanished`, the sessions that ended with their connection, of which Control
is told nothing; `lost`, the messages that reach the router no more; and `overtaken`, the sessions
whose end the router read on the new link before their beginning on the old one.

### GameServer

Zones are known by their numbers, whose order is the order of the table. `at[z]` is where `ZoneHandler::startThread` is, with a point before each read
and write of `mRun`; `doing[k]` is the call of the interface a thread is in, with
a point before each of its effects. `mZonesMutex` is held over the whole of a
`stopZone` or `stopAll`, so over the `join` too. The program calls `startZone`,
`SendZoneLoads` and, when it ends, `stopAll`; `stopZone` and `markForDetach` are
in the interface and nothing calls them yet, so what is shown of them
is shown of the interface. Loads, time dilation, clients and instruction queues
are left out, and `mGameMutex`, which only `doBackup` would contend for.

### TransferableFactory

`setProtocol` is a sequence of writes to three tables, each with a begin and an
end (`Writes`). A lookup that overlaps a write may find the entry or not, and
so may one after two writes overlapped: those are the data races of the code. What a listener does
between the header of one message and the next is here; the body of the message
is not. `disturbed` is history: a listener is in it if another has begun a write since it
read its header, or was in the middle of one then. An unknown version is not modelled: `setProtocol` is then given NULL
(`TransferableFactory.cpp:67`) and makes a `std::string` of it, which ends the process, but the programs of the
repository label their messages with 0.1a or with none.

### Connection

A connection `c` of `Conns` is the object and its listener thread. `pc[t]` is where
a thread is: a listener between its test of `online`, the header, the body and the
callback; the accept thread (`Manager`) in `checkConexionsOffline` (`scan`) or in
`accept`; a writer out of a call (`idle`) or in one. `close` is a procedure of any of
them, with a point before each access to `online`, `ssl` and `tListen`
(`Closing`), and `task[t]` has its connection and whether it is to join. `Written`
are the connections that other threads write to or close: the links between
servers. The clients' connections of the login server, whose end is the end of a session,
are not of them. `gone` and `notified` are what the peer did and was told, and
`reports` and `quiet` are history. `SSL_shutdown` may come back at once with an error while the peer
is there (`TCPConnectionSecurity.cpp:191-193`), and otherwise waits for what the peer sends; either way nothing can be written after it. A call of OpenSSL with NULL sets `status`
to "crashed", as does a second join of the same thread: two closers at a time can lead there.

`LoginServer` takes from here that a closed connection calls `callOnClose`, once. `ImplementsLifecycle`
says that it is called at most once, by the listener, and after the close: the connections of
`Conns \ Written`, whose listener alone writes to them, implement `ConnectionLifecycle` under the mapping `Phase`. The accept
thread takes no part in it: what it finds offline it does not close again. `CloseIsReported`
says when it is called at all, and what is missing: when the
accept thread finds the connection offline between the listener's lines
`TCPConnectionSecurity.cpp:189` and `:190`, it sets `ssl` to NULL, and `callOnClose` is not called by anybody.
The session of that client then stays in the tables of the login server until its user logs in again.

### Control

`pc` is where main is: `connect`, the two loops of `zoneAssignment` (`front`,
`assign`), the loop that asks for loads (`ask`), the wait (`test`, `asleep`),
`sort`, `balance`, `moving` and `resting`. A move of `balance` is two steps, as a send may close a link, and handlers
run, between the choice of the zone with the messages to the servers and the router (`OrderMove`) and the write of the
table (`WriteMove`). `mask` is `recievedConnectionMask` as the set
of its bits, and `coming[s]` the answers of server `s` that are under way, with a flag
for those of an earlier round; that flag, `heard` and `first` are
history that only properties read. `managed[s]` is what the game server runs,
which the handlers of `RemoveZone` and `GetZone` do not change
(`servjuego/src/InstControl.cpp:41-50` are empty). Loads are integers: `One`
stands for 1.0, and the deviation is compared in squares. `address` is the order
of the `Server` objects in memory, which is what `servers.sort()` compares, and
`totalLoad` has anything in it before it is first written. A server in the
list that a handler misses because main is relinking the list is `MissServer`,
and the zeroing of a total over which a handler writes an older sum is the
last alternative of `Ask`.

### Router

A link to the control port is a listener thread that runs instructions: `todo[t]` has
the methods of `Router` that the instruction is still to call, `args[t]` its fields, and `held[t]`
how many mutexes of the first of them the thread has. A method takes its mutexes
one by one (`Acquire`, in the order of `Locks`) and acts with all of them (`Act`). Between
two methods of an instruction the thread has none, and other links go on. What an instruction does with its
own link is a method too: the request for a server's address that `SetZoneToServerRcvd` writes back
(`sendAnswer`, which closes the link if it fails, and the instruction goes on) and the `c->connect` of
`GetServerIpRvcd`, on the very link to Control it arrived on (`connect`); `closed` are the links that are closed,
and `LinkCloses` is their end by a read. A client's
listener hands each message to `sendToServerUsers`. Objects are told from entries:
`mUsers` are the ids in the table, `live` those whose object is there, since `delUser`
deletes one and not the other. A dereference of `end()` or of a deleted user sets
`status` to "undefined".

Three things do not happen in this model because they do not happen in the code. No transfer
ends: a zone begins with server -1, which is never in `mServers`, and
`endZoneToServerTransfer` wants the old server to be there. No user gets a zone: the first
`setUserToZone` dereferences the zone -1. And no client is connected to its user:
`ClientListener` runs no message, so not `ConnectUserRcvd` either. `Transfer` and
the last alternative of `SetUserToZone` are there because the code has them. That the tables of zones, users and
servers agree is therefore no property here: they would agree by being empty.

### Client

`main` is where the main thread is, from `setLoginAddress` over the wait of `login()` to `~Client`, which
deletes first the link to the login server and then the one to the router (`Deleting`), each with a
close and a join. `login` and `router` are the listeners of the two links, with a point before each
access to the members of `Client`, which no mutex protects. The handler of the right answer
opens the link to the router, and does so after the timeout as well, while main deletes the object.

A server may be silent for good. The connect with its TLS handshake has no timeout, and a close shuts the
link down first (`shut login`, `shut router`) with an `SSL_shutdown` whose second call waits for the server's
`close_notify` (`TCPConnectionSecurity.cpp:191-198`), before it joins the listener, which may be in a read or in a handshake.
`gone` are the servers whose process has ended: only that is certain to end those calls. `WaitsForServer` says which
of them main is in, itself or through the listener that it joins.

A process logs in once. `mGame` is made in `setZone` and `setZone` returns while there is none
(`Client.cpp:251`), so `login()` never returns true: `no game` is its best result. `RouterConfirms` is what a router
may send; the router of this repository does not, as its client listener runs no message.

## 3. Runs

### Runs that pass

| Run | Instance | What it shows |
|---|---|---|
| `login_safe` | 2 users, 2 connections, 3 ids, 1 message to Control | types, agreement of the tables, no `erase(end())` before a request goes astray, an answered session is live, and `SessionRegistry` is implemented, with any logout on any connection, second logins, failing answers, refused logins and a closed control link |
| `announcements` | 1 user, 2 connections, 2 ids, 4 messages, a Control that goes and comes back, a router link that fails or never is up | what Control hears of a session, in which order, and what the router makes of it; every request is answered; every announcement reaches the router or was lost on a link |
| `game_safe` | 2 zones, 2 callers | no game is deleted under its thread; the table is exact whenever its mutex is free; only marked zones go; a stop between two steps ends the thread |
| `factory_safe` | 2 listeners, 2 senders | a known message is rejected only if another listener wrote while it was read, and what an undisturbed message leaves belongs together |
| `connection_safe` | 1 connection of its listener alone, 1 that another thread writes to, closes and may have opened | `close(false)` leaves no handler running; the lifecycle is implemented; a closed connection is reported and a lost peer is noticed |
| `control_safe` | 3 servers, 2 zones, loads 0 and 3/4, connecting may fail, links may drop | the assignment is complete, waited answers are coming, the first round has complete loads and right totals, rounds go on |
| `router_safe` | 1 user, 1 token, 1 zone, 1 server; 2 links to Control, 1 client | the tables hold ids only, never -1; instructions do not wait for each other |
| `client_safe` | one client, servers that answer, are silent or end | `login()` tells the truth, no handler outlives the object, the process ends unless it waits for a server |

Why these bounds are enough to meet the interesting cases:

- *Ids* (`MaxToken`): with three (`login_safe`) a user logs in, is displaced and comes back, with
  another user in between. Ids are never used again, so a fourth adds a longer history, not another
  kind of state. `announcements` has two, which is a session and the one that displaces it, or
  a session and the one its user opens after it.
- *Messages* (`MaxSent`): one is enough where only the state of the link
  matters (`login_safe`); four are both messages of each of two sessions (`announcements`).
  When the bound is reached, sending over a link that is up is no longer enabled.
- *Links to the router*: one stale link at a time. A Control goes away again only when the router has
  read the link of the one before; a third would be read beside them in the same way.
- *Connections*: displacement needs two, of which one waits for the mutex of the other.
- *Zones and callers*: two zones are what `stopAll` needs to be between them, two
  callers make one wait for the other.
- *Connections and their threads*: closing is a matter between the threads of one object; a second
  connection keeps the accept thread busy, or waiting in a join, meanwhile. There are two
  kinds of connections, and one of each.
- *Servers and zones*: three servers and two zones are what the deployment has, more servers than
  zones (`execution.txt:12` starts five, and `NZONES` is 4): all zones are meant for the front server, and the second loop of
  `zoneAssignment` is there for what it could not be given. As servers may be out of reach, a start-up
  has three, two, one or none in its list, and ids that are not 0..n-1; with two in the list there are as many zones as servers,
  and with one more zones than servers. Both loops giving zones in one start-up takes fewer servers than zones and a remainder, such
  as two and three: that is only in the proofs, which are for all numbers. The run that shows a disagreement of Control uses two
  servers and the four zones of the code.
- *`MaxComing`*: a server is asked only while its answers under way fit. With
  two, a server that has one zone may be two rounds late.
- *`MaxTotal`*: the largest total that the race of `Ask` can build on; without a bound
  totals would grow for ever. With 0, an answer that main's zeroing overlaps counts for the new round
  but totals do not pile up over many.
- *Client*: nothing is bounded: the process logs in once, and has at most one answer and one confirmation.
- *Listeners and senders*: a disturbance takes two listeners; a sender only reads, and the second one
  adds a reader.
- *Router*: the mutexes are wanted by two instructions at a time. One id of each kind is enough for that: the methods
  take the same mutexes whatever ids they are called with.

### Runs that show a disagreement

Each has one property, which states what a comment or document of the repository
says, and which the code does not do. The quotations are under "findings" in PROJECT.json.

| Run | What happens |
|---|---|
| `login_selflock` | A failing write of an answer closes the connection on the thread that holds `loginMutex`, and the close callback locks it again. |
| `game_loststop` | A stop before the loop or during a step is overwritten; `join` never returns. |
| `factory_two` | Two listeners of a process: one empties the factory under the other. |
| `control_wrongzone` | A position in a vector is used as a zone id. |

Properties of passing runs hold within bounds that are part of the statement, and the code
breaks them outside:

- `SessionTablesAgree` and `NoUndefinedErase` stop speaking of `connectionToIdMap` once a request went
  astray: `LogoutRequest.cpp:12-28` and `LoginRequest.cpp:62` do not ask whose session they touch. After that the
  table can name a session of another connection, or none, and `erase(end())` is reached, also by the logout of
  `dummyClient/src/testClient.cpp:54`.
- `WaitedAnswerIsComing` lets a server go unheard that has no zone because there are more servers than zones. With the five servers
  of `execution.txt:12` and the four zones of the code, the first server gets all zones
  and the other four never answer, so each first round ends with the alarm.
- `RejectedIsDisturbed` and `UndisturbedIsWhole` say when a message may be rejected and the tables may be left in pieces:
  when another listener writes at that time, which in a process with several connections it may (`factory_two`).
- `ClientExits` excepts a process that waits in a call of OpenSSL. With the login server of `login_selflock`, which
  is alive and answers nothing, a client does not come back from its close.
- `AllAnsweredEndsTheWait` speaks of the case that the servers in the list are 0..n-1. Those are the bits of the
  mask, whatever the ids of the n connected servers are (`Control.cpp:381-383`, `ServerLoad.cpp:28`). With an
  id out of that range in the list, some bit is nobody's, and only the alarm ends the wait.
- `FirstRoundHasTheLoads` speaks of the first round only. The mask is set once, before the rounds
  (`Control.cpp:383`), so a later round waits for nobody and balances whatever totals
  there are, contrary to `servjuego/instruccionesControl.txt:43-44`, where Control waits for the zones of each
  server until the last has come.
- `AnnouncedInOrder` and `RouterFollowsLogin` need that no login is refused
  (`WrongPasswords` = FALSE): after a refused one `LoginRequest.cpp:74` announces an id and
  a token that nothing was assigned to.
- `GhostsAreExplained` says what the router is left with: a user whose connection was lost stays there for
  good, because `callOnClose` tells Control nothing, and so does one whose end was lost with a link or a Control, or was read
  before its beginning.
- `AnnouncedIsRouted` excepts what was lost; nobody writes it again.

### Deadlock and fairness

TLC checks for deadlock in the runs of `GameServer` and `TransferableFactory`, where
a caller or a listener can always begin something. It does not in those of
`LoginServer`, `Announcements`, `Connection`, `Control`, `Router` and `Client`: there the process may end
(by `status`, or as a client does), the connections may all be closed, and the counted ids and messages run out.

Fairness is stated only for what the machine does by itself:

- `LoginServer`: strong fairness of a handler that can go on, as a thread that waits for
  a mutex gets it if the mutex is free again and again. Arrivals have none: a
  client may be silent for ever.
- `Announcements`: the same for the login server; weak fairness of the listener threads of Control and
  of the router, which read on. A Control neither has to go nor to come, and no link has to hold.
- `GameServer`: weak fairness of zone threads and of a call that has begun. Weak
  is enough for what is claimed, which never depends on the winner of a race for the mutex.
- `Connection`: weak fairness of listeners. Peers, the accept thread and writers have none.
- `Control`: weak fairness of main, of the alarm once it is set, and of the handling
  of an answer that has arrived. Game servers, links and clients have none.
- `Client`: weak fairness of main, whose wait ends at the latest with the timeout, and of the handlers, but not
  while they are in a call that only a server can end; and of the end of a listener whose server is gone. Nothing is asked of a
  server: it need not answer, shut a link down, finish a handshake, or end.
- `Router`: strong fairness of a link's instruction, which may wait for a mutex; weak fairness of a client's message. That
  includes that the write of an answer ends, with or without success: it is a few bytes, which the socket takes without the other end.

## 4. Proofs

Eight modules hold proofs. Each theorem is about the whole specification of a module and holds for every value of its
constants that its assumptions allow.

### LoginServer_proofs

For any finite set of users, any connections, any
`MaxToken` and `MaxSent` and all settings of the failure flags:
`TypeCorrect`, `TablesAlwaysAgree` (`SessionTablesAgree`) and `NeverUndefined` (`NoUndefinedErase`).
They rest on the assumptions of `LoginServer`: `Users` is finite, which the
count needs, and `NoUser` and `NoConn` are not users or connections. Nothing is assumed of clients.

Neither property is inductive. The tables alone do not say that the id a login
writes is in no table, nor what an entry of `connectionToIdMap` can be that a logout erases. `IInv` adds what is missing:

- `MutexInv`: a handler between its lock and its unlock owns `loginMutex`, so there is
  one such handler, and the tables stand still for the others;
- `FreshInv`: ids from `nextFreeToken` on are in no table and a token equals its id;
- `LoginInv`: a login about to enter its session has a fresh id, and its user has no session;
- `CallInv`: which handler can be at which point;
- `EntryInv`: what `connectionToIdMap` says of a connection was true once: the id is its own or is over, and a closed
  connection has no entry. This holds even after a request went astray, and keeps the close of a connection from ending
  a session of another one.

`InitIInv` shows it of the initial state. `Inductive` goes action by action. Three actions erase
a session (a login that displaces, a logout, a close), and share the lemma
`EraseTables`: if the tables agree, erasing one session leaves
them in agreement and the count right; `InsertSessionStep` is the one that adds. The rest
change no table. `IInvAlways` puts the two together.

`AnsweredAlwaysLive` (`AnsweredSessionIsLive`) adds `LiveInv` to `IInv`: while an answer is owed for a
login, the tables have its session. Whoever owes one has the mutex, so no
other handler can end that session in between.

`TablesImplementRegistry` (`ImplementsRegistry`) is the refinement. `session`, `astray` and `gone` are what `SessionRegistry`
sees of the server, and `EveryStepMaps` shows that every step under `IInv` is a `RegistryStep`: `Stands` if
no session changes, `Ends` for a login that displaces, `Leaves` for a logout, `Strays` for one on which the server
ends in `erase(end())`, `Drops` for a close, `Opens` for the
insertion. That the user of an id, and the id of a user, are each other's is where `SessionTablesAgree` comes in: without
it an erasure could take another user's session with it.

`AlwaysAnnouncedInOrder` (`AnnouncedInOrder`) is about what Control hears. Its hypothesis is that no login is
refused, because a refused one announces a pair of which nobody knows where it comes from (section 3).
`OrderInv` says of every message sent that its id was given and that no
handler is still to send it (`MessageInv`), and of a handler about to send a `ClientDisconnect` that the
session is over (`EndInv`). Since an id whose session is over never comes back, neither message can be sent twice.

### Announcements_proofs

Both theorems have the hypothesis of `AlwaysAnnouncedInOrder`, and use the invariants of `LoginServer_proofs` as
they are: every step of the composed system is a step of the login server or leaves it alone (`LoginSteps`).

`RouterAlwaysFollowsLogin` (`RouterFollowsLogin`) holds across the crashes and returns of Control. `QueueInv` says that
the two links of the router carry, no message twice and none on both, what Control has
handled; `RouterInv` that a user of the router is of a session whose `NewClient` was read, and a deleted one of a
session whose `ClientDisconnect` was read. As neither message is on a link again, no second
`ClientDisconnect` finds the user it has deleted.

`GhostsAlwaysExplained` (`GhostsAreExplained`) holds across Controls and links as well. `GhostInv` follows the end of each session that
began: it is still to be written by a handler, or is among the messages not yet handled or not yet read, behind its beginning, or the session
ended with its connection, or the end is lost, or it overtook its beginning. With no message
under way only the last three remain.

### GameServer_proofs

For any zones with natural numbers and any callers: `TypeCorrect`, `GameAlwaysOutlivesThread`
(`GameOutlivesThread`), `TableAlwaysExact` (`TableIsExact`) and the action property
`OnlyDetachedGo` (`OnlyDetachedZonesGo`). The invariant says who holds `mZonesMutex` (`MutexInv`), what that call
still has to stop, and that this is in the table and was marked if it has to be (`CallInv`), and that the table is exact but for
the zones that a `stopAll` under way has deleted already (`TableInv`). `stopAll` goes through the table in
the order of the numbers, so it has to be shown that a set of them has a least one: `FirstIsMember`, by
the well-foundedness of the naturals.

### Connection_proofs

For any connections, any subset of them that others write to, and any writers: `TypeCorrect`, `ClosedAlwaysQuiet`
(`ClosedIsQuiet`) and `ListenersImplementLifecycle` (`ImplementsLifecycle`). `ObjectInv` ties the thread object to
the listener; `ListenerInv`, `WriterInv` and `ManagerInv` say which thread works on which connection, the last
also that the accept thread erases from its list the connection it has closed; `QuietInv` that the listener of a
connection that was closed with a join has ended. For the lifecycle, `LifeInv` says of
a connection that nobody else writes to that `online` falls once, before `reports` rises. Every step then
leaves `Phase` and `reports` alone (`Rests`), takes the next phase (`Turns`), or tells the owner (`Tells`).

`CloseAlwaysReported` (`CloseIsReported`) needs more: that no connection is twice in the list of the accept thread
(`OnceInv`), that what it closes is in its list or was refused before it had a listener (`RefusedInv`), and that a
listener whose connection the accept thread leaves alone finds `online` and `ssl` as it needs them on its
way through `close` to the report (`Good`, `ReportInv`).

### TransferableFactory_proofs

For any listeners and senders: `TypeCorrect` (`TypeOK`), `OnlyDisturbedAreRejected` (`RejectedIsDisturbed`) and
`UndisturbedLeaveWhole` (`UndisturbedIsWhole`). The invariant is about one listener at a time (`RInv`): if no other has disturbed it since its
header, no write but its own is in progress, none of its own overlapped another, and each table has what its
writes up to this point put there, whatever the tables had before. `factory_two` is what disturbance leads to.

### Client_proofs

`TypeCorrect`, `OutcomeAlwaysTrue` (`OutcomeIsTrue`) and `TeardownIsComplete` (`NoHandlerAfterDelete`). There is no
bound in `Client`, so what the proofs add to the run is the reason: `TeardownInv` and `RouterInv` say
which links can still be open, and which listeners run, at each point of `~Client`; `AnswerInv` and `FlagsInv` what has
happened when `mIsOnLogin` is found cleared.

### Router_proofs

For any users, zones, servers, links and clients: `TablesTyped` (`TypeOK`) and `NoCircularWait`. What an instruction has left to do between two of its methods
is in `TodoInv`: the methods still to come find the ids they need among the fields of the
instruction, which is why -1 gets into no table. `HeldInv` says that a thread has mutexes only of the
method it is about to call. `NoCircularWait` is the part of `InstructionsEnd` that is a safety property: of the
threads that are still to act one has, or can take, the next mutex of its method, as all of them take
the users' mutex before that of the zones and this before that of the servers.

### Control_proofs

For any numbers of servers and zones, any loads, `MaxComing` and `MaxTotal`, with connections that may
fail and links that may drop. The lists of the model are counted, not enumerated: `AscendingProperties` and
`SortedProperties` show of its two operators that order things that they lose and repeat nothing, from one lemma
(`Ranks`) that in a finite order the number of elements below one numbers them all.

- `TypeCorrect` (`TypeOK`). That `zonesRestants` does not become negative is in `FrontInv` and `AssignInv`, which
  follow the counters of the two loops of `zoneAssignment`; `ModZones` bounds the remainder of the division.
- `AssignmentAlwaysComplete` (`AssignmentComplete`). `TableInv` says at each point of the two loops
  which zones are held by the server in the table and which by nobody yet.
- `WaitedAnswerAlwaysComing` (`WaitedAnswerIsComing`). `SuppliedInv` says that with as many zones as servers the second loop of
  `zoneAssignment` comes to the end of the list before the zones run out,
  so each server with a link has one; `AskedInv` that the last answer of a server that was asked, has a zone and has its bit set is under way. A
  server outside the list has no link (`ReachInv`).
- `FirstRoundWaits` (`FirstRoundHasTheLoads`). In the first round no answer is of an earlier one and whoever was not asked has not answered
  (`FreshInv`, `UnaskedInv`), so a bit is only cleared by the last answer (`ClearedInv`). The bits are
  0..n-1 and the servers n, but perhaps with other ids; when all bits are cleared, the ids that cleared them are those of the list, by counting.
- `AnswersEndTheWait` (`AllAnsweredEndsTheWait`): who has answered has no bit, as the mask is set once, before anybody is asked,
  and no bit is past the number of servers in the list (`HeardInv`).
- `FirstTotalsAlwaysSums` (`FirstTotalsAreSums`). `TotalsInv` says of the first round that answers under way are
  for zones of their sender, none twice, whose loads are still 0, and that nothing of a server is entered before its turn. So when main clears
  a total, without `recievedMutex`, no handler is at it (`TotalsAsk`), and each answer adds to the
  total what it adds to the loads (`TotalsReceive`). The model's sum is the recursive function of the library; what it returns
  is shown by least counterexamples, with the well-foundedness of the naturals: there is one such function
  (`AddsExists`, `AddsUnique`), one element can be split off (`SumSplit`), so changing the load of a zone changes
  the sum by as much (`SumChange`).
- `StartAlwaysDefined`: `zoneAssignment` writes at `zoneServer[NZONES]` only with more servers in the list than zones and a
  front server that has gone offline. All the zones are then meant for the front of the list, and the second loop begins at
  `NZONES` with some left (`RestantsInv`). With as many zones as servers it returns with the last zone (`RoomInv`).
- `MoveAlwaysInTable`: in `balance` the position that stands for a zone is a zone or -1, when it is chosen and when, after the messages, the
  table is written with it. No zone is twice in a
  distribution (`DistinctInv`), so a distribution is no longer than `zoneServer`; that the
  position is of the right zone is another matter, and false (`MovesAZoneOfTheSource`, section 3).

The last two are of no run's property; they say how far the accesses go that the model calls `undefined`.

### Only model-checked

- Liveness, which needs `ENABLED`: `RequestAnswered`, `AnnouncedIsRouted`,
  `StopBetweenStepsEnds`, `ListenerEnds`, `RoundsRecur`, `InstructionsEnd`, `ClientExits`. Of `InstructionsEnd` and of
  `ListenerEnds` the safety part is proved (`NoCircularWait`, `CloseAlwaysReported`).
- What `WrongPasswords` does to the properties whose theorems exclude it: section 3 says how the code breaks them.

## 5. Not modelled

- `TCPConnection`, which only tests use, the plain `listenThread`, and `closeManager`, which
  no running program reaches. OpenSSL is there as its callers see it; that it is called for one object
  by two threads at a time is not counted as an error.
- Of the router: `delServer`, `delZone`, `validateUser`, `sendToServer`, `sendToZone`,
  `sendToUser`, which nothing calls, `clear`, and `connectUser`, which only a message calls that no listener runs.
- Of the client: `go`, its queue of instructions, `SetZoneRcvd` and `SetUserStatusRcvd`. They need a
  game, and none is ever made; a model of them would be of code that does not run.
- Of the game server: clients, routers, instruction queues, statistics; `receiveZone`
  and `detachZone` have no bodies. `mClients` only grows, as nobody tells a game server that a user has left.
- Of Control: the database, the address tables, `IPServerRcvd`; `eliminarServidor` and
  `writeDownServer` are not called.
- The example game, the layout of datagrams, `main` programs, the MySQL and
  SDL headers, and the test programs. The headers are most of the lines of the repository, so the share
  of its lines that the models cover is small and will stay so; of the
  programs' own sources, what is left out is listed here.

## 6. What is left

In this order:

1. `Router`: runs that show the two disagreements of the instructions with their comments, "create both if
   not exist" (`InstControl.cpp:38`) and "Add a new user/modify it's current token" (`InstControl.cpp:55`).
2. Proofs: what `SomeThreadCanMove` is for the handlers of `LoginServer`, whose only mutex is `loginMutex`; the safety part of
   `ClientExits` and of `StopBetweenStepsEnds`.
3. `GameServer`: the queue of instructions of a zone and its clients, once something fills and empties them.
