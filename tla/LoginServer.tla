---------------------------- MODULE LoginServer ----------------------------
(***************************************************************************)
(* The login server (servlogin): the session tables of the Login singleton *)
(* and the handlers that change them.  Every client connection has its own *)
(* listener thread, which reads one message, runs the message's exec to    *)
(* its end and reads the next; a read error closes the connection on the   *)
(* same thread.  So a connection of Conns is a thread here, and pc says    *)
(* where in its handler it is.  The handlers run under loginMutex, and the *)
(* std::map tables are total functions with a sentinel for "no entry".     *)
(*                                                                         *)
(* A client may send anything: a second login on its connection, a logout  *)
(* of an id it was never given.  The handlers do not ask whether the       *)
(* connection a request came on is the one of the session it touches, and  *)
(* the history variable astray records that it once was not.               *)
(***************************************************************************)
EXTENDS Integers, FiniteSets, Sequences

CONSTANTS
    Users,              \* user names
    Conns,              \* client connections, each with its listener thread
    NoUser, NoConn,     \* "no entry" in a table of users, of connections
    MaxToken,           \* bound: how many ids the server gives in a behaviour
    MaxSent,            \* bound: how many messages go to the control server
    AnswerMayFail,      \* may writing an answer to a client fail?
    ControlMayFail,     \* may the link to the control server break?
    WrongPasswords      \* may validate() refuse a login?

ASSUME UsersAssumption == IsFiniteSet(Users)
ASSUME NoUserAssumption == NoUser \notin Users
ASSUME NoConnAssumption == NoConn \notin Conns
ASSUME BoundsAssumption == MaxToken \in Nat /\ MaxSent \in Nat
ASSUME BooleanAssumption ==
    /\ AnswerMayFail \in BOOLEAN
    /\ ControlMayFail \in BOOLEAN
    /\ WrongPasswords \in BOOLEAN

NoId == -1
Ids  == 0 .. MaxToken - 1

VARIABLES
    userToken,          \* userTokenMap: id -> session token
    idToConn,           \* idToConnectionMap
    connToId,           \* connectionToIdMap
    userToId,           \* userToIdMap
    idToUser,           \* idToUserMap
    nextFreeToken,
    usersConnected,
    mutex,              \* the thread that holds loginMutex, or NoConn
    control,            \* the link to the control server, see below
    sent,               \* the messages that reached the control server, in order
    status,             \* "running", "crashed" or "undefined"
    pc,                 \* pc[c]: where the listener thread of c is
    call,               \* call[c]: the locals of the handler c runs
    astray              \* history: a request touched another connection's
                        \* session, or a connection entered a second one

tables  == <<userToken, idToConn, connToId, userToId, idToUser>>
counts  == <<nextFreeToken, usersConnected>>
link    == <<control, sent>>
vars    == <<tables, counts, mutex, link, status, pc, call, astray>>

(* controlConnected is control # "never".  A link is "unset" between the   *)
(* writes of controlConnected and of controlConnection, "broken" when      *)
(* Control is gone and no thread of this process has noticed, and "closed" *)
(* once close(true) has set its ssl to NULL.                               *)
ControlStates == {"never", "unset", "up", "broken", "closed"}
controlConnected == control # "never"

Places == {"idle", "lock", "withdraw", "insert", "announce", "answer",
           "closing", "closed"}

None    == <<NoId, NoId>>
Pairs   == (Ids \cup {NoId}) \X (Ids \cup {NoId})
Call(op, user, new, old, code) ==
    [op |-> op, user |-> user, new |-> new, old |-> old, code |-> code]
NoCall  == Call("none", NoUser, None, None, 0)
Calls   == [op : {"none", "login", "logout"}, user : Users \cup {NoUser},
            new : Pairs, old : Pairs, code : 0 .. 2]
Messages == [kind : {"NewClient", "ClientDisconnect"}, body : Pairs]

Init ==
    /\ userToken = [i \in Ids |-> NoId]
    /\ idToConn = [i \in Ids |-> NoConn]
    /\ connToId = [c \in Conns |-> NoId]
    /\ userToId = [u \in Users |-> NoId]
    /\ idToUser = [i \in Ids |-> NoUser]
    /\ nextFreeToken = 0
    /\ usersConnected = 0
    /\ mutex = NoConn
    /\ control = "never"
    /\ sent = <<>>
    /\ status = "running"
    /\ pc = [c \in Conns |-> "idle"]
    /\ call = [c \in Conns |-> NoCall]
    /\ astray = FALSE

Goto(c, place) == pc' = [pc EXCEPT ![c] = place]

(* Variant of Lock, for a mutant: it does not wait for the mutex. *)
LockAtOnce(c) == mutex' = c

Lock(c) ==
    /\ mutex = NoConn
    /\ mutex' = c

-----------------------------------------------------------------------------
(* The listener thread of c reads a message. *)

RequestLogin(c, u) ==
    /\ pc[c] = "idle"
    /\ call' = [call EXCEPT ![c] = Call("login", u, None, None, 0)]
    /\ Goto(c, "lock")
    /\ UNCHANGED <<tables, counts, mutex, link, status, astray>>

(* A logout carries any id, with the token of that id or with another. *)
RequestLogout(c) ==
    /\ pc[c] = "idle"
    /\ \E id \in Ids : \E token \in {id, NoId} :
         call' = [call EXCEPT ![c] = Call("logout", NoUser, None, <<id, token>>, 0)]
    /\ Goto(c, "lock")
    /\ UNCHANGED <<tables, counts, mutex, link, status, astray>>

-----------------------------------------------------------------------------
(* LoginRequestRcvd::exec, from the lock to the end of the displacement of *)
(* an earlier session.  The code erases what find() returns without a      *)
(* look: an absent entry makes that erase(end()), which is undefined.      *)

(* Variant of HasSession: no session is ever found. *)
HasSessionNever(u) == userToId[u] # NoId /\ idToUser[userToId[u]] # u

HasSession(u) == userToId[u] # NoId

EntriesOf(i) ==
    /\ userToken[i] # NoId
    /\ idToUser[i] # NoUser
    /\ idToConn[i] # NoConn
    /\ connToId[idToConn[i]] # NoId

(* Variants of EraseSession: the token stays; the connection's entry stays;*)
(* the session is counted down twice.                                      *)
EraseButToken(u, i, c, tokens) ==
    /\ userToId' = [userToId EXCEPT ![u] = NoId]
    /\ idToUser' = [idToUser EXCEPT ![i] = NoUser]
    /\ idToConn' = [idToConn EXCEPT ![i] = NoConn]
    /\ connToId' = [connToId EXCEPT ![c] = NoId]
    /\ userToken' = tokens
    /\ usersConnected' = usersConnected - 1

EraseButConn(u, i, c, tokens) ==
    /\ userToId' = [userToId EXCEPT ![u] = NoId]
    /\ idToUser' = [idToUser EXCEPT ![i] = NoUser]
    /\ idToConn' = [idToConn EXCEPT ![i] = NoConn]
    /\ userToken' = [tokens EXCEPT ![i] = NoId]
    /\ usersConnected' = usersConnected - 1
    /\ UNCHANGED connToId

EraseCountsTwice(u, i, c, tokens) ==
    /\ userToId' = [userToId EXCEPT ![u] = NoId]
    /\ idToUser' = [idToUser EXCEPT ![i] = NoUser]
    /\ idToConn' = [idToConn EXCEPT ![i] = NoConn]
    /\ connToId' = [connToId EXCEPT ![c] = NoId]
    /\ userToken' = [tokens EXCEPT ![i] = NoId]
    /\ usersConnected' = usersConnected - 2

EraseSession(u, i, c, tokens) ==
    /\ userToId' = [userToId EXCEPT ![u] = NoId]
    /\ idToUser' = [idToUser EXCEPT ![i] = NoUser]
    /\ idToConn' = [idToConn EXCEPT ![i] = NoConn]
    /\ connToId' = [connToId EXCEPT ![c] = NoId]
    /\ userToken' = [tokens EXCEPT ![i] = NoId]
    /\ usersConnected' = usersConnected - 1

Fail == status' = "undefined"

LoginAccepted(c) ==
    LET u == call[c].user
        id == nextFreeToken
        tokens == [userToken EXCEPT ![id] = id]
        old == userToId[u]
    IN
    /\ pc[c] = "lock" /\ call[c].op = "login"
    /\ nextFreeToken < MaxToken
    /\ Lock(c)
    /\ \/ /\ ~HasSession(u)
          /\ userToken' = tokens
          /\ call' = [call EXCEPT ![c] = Call("login", u, <<id, id>>, None, 0)]
          /\ Goto(c, "insert")
          /\ UNCHANGED <<idToConn, connToId, userToId, idToUser, usersConnected, status>>
       \/ /\ HasSession(u)
          /\ EntriesOf(old)
          /\ EraseSession(u, old, idToConn[old], tokens)
          /\ call' = [call EXCEPT ![c] =
                        Call("login", u, <<id, id>>, <<old, userToken[old]>>, 0)]
          /\ Goto(c, "withdraw")
          /\ UNCHANGED status
       \/ /\ HasSession(u) /\ ~EntriesOf(old)
          /\ Fail
          /\ UNCHANGED <<tables, usersConnected, pc, call>>
    /\ UNCHANGED <<nextFreeToken, link, astray>>

(* answerCode = 1, and clientId and token keep what the stack held. *)
LoginRefused(c) ==
    /\ WrongPasswords
    /\ pc[c] = "lock" /\ call[c].op = "login"
    /\ Lock(c)
    /\ \E garbage \in Pairs :
         call' = [call EXCEPT ![c] = Call("login", call[c].user, garbage, None, 1)]
    /\ Goto(c, "announce")
    /\ UNCHANGED <<tables, counts, link, status, astray>>

(* std::map::insert keeps the entry a key already has. *)
InsertSession(c) ==
    LET u == call[c].user
        id == call[c].new[1]
        Put(map, key, none, value) ==
            IF map[key] = none THEN [map EXCEPT ![key] = value] ELSE map
    IN
    /\ pc[c] = "insert"
    /\ connToId' = Put(connToId, c, NoId, id)
    /\ idToConn' = Put(idToConn, id, NoConn, c)
    /\ userToId' = Put(userToId, u, NoId, id)
    /\ idToUser' = Put(idToUser, id, NoUser, u)
    /\ nextFreeToken' = nextFreeToken + 1
    /\ usersConnected' = usersConnected + 1
    /\ astray' = (astray \/ connToId[c] # NoId)
    /\ Goto(c, "announce")
    /\ UNCHANGED <<userToken, mutex, link, status, call>>

-----------------------------------------------------------------------------
(* controlConnection->sendAnswer: nothing when no control server ever      *)
(* called; lost when the link is broken, and then the write may fail and   *)
(* close it; a pointer that is not set yet, or SSL_write(NULL) on a closed *)
(* link, brings the process down.                                          *)
SendToControl(c, kind, body, next) ==
    \/ /\ ~controlConnected
       /\ Goto(c, next)
       /\ UNCHANGED <<link, status>>
    \/ /\ control = "up"
       /\ Len(sent) < MaxSent
       /\ sent' = Append(sent, [kind |-> kind, body |-> body])
       /\ Goto(c, next)
       /\ UNCHANGED <<control, status>>
    \/ /\ control = "broken"
       /\ control' \in {"broken", "closed"}
       /\ Goto(c, next)
       /\ UNCHANGED <<sent, status>>
    \/ /\ control \in {"unset", "closed"}
       /\ status' = "crashed"
       /\ UNCHANGED <<link, pc>>

(* Variant of Withdraw: the message goes out as a NewClient.               *)
WithdrawAsNew(c) ==
    /\ pc[c] = "withdraw"
    /\ SendToControl(c, "NewClient", call[c].old,
                     IF call[c].op = "login" THEN "insert" ELSE "answer")
    /\ UNCHANGED <<tables, counts, mutex, call, astray>>

(* The ClientDisconnect of the session a login displaced, or of a logout. *)
Withdraw(c) ==
    /\ pc[c] = "withdraw"
    /\ SendToControl(c, "ClientDisconnect", call[c].old,
                     IF call[c].op = "login" THEN "insert" ELSE "answer")
    /\ UNCHANGED <<tables, counts, mutex, call, astray>>

(* Variant of Announce: it sends the displaced pair. *)
AnnounceOld(c) ==
    /\ pc[c] = "announce"
    /\ SendToControl(c, "NewClient", call[c].old, "answer")
    /\ UNCHANGED <<tables, counts, mutex, call, astray>>

(* The NewClient message goes out after a refused login too. *)
Announce(c) ==
    /\ pc[c] = "announce"
    /\ SendToControl(c, "NewClient", call[c].new, "answer")
    /\ UNCHANGED <<tables, counts, mutex, call, astray>>

(* Variant of Answer: after a refusal the mutex is not given back. *)
AnswerKeepsMutex(c) ==
    /\ pc[c] = "answer"
    /\ mutex' = IF call[c].code = 0 THEN NoConn ELSE mutex
    /\ call' = [call EXCEPT ![c] = NoCall]
    /\ Goto(c, "idle")
    /\ UNCHANGED <<tables, counts, link, status, astray>>

Answer(c) ==
    /\ pc[c] = "answer"
    /\ mutex' = NoConn
    /\ call' = [call EXCEPT ![c] = NoCall]
    /\ Goto(c, "idle")
    /\ UNCHANGED <<tables, counts, link, status, astray>>

(* The write fails: sendAnswer calls close(true), which calls callOnClose  *)
(* on this same thread, and loginMutex is still held.                      *)
AnswerFails(c) ==
    /\ AnswerMayFail
    /\ pc[c] = "answer"
    /\ Goto(c, "closing")
    /\ UNCHANGED <<tables, counts, mutex, link, status, call, astray>>

-----------------------------------------------------------------------------
(* LogoutRequestRcvd::exec up to its first message. *)

Logout(c) ==
    LET id == call[c].old[1]
        token == call[c].old[2]
        Refuse(code) ==
            /\ call' = [call EXCEPT ![c] = Call("logout", NoUser, None, None, code)]
            /\ Goto(c, "answer")
            /\ UNCHANGED <<tables, usersConnected, status, astray>>
        Foreign == astray' = (astray \/ idToConn[id] # c)
    IN
    /\ pc[c] = "lock" /\ call[c].op = "logout"
    /\ Lock(c)
    /\ \/ userToken[id] = NoId /\ Refuse(1)
       \/ userToken[id] # NoId /\ userToken[id] # token /\ Refuse(2)
       \/ /\ userToken[id] # NoId /\ userToken[id] = token
          /\ idToUser[id] # NoUser /\ HasSession(idToUser[id])
          /\ idToConn[id] # NoConn /\ connToId[c] # NoId
          /\ EraseSession(idToUser[id], id, c, userToken)
          /\ Foreign
          /\ Goto(c, "withdraw")
          /\ UNCHANGED <<call, status>>
       \/ /\ userToken[id] # NoId /\ userToken[id] = token
          /\ ~ /\ idToUser[id] # NoUser /\ HasSession(idToUser[id])
               /\ idToConn[id] # NoConn /\ connToId[c] # NoId
          /\ Fail
          /\ Foreign
          /\ UNCHANGED <<tables, usersConnected, pc, call>>
    /\ UNCHANGED <<nextFreeToken, link>>

-----------------------------------------------------------------------------
(* The listener reads an error: close(true) takes the connection offline   *)
(* and calls ClientClosedConnection::callOnClose.                          *)
CloseConnection(c) ==
    /\ pc[c] = "idle"
    /\ Goto(c, "closing")
    /\ UNCHANGED <<tables, counts, mutex, link, status, call, astray>>

(* callOnClose locks, erases and unlocks; Control is not told. *)
CallOnClose(c) ==
    LET id == connToId[c]
        u == idToUser[id]
    IN
    /\ pc[c] = "closing"
    /\ mutex = NoConn
    /\ \/ /\ id = NoId
          /\ Goto(c, "closed")
          /\ UNCHANGED <<tables, usersConnected, status>>
       \/ /\ id # NoId
          /\ u # NoUser /\ userToken[id] # NoId
          /\ idToConn[id] # NoConn /\ HasSession(u)
          /\ EraseSession(u, id, c, userToken)
          /\ Goto(c, "closed")
          /\ UNCHANGED status
       \/ /\ id # NoId
          /\ ~ /\ u # NoUser /\ userToken[id] # NoId
               /\ idToConn[id] # NoConn /\ HasSession(u)
          /\ Fail
          /\ UNCHANGED <<tables, usersConnected, pc>>
    /\ UNCHANGED <<nextFreeToken, mutex, link, call, astray>>

-----------------------------------------------------------------------------
(* The control server's side of the link. *)

(* ControlConnectionRcvd::exec, which takes no lock: the first time there  *)
(* is a moment when controlConnected is set and the pointer is not.        *)
ControlConnection ==
    /\ \/ control = "never" /\ control' = "unset"
       \/ control \in {"unset", "broken", "closed"} /\ control' = "up"
    /\ UNCHANGED <<tables, counts, mutex, sent, status, pc, call, astray>>

(* Control goes away ... *)
ControlBreaks ==
    /\ ControlMayFail
    /\ control = "up"
    /\ control' = "broken"
    /\ UNCHANGED <<tables, counts, mutex, sent, status, pc, call, astray>>

(* ... and the listener thread of that connection closes it.  No close     *)
(* listener is set on managerControl, so controlConnected stays true.      *)
ControlCloses ==
    /\ control = "broken"
    /\ control' = "closed"
    /\ UNCHANGED <<tables, counts, mutex, sent, status, pc, call, astray>>

-----------------------------------------------------------------------------
Handler(c) ==
    \/ LoginAccepted(c) \/ LoginRefused(c) \/ Logout(c)
    \/ Withdraw(c) \/ InsertSession(c) \/ Announce(c)
    \/ Answer(c) \/ AnswerFails(c) \/ CallOnClose(c)

Arrival(c) ==
    \/ \E u \in Users : RequestLogin(c, u)
    \/ RequestLogout(c)
    \/ CloseConnection(c)

ControlLink == ControlConnection \/ ControlBreaks \/ ControlCloses

Next ==
    /\ status = "running"
    /\ \/ \E c \in Conns : Handler(c) \/ Arrival(c)
       \/ ControlLink

Spec == Init /\ [][Next]_vars

(* A thread that can go on does.  A thread that waits for loginMutex gets  *)
(* it if it is free again and again: the lock has waiters that the unlock  *)
(* wakes (this is an assumption about the operating system).               *)
FairSpec ==
    /\ Spec
    /\ \A c \in Conns : SF_vars(status = "running" /\ Handler(c))

-----------------------------------------------------------------------------
(* Properties. *)

TypeOK ==
    /\ userToken \in [Ids -> Ids \cup {NoId}]
    /\ idToConn \in [Ids -> Conns \cup {NoConn}]
    /\ connToId \in [Conns -> Ids \cup {NoId}]
    /\ userToId \in [Users -> Ids \cup {NoId}]
    /\ idToUser \in [Ids -> Users \cup {NoUser}]
    /\ nextFreeToken \in 0 .. MaxToken
    /\ usersConnected \in Nat
    /\ mutex \in Conns \cup {NoConn}
    /\ control \in ControlStates
    /\ sent \in Seq(Messages)
    /\ status \in {"running", "crashed", "undefined"}
    /\ pc \in [Conns -> Places]
    /\ call \in [Conns -> Calls]
    /\ astray \in BOOLEAN

(* The thread that has given a token and not yet entered its session. *)
Entering(c, i) ==
    /\ pc[c] \in {"withdraw", "insert"}
    /\ call[c].op = "login"
    /\ call[c].new[1] = i

(* The tables of Login describe one and the same set of sessions, whatever *)
(* the clients ask: the user tables are inverse to each other, every       *)
(* session has its token and its connection, a token without a session     *)
(* belongs to the login that is being executed under loginMutex.           *)
(* connectionToIdMap agrees with them too, as long as no request went      *)
(* astray: no logout of another connection's session, no second session    *)
(* entered on a connection.                                                *)
UsersAgree ==
    /\ \A u \in Users : HasSession(u) => idToUser[userToId[u]] = u
    /\ \A i \in Ids : idToUser[i] # NoUser => userToId[idToUser[i]] = i
IdsAgree ==
    \A i \in Ids :
        /\ idToUser[i] # NoUser <=> idToConn[i] # NoConn
        /\ userToken[i] # NoId <=>
              idToUser[i] # NoUser \/ \E c \in Conns : Entering(c, i)
CountAgrees == usersConnected = Cardinality({u \in Users : HasSession(u)})
ConnsAgree ==
    /\ \A c \in Conns : connToId[c] # NoId => idToConn[connToId[c]] = c
    /\ \A i \in Ids : idToConn[i] # NoConn => connToId[idToConn[i]] = i
SessionTablesAgree ==
    /\ UsersAgree /\ IdsAgree /\ CountAgrees
    /\ ~astray => ConnsAgree

(* A handler erases or dereferences the end() of a table, which several do *)
(* without a test, only after a request went astray: no interleaving of    *)
(* logins, logouts and closings of clients that keep to their own sessions *)
(* gets there.                                                             *)
NoUndefinedErase == status = "undefined" => astray

(* Between the moment a login has entered its session and the moment its   *)
(* answer is written, nothing takes the session away: what the client is   *)
(* told is true when it is told.                                           *)
AnsweredSessionIsLive ==
    \A c \in Conns :
        pc[c] \in {"announce", "answer"} /\ call[c].op = "login" /\ call[c].code = 0
            => LET id == call[c].new[1] IN
                  /\ idToConn[id] = c
                  /\ idToUser[id] = call[c].user
                  /\ userToken[id] = call[c].new[2]

(* Of one session Control hears at most that it began and then that it     *)
(* ended: never an end before the beginning, never either of them twice.   *)
AnnouncedInOrder ==
    \A j, k \in DOMAIN sent :
        j < k /\ sent[j].body = sent[k].body
            => sent[j].kind = "NewClient" /\ sent[k].kind = "ClientDisconnect"

-----------------------------------------------------------------------------
(* The inductive invariant behind SessionTablesAgree and NoUndefinedErase. *)

(* A handler past its lock() and before its unlock() owns loginMutex. *)
MutexInv ==
    \A c \in Conns :
        pc[c] \in {"withdraw", "insert", "announce", "answer"} => mutex = c

(* Ids from nextFreeToken on are in no table; a token equals its id. *)
FreshInv ==
    \A i \in Ids :
        /\ i >= nextFreeToken => idToUser[i] = NoUser
        /\ userToken[i] \in {NoId, i}

(* What a login in progress knows of the tables. *)
LoginInv ==
    \A c \in Conns : call[c].op = "login" =>
        /\ pc[c] \in {"lock", "withdraw", "insert"} => call[c].user \in Users
        /\ pc[c] \in {"withdraw", "insert"} =>
               /\ call[c].new = <<nextFreeToken, nextFreeToken>>
               /\ call[c].code = 0
               /\ nextFreeToken \in Ids
               /\ userToId[call[c].user] = NoId
        /\ pc[c] \in {"announce", "answer"} /\ call[c].code = 0 =>
               call[c].new[1] \in 0 .. nextFreeToken - 1

(* A handler runs for a request, and which one decides where it may be. *)
CallInv ==
    \A c \in Conns :
        /\ pc[c] \in {"lock", "withdraw", "answer"} => call[c].op # "none"
        /\ pc[c] \in {"insert", "announce"} => call[c].op = "login"
        /\ call[c].op = "logout" /\ pc[c] = "lock" => call[c].old[1] \in Ids

(* What connectionToIdMap says of a connection was true once: the id was   *)
(* given to it, and is its own or is over.  A closed connection has none.  *)
EntryInv ==
    \A c \in Conns :
        /\ connToId[c] # NoId =>
               /\ connToId[c] < nextFreeToken
               /\ idToConn[connToId[c]] \in {NoConn, c}
        /\ pc[c] = "closed" => connToId[c] = NoId

IInv ==
    /\ TypeOK
    /\ SessionTablesAgree
    /\ MutexInv /\ FreshInv /\ LoginInv /\ CallInv /\ EntryInv
    /\ NoUndefinedErase

-----------------------------------------------------------------------------
(* As long as the process lives, every request is answered or its          *)
(* connection is closed (instClientLogin.txt:9, the answer of Login).      *)
RequestAnswered ==
    \A c \in Conns :
        pc[c] = "lock" ~> \/ pc[c] \in {"idle", "closed"}
                         \/ nextFreeToken = MaxToken \/ status # "running"

(* The tables and the announcements refine the registry of sessions. *)
Registry ==
    INSTANCE SessionRegistry WITH
        NoSession <- [id |-> NoId, conn |-> NoConn],
        session <- [u \in Users |->
                       IF HasSession(u)
                           THEN [id |-> userToId[u], conn |-> idToConn[userToId[u]]]
                           ELSE [id |-> NoId, conn |-> NoConn]],
        issued <- nextFreeToken,
        astray <- astray,
        gone <- {c \in Conns : pc[c] = "closed"}
ImplementsRegistry == Registry!Spec
=============================================================================
