----------------------------- MODULE Connection -----------------------------
(***************************************************************************)
(* TCPConnectionSecurity and the accept loop of ConnectionManager: the     *)
(* connections of a process, the listener thread of each, the accept       *)
(* thread, and the other threads of the process that write to some of the  *)
(* connections or close them.                                              *)
(*                                                                         *)
(* Between the points of pc a thread does what no other thread can tell    *)
(* apart.  A message is an arrival with a known or an unknown instruction. *)
(* Of OpenSSL there is what the callers see: reading and writing succeed   *)
(* or fail, SSL_shutdown sends a close_notify, then waits for one, or      *)
(* fails, and each call with NULL ends the process.                        *)
(***************************************************************************)
EXTENDS Naturals, SequencesExt

CONSTANTS
    Conns,      \* connection objects; the listener of one has its name
    Dialed,     \* those the process may have opened itself, with connect()
    Written,    \* those that threads besides the listener write to or close
    Writers,    \* those threads
    Manager,    \* the accept thread
    Nobody,
    Bidirectional   \* does the manager ask its peers for a certificate?

ASSUME ConnsAssumption == Dialed \subseteq Written /\ Written \subseteq Conns
ASSUME ThreadsAssumption ==
    /\ Conns \cap Writers = {}
    /\ Manager \notin Conns \cup Writers
    /\ Nobody \notin Conns \cup Writers \cup {Manager}
ASSUME BidirectionalAssumption == Bidirectional \in BOOLEAN

Threads == Conns \cup Writers \cup {Manager}

VARIABLES
    online,     \* online[c]
    ssl,        \* ssl[c]: "none" before there is a connection, "set" or "null"
    tListen,    \* tListen[c] # NULL
    watched,    \* the connections with mClosedConn # NULL
    mSendMutex, \* mSendMutex[c]: the thread that holds it, or Nobody
    conexions,  \* the list of the manager
    it,         \* the position of its iterator
    pc,         \* where each thread is
    task,       \* task[t]: the connection t works on, and is it to join?
    gone,       \* the connections whose peer has closed
    notified,   \* the connections on which SSL_shutdown was called
    reports,    \* reports[c]: calls of callOnClose, for properties
    quiet,      \* the connections of which a close(false) returned
    status      \* "running" or "crashed"

objects == <<online, ssl, tListen, watched>>
list    == <<conexions, it>>
history == <<reports, quiet>>
peers   == <<gone, notified>>
vars    == <<objects, mSendMutex, list, pc, task, peers, history, status>>

Closing == {"close", "clear", "ssl", "shutdown", "forget", "report", "drop",
            "join", "joining"}
Places == {"none", "over", "idle", "scan", "accept", "test", "header", "body",
           "handle", "lock", "check", "write"} \cup Closing

Init ==
    /\ online = [c \in Conns |-> FALSE]
    /\ ssl = [c \in Conns |-> "none"]
    /\ tListen = [c \in Conns |-> FALSE]
    /\ watched = {}
    /\ mSendMutex = [c \in Conns |-> Nobody]
    /\ conexions = <<>>
    /\ it = 1
    /\ pc = [t \in Threads |-> IF t \in Conns THEN "none"
                               ELSE IF t \in Writers THEN "idle" ELSE "scan"]
    /\ task = [t \in Threads |->
                  [conn |-> IF t \in Conns THEN t ELSE Nobody, joins |-> FALSE]]
    /\ gone = {}
    /\ notified = {}
    /\ reports = [c \in Conns |-> 0]
    /\ quiet = {}
    /\ status = "running"

Goto(t, place) == pc' = [pc EXCEPT ![t] = place]

Running == status = "running"

(* A call of OpenSSL with NULL, or a join of a deleted thread. *)
Crash ==
    /\ status' = "crashed"
    /\ UNCHANGED <<objects, mSendMutex, list, pc, task, peers, history>>

-----------------------------------------------------------------------------
(* close(threadListen), by thread t on its connection.  A listener and a   *)
(* failing sendAnswer pass TRUE, everybody else FALSE, and then joins.     *)

(* Variant of TestOnline: close does not look whether it was done before.  *)
TestNothing(t) ==
    /\ pc[t] = "close"
    /\ Goto(t, "clear")
    /\ UNCHANGED <<objects, mSendMutex, list, task, peers, history, status>>

(* if (isLinkOnline()), under mOnlineMutex, which is given back.           *)
TestOnline(t) ==
    /\ pc[t] = "close"
    /\ Goto(t, IF online[task[t].conn] THEN "clear" ELSE "drop")
    /\ UNCHANGED <<objects, mSendMutex, list, task, peers, history, status>>

Clear(t) ==
    /\ pc[t] = "clear"
    /\ online' = [online EXCEPT ![task[t].conn] = FALSE]
    /\ Goto(t, "ssl")
    /\ UNCHANGED <<ssl, tListen, watched, mSendMutex, list, task, peers,
                   history, status>>

TestSsl(t) ==
    /\ pc[t] = "ssl"
    /\ Goto(t, IF ssl[task[t].conn] = "set" THEN "shutdown" ELSE "join")
    /\ UNCHANGED <<objects, mSendMutex, list, task, peers, history, status>>

(* while (shutdown == 0) shutdown = SSL_shutdown(ssl): the first call      *)
(* sends a close_notify, a later one waits for that of the peer; any may   *)
(* return -1, on an error of the link, whether or not the peer is there.   *)
(* Nothing can be written afterwards.                                      *)
Shutdown(t) ==
    LET c == task[t].conn IN
    /\ pc[t] = "shutdown"
    /\ \/ ssl[c] = "null" /\ Crash
       \/ /\ ssl[c] = "set"
          /\ Goto(t, "forget") \/ (c \notin notified /\ UNCHANGED pc)
          /\ notified' = notified \cup {c}
          /\ UNCHANGED <<objects, mSendMutex, list, task, gone, history, status>>

(* Variant of Forget: the owner is told if the link is online, still.      *)
ForgetLate(t) ==
    LET c == task[t].conn IN
    /\ pc[t] = "forget"
    /\ ssl' = [ssl EXCEPT ![c] = "null"]
    /\ online' = [online EXCEPT ![c] = FALSE]
    /\ Goto(t, IF c \in watched /\ online[c] THEN "report" ELSE "join")
    /\ UNCHANGED <<tListen, watched, mSendMutex, list, task, peers, history, status>>

Forget(t) ==
    LET c == task[t].conn IN
    /\ pc[t] = "forget"
    /\ ssl' = [ssl EXCEPT ![c] = "null"]
    /\ online' = [online EXCEPT ![c] = FALSE]
    /\ Goto(t, IF c \in watched THEN "report" ELSE "join")
    /\ UNCHANGED <<tListen, watched, mSendMutex, list, task, peers, history, status>>

(* callOnClose, which returns. *)
Report(t) ==
    /\ pc[t] = "report"
    /\ reports' = [reports EXCEPT ![task[t].conn] = @ + 1]
    /\ Goto(t, "join")
    /\ UNCHANGED <<objects, mSendMutex, list, task, peers, quiet, status>>

(* The else branch: somebody has closed or is closing. *)
Drop(t) ==
    /\ pc[t] = "drop"
    /\ ssl' = [ssl EXCEPT ![task[t].conn] = "null"]
    /\ Goto(t, "join")
    /\ UNCHANGED <<online, tListen, watched, mSendMutex, list, task, peers,
                   history, status>>

(* Variant of Return: the iterator goes back once too often. *)
ReturnBack(t) ==
    LET c == task[t].conn IN
    /\ Goto(t, IF t = Manager THEN "scan" ELSE IF t \in Conns THEN "test" ELSE "idle")
    /\ mSendMutex' = [mSendMutex EXCEPT ![c] = IF @ = t THEN Nobody ELSE @]
    /\ conexions' = IF t # Manager THEN conexions
                    ELSE IF Contains(conexions, c) THEN RemoveAt(conexions, it)
                    ELSE Append(conexions, c)
    /\ it' = IF t = Manager /\ ~Contains(conexions, c) THEN 1 ELSE it - 1
    /\ quiet' = IF task[t].joins THEN quiet \cup {c} ELSE quiet
    /\ UNCHANGED <<online, ssl, watched, task, peers, reports>>

(* Where a thread goes when its close returns: a listener back to its      *)
(* loop, a writer out of its call, the manager to the next connection,     *)
(* with c out of its list, or in it, had its certificate been refused.     *)
(* The lock_guard of a send gives mSendMutex back.                         *)
Return(t) ==
    LET c == task[t].conn IN
    /\ Goto(t, IF t = Manager THEN "scan" ELSE IF t \in Conns THEN "test" ELSE "idle")
    /\ mSendMutex' = [mSendMutex EXCEPT ![c] = IF @ = t THEN Nobody ELSE @]
    /\ conexions' = IF t # Manager THEN conexions
                    ELSE IF Contains(conexions, c) THEN RemoveAt(conexions, it)
                    ELSE Append(conexions, c)
    /\ it' = IF t = Manager /\ ~Contains(conexions, c) THEN 1 ELSE it
    /\ quiet' = IF task[t].joins THEN quiet \cup {c} ELSE quiet
    /\ UNCHANGED <<online, ssl, watched, task, peers, reports>>

(* Variant of TestJoin: no close joins. *)
TestJoinNever(t) ==
    /\ pc[t] = "join"
    /\ Return(t)
    /\ UNCHANGED <<tListen, status>>

(* if (!threadListen && tListen != NULL), at the end of both branches.     *)
TestJoin(t) ==
    LET c == task[t].conn IN
    /\ pc[t] = "join"
    /\ \/ /\ task[t].joins /\ tListen[c]
          /\ Goto(t, "joining")
          /\ UNCHANGED <<objects, mSendMutex, list, task, peers, history>>
       \/ /\ ~(task[t].joins /\ tListen[c])
          /\ Return(t)
          /\ UNCHANGED tListen
    /\ UNCHANGED status

(* tListen->join() and delete; another thread may have done so meanwhile.  *)
Join(t) ==
    LET c == task[t].conn IN
    /\ pc[t] = "joining"
    /\ pc[c] = "over"
    /\ \/ ~tListen[c] /\ Crash
       \/ /\ tListen[c]
          /\ tListen' = [tListen EXCEPT ![c] = FALSE]
          /\ Return(t)
          /\ UNCHANGED status

Close(t) ==
    \/ TestOnline(t) \/ Clear(t) \/ TestSsl(t) \/ Shutdown(t) \/ Forget(t)
    \/ Report(t) \/ Drop(t) \/ TestJoin(t) \/ Join(t)

-----------------------------------------------------------------------------
(* send and sendAnswer, by thread t on its connection; send looks whether  *)
(* the link is online and closes with FALSE, sendAnswer does neither.      *)

Lock(t) ==
    LET c == task[t].conn IN
    /\ pc[t] = "lock"
    /\ mSendMutex[c] = Nobody
    /\ mSendMutex' = [mSendMutex EXCEPT ![c] = t]
    /\ Goto(t, IF task[t].joins THEN "check" ELSE "write")
    /\ UNCHANGED <<objects, list, task, peers, history, status>>

Sent(t) ==
    /\ mSendMutex' = [mSendMutex EXCEPT ![task[t].conn] = Nobody]
    /\ Goto(t, IF t \in Conns THEN "test" ELSE "idle")
    /\ UNCHANGED <<objects, list, task, peers, history, status>>

Check(t) ==
    /\ pc[t] = "check"
    /\ \/ /\ online[task[t].conn]
          /\ Goto(t, "write")
          /\ UNCHANGED <<objects, mSendMutex, list, task, peers, history, status>>
       \/ ~online[task[t].conn] /\ Sent(t)

(* SSL_write fails after SSL_shutdown, and may fail with the peer gone.    *)
Write(t) ==
    LET c == task[t].conn IN
    /\ pc[t] = "write"
    /\ \/ ssl[c] = "null" /\ Crash
       \/ ssl[c] = "set" /\ c \notin notified /\ Sent(t)
       \/ /\ ssl[c] = "set" /\ c \in gone \cup notified
          /\ Goto(t, "close")
          /\ UNCHANGED <<objects, mSendMutex, list, task, peers, history, status>>

Send(t) == Lock(t) \/ Check(t) \/ Write(t)

-----------------------------------------------------------------------------
(* The listener thread: receiveThread and receiveTransfThread.             *)

Test(c) ==
    /\ pc[c] = "test"
    /\ Goto(c, IF online[c] THEN "header" ELSE "over")
    /\ UNCHANGED <<objects, mSendMutex, list, task, peers, history, status>>

(* Variant of Read: the end of the data is not seen as an error. *)
ReadOnAtEnd(c, places) ==
    \/ ssl[c] = "null" /\ Crash
    \/ /\ ssl[c] = "set"
       /\ \E place \in places \cup {"close"} :
            /\ place = "close" => c \notin gone
            /\ Goto(c, place)
       /\ UNCHANGED <<objects, mSendMutex, list, task, peers, history, status>>

(* SSL_read brings what was awaited, or fails: at the end of the data, or  *)
(* on an error.  A peer is gone when all that it sent has been read.       *)
Read(c, places) ==
    \/ ssl[c] = "null" /\ Crash
    \/ /\ ssl[c] = "set"
       /\ \E place \in places \cup {"close"} :
            /\ place # "close" => c \notin gone
            /\ Goto(c, place)
       /\ UNCHANGED <<objects, mSendMutex, list, task, peers, history, status>>

(* With an unknown instruction the body is not read: back to the loop.     *)
Header(c) == pc[c] = "header" /\ Read(c, {"body", "test"})

Body(c) == pc[c] = "body" /\ Read(c, {"handle"})

(* The callback returns, or it answers on its connection. *)
Handle(c) ==
    /\ pc[c] = "handle"
    /\ \E place \in {"test", "lock"} : Goto(c, place)
    /\ UNCHANGED <<objects, mSendMutex, list, task, peers, history, status>>

Listener(c) ==
    Running /\ (Test(c) \/ Header(c) \/ Body(c) \/ Handle(c) \/ Send(c) \/ Close(c))

-----------------------------------------------------------------------------
(* The accept thread: checkConexionsOffline, then accept.                  *)

Scan ==
    /\ pc[Manager] = "scan"
    /\ \/ /\ it > Len(conexions)
          /\ Goto(Manager, "accept")
          /\ UNCHANGED <<task, it>>
       \/ /\ it <= Len(conexions) /\ online[conexions[it]]
          /\ it' = it + 1
          /\ UNCHANGED <<pc, task>>
       \/ /\ it <= Len(conexions) /\ ~online[conexions[it]]
          /\ Goto(Manager, "close")
          /\ task' = [task EXCEPT ![Manager] = [conn |-> conexions[it], joins |-> TRUE]]
          /\ UNCHANGED it
    /\ UNCHANGED <<objects, mSendMutex, conexions, peers, history, status>>

(* A new TCPConnectionSecurity(ssl, port), or none after an error. *)
Accept(c) ==
    /\ pc[Manager] = "accept"
    /\ ssl[c] = "none"
    /\ ssl' = [ssl EXCEPT ![c] = "set"]
    /\ online' = [online EXCEPT ![c] = TRUE]
    /\ \/ /\ tListen' = [tListen EXCEPT ![c] = TRUE]
          /\ watched' = watched \cup {c}
          /\ conexions' = Append(conexions, c)
          /\ it' = 1
          /\ pc' = [pc EXCEPT ![c] = "test", ![Manager] = "scan"]
          /\ UNCHANGED task
       \/ /\ Bidirectional
          /\ Goto(Manager, "close")
          /\ task' = [task EXCEPT ![Manager] = [conn |-> c, joins |-> TRUE]]
          /\ UNCHANGED <<tListen, watched, list>>
    /\ UNCHANGED <<mSendMutex, peers, history, status>>

AcceptFails ==
    /\ pc[Manager] = "accept"
    /\ Goto(Manager, "scan")
    /\ it' = 1
    /\ UNCHANGED <<objects, mSendMutex, conexions, task, peers, history, status>>

-----------------------------------------------------------------------------
(* The other threads, and the peers. *)

(* connect(), when it succeeds; when it does not the object is deleted.    *)
Connect(w, c) ==
    /\ pc[w] = "idle"
    /\ c \in Dialed /\ ssl[c] = "none"
    /\ ssl' = [ssl EXCEPT ![c] = "set"]
    /\ online' = [online EXCEPT ![c] = TRUE]
    /\ tListen' = [tListen EXCEPT ![c] = TRUE]
    /\ Goto(c, "test")
    /\ UNCHANGED <<watched, mSendMutex, list, task, peers, history, status>>

(* A thread calls send, sendAnswer or close of a connection. *)
Call(w, c) ==
    /\ pc[w] = "idle"
    /\ c \in Written /\ ssl[c] # "none" /\ pc[c] # "none"
    /\ \/ Goto(w, "lock") /\ \E joins \in BOOLEAN :
            task' = [task EXCEPT ![w] = [conn |-> c, joins |-> joins]]
       \/ Goto(w, "close") /\ task' = [task EXCEPT ![w] = [conn |-> c, joins |-> TRUE]]
    /\ UNCHANGED <<objects, mSendMutex, list, peers, history, status>>

(* The peer closes or dies; one that is told so closes too. *)
PeerLeaves(c) ==
    /\ Running
    /\ ssl[c] # "none" /\ c \notin gone
    /\ gone' = gone \cup {c}
    /\ UNCHANGED <<objects, mSendMutex, list, pc, task, notified, history, status>>

Goes(t) == Running /\ (Send(t) \/ Close(t))

Next ==
    \/ \E c \in Conns : Listener(c) \/ PeerLeaves(c) \/ (Running /\ Accept(c))
    \/ Running /\ (Scan \/ AcceptFails)
    \/ \E t \in Threads \ Conns : Goes(t)
    \/ Running /\ \E w \in Writers, c \in Conns : Connect(w, c) \/ Call(w, c)

Spec == Init /\ [][Next]_vars

(* Listeners run. *)
FairSpec == Spec /\ \A c \in Conns : WF_vars(Listener(c))

-----------------------------------------------------------------------------
(* Properties. *)

(* Each variable has a value of the kind its declaration says.             *)
TypeOK ==
    /\ online \in [Conns -> BOOLEAN]
    /\ ssl \in [Conns -> {"none", "set", "null"}]
    /\ tListen \in [Conns -> BOOLEAN]
    /\ watched \subseteq Conns
    /\ mSendMutex \in [Conns -> Threads \cup {Nobody}]
    /\ conexions \in Seq(Conns) /\ it \in Nat \ {0}
    /\ pc \in [Threads -> Places]
    /\ task \in [Threads -> [conn : Conns \cup {Nobody}, joins : BOOLEAN]]
    /\ gone \subseteq Conns /\ notified \subseteq Conns /\ quiet \subseteq Conns
    /\ reports \in [Conns -> Nat]
    /\ status \in {"running", "crashed"}

(* When a close(false) has returned, of the manager, of a destructor or of *)
(* a failing send, the listener has ended: no handler of this connection   *)
(* runs any more (the join in both branches of close).                     *)
ClosedIsQuiet == \A c \in quiet : pc[c] \in {"none", "over"}

(* When the listener of a connection that only it writes to has ended,     *)
(* callOnClose was called, unless the manager came first: it closes        *)
(* whatever is offline, and sets ssl to NULL before the listener has       *)
(* looked at it.                                                           *)
CloseIsReported ==
    \A c \in Conns \ Written :
        /\ pc[c] = "over"
        /\ Contains(conexions, c)
        /\ ~(pc[Manager] \in Closing /\ task[Manager].conn = c)
        => reports[c] = 1

(* A peer that goes is noticed: the listener of such a connection ends,    *)
(* and with it the join of the manager (the cases of SSL_read that close). *)
ListenerEnds ==
    \A c \in Conns \ Written :
        c \in gone ~> (pc[c] \in {"none", "over"} \/ ~Running)

(* Whoever closes it how often, such a connection is opened and closed     *)
(* once, and reported once, between its end and that of its listener (the  *)
(* test of online in close).                                               *)
Lifecycle ==
    INSTANCE ConnectionLifecycle WITH
        Conns <- Conns \ Written,
        phase <- [c \in Conns \ Written |->
                     CASE ssl[c] = "none" -> "new"
                       [] ssl[c] # "none" /\ online[c] -> "open"
                       [] ssl[c] # "none" /\ ~online[c] /\ pc[c] # "over" -> "closed"
                       [] OTHER -> "ended"],
        told <- [c \in Conns \ Written |-> reports[c]]
ImplementsLifecycle == Lifecycle!Spec
=============================================================================
