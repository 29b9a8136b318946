-------------------------- MODULE Connection_proofs --------------------------
(***************************************************************************)
(* Proofs about Connection, for any connections, writers and interleaving: *)
(* the type invariant, that a close(false) leaves no handler running, that *)
(* the connections only their listeners write to implement the             *)
(* ConnectionLifecycle, and that the owner is told when one has ended.     *)
(***************************************************************************)
EXTENDS Connection, SequenceTheorems, TLAPS

USE ConnsAssumption, ThreadsAssumption, BidirectionalAssumption

(* While t is in one of these places it works on the connection of its task. *)
Busy == {"lock", "check", "write"} \cup Closing

(* A connection object starts with nothing and never starts again; a       *)
(* listener that runs has its thread object, and its thread object is      *)
(* deleted only when it has ended.                                         *)
ObjectInv ==
    \A c \in Conns :
        /\ ssl[c] = "none" => pc[c] = "none" /\ ~online[c]
        /\ pc[c] = "none" => c \notin watched /\ ~tListen[c] /\ reports[c] = 0
        /\ pc[c] \notin {"none", "over"} => tListen[c]
        /\ pc[c] = "over" => ~online[c]

(* A listener works on its own connection and passes TRUE to close.        *)
ListenerInv ==
    \A c \in Conns :
        /\ task[c].conn = c /\ ~task[c].joins
        /\ pc[c] \notin {"idle", "scan", "accept", "joining"}

(* Other threads work on connections that exist, and writers on those that *)
(* were given to them.                                                     *)
WriterInv ==
    \A w \in Writers :
        /\ pc[w] \in {"idle"} \cup Busy
        /\ pc[w] # "idle" => /\ task[w].conn \in Written
                             /\ ssl[task[w].conn] # "none"
                             /\ pc[task[w].conn] # "none"

(* The manager closes what is offline, or what it has just refused; of the *)
(* latter nobody else knows.                                               *)
ManagerInv ==
    /\ pc[Manager] \in {"scan", "accept"} \cup (Closing \ {"report"})
    /\ pc[Manager] \in Closing =>
          LET c == task[Manager].conn IN
          /\ c \in Conns /\ task[Manager].joins
          /\ ssl[c] # "none"
          /\ (it <= Len(conexions) /\ conexions[it] = c) \/ ~Contains(conexions, c)
          /\ pc[Manager] = "close" /\ online[c] => pc[c] = "none"
          /\ pc[Manager] = "clear" => online[c]
          /\ pc[Manager] \in {"ssl", "shutdown", "forget"} => ~online[c]
          /\ pc[Manager] \in {"clear", "ssl", "shutdown", "forget"} => pc[c] = "none"

ListInv == \A k \in 1 .. Len(conexions) : ssl[conexions[k]] # "none"

QuietInv == \A c \in quiet : ssl[c] # "none" /\ pc[c] \in {"none", "over"}

(* Only its listener closes a connection that only it writes to, and only  *)
(* once; what the manager finds is already offline.                        *)
LifeInv ==
    \A c \in Conns \ Written :
        /\ pc[c] = "clear" => online[c]
        /\ pc[c] \in {"ssl", "shutdown", "forget", "report"} => ~online[c]
        /\ pc[c] \in {"clear", "ssl", "shutdown", "forget", "report"} => reports[c] = 0
        /\ reports[c] \in {0, 1}
        /\ reports[c] = 1 => ~online[c]

IInv ==
    /\ TypeOK
    /\ ObjectInv /\ ListenerInv /\ WriterInv /\ ManagerInv
    /\ ListInv /\ QuietInv /\ LifeInv

(* A busy thread works on a connection that exists.                        *)
LEMMA BusyTask ==
  ASSUME IInv, NEW t \in Threads, pc[t] \in Busy
  PROVE  /\ task[t].conn \in Conns
         /\ ssl[task[t].conn] # "none"
         /\ t \in Conns => task[t].conn = t /\ ~task[t].joins
         /\ t \in Writers => pc[task[t].conn] # "none"
<1>1. CASE t \in Conns
  BY <1>1 DEF IInv, ListenerInv, ObjectInv, Busy, Closing
<1>2. CASE t \in Writers
  BY <1>2 DEF IInv, WriterInv, Busy, Closing
<1>3. CASE t = Manager
  BY <1>3 DEF IInv, ManagerInv, Busy, Closing
<1> QED
  BY <1>1, <1>2, <1>3 DEF Threads

(* Taking the element at i out of a sequence: the others stay in order.    *)
LEMMA RemoveAtIndex ==
  ASSUME NEW S, NEW s \in Seq(S), NEW i \in 1 .. Len(s)
  PROVE  /\ RemoveAt(s, i) \in Seq(S)
         /\ Len(RemoveAt(s, i)) = Len(s) - 1
         /\ \A k \in 1 .. Len(s) - 1 :
               RemoveAt(s, i)[k] = IF k < i THEN s[k] ELSE s[k + 1]
<1> DEFINE a == SubSeq(s, 1, i - 1)
           b == SubSeq(s, i + 1, Len(s))
<1>0. i \in Nat /\ Len(s) \in Nat
  OBVIOUS
<1>1. a \in Seq(S) /\ Len(a) = i - 1 /\ \A k \in 1 .. i - 1 : a[k] = s[k]
  OBVIOUS
<1>2. b \in Seq(S) /\ Len(b) = Len(s) - i /\ \A k \in 1 .. Len(s) - i : b[k] = s[i + k]
  OBVIOUS
<1>3. RemoveAt(s, i) = a \o b
  BY DEF RemoveAt
<1> HIDE DEF a, b
<1>4. /\ a \o b \in Seq(S) /\ Len(a \o b) = Len(a) + Len(b)
      /\ \A k \in 1 .. Len(a) + Len(b) :
            (a \o b)[k] = IF k <= Len(a) THEN a[k] ELSE b[k - Len(a)]
  <2>1. a \in Seq(S) /\ b \in Seq(S)
    BY <1>1, <1>2
  <2> QED
    BY <2>1, ConcatProperties, Zenon
<1>5. ASSUME NEW k \in 1 .. Len(s) - 1
      PROVE  (a \o b)[k] = IF k < i THEN s[k] ELSE s[k + 1]
  <2>1. CASE k < i
    BY <1>1, <1>2, <1>4, <2>1
  <2>2. CASE k >= i
    <3>1. k - Len(a) \in 1 .. Len(s) - i /\ i + (k - Len(a)) = k + 1
      BY <1>1, <2>2
    <3>2. b[k - Len(a)] = s[i + (k - Len(a))]
      BY <1>2, <3>1
    <3> QED
      BY <1>1, <1>2, <1>4, <2>2, <3>1, <3>2
  <2>3. k < i \/ k >= i
    BY <1>0
  <2> QED
    BY <2>1, <2>2, <2>3, Zenon
<1> QED
  BY <1>0, <1>1, <1>2, <1>3, <1>4, <1>5

(* What a close that returns leaves of the list of the manager.            *)
LEMMA ReturnList ==
  ASSUME IInv, NEW t \in Threads, pc[t] \in {"join", "joining"}, Return(t)
  PROVE  /\ conexions' \in Seq(Conns) /\ it' \in Nat \ {0}
         /\ ListInv'
<1>0. conexions \in Seq(Conns) /\ it \in Nat \ {0}
  BY DEF IInv, TypeOK
<1>1. task[t].conn \in Conns /\ ssl[task[t].conn] # "none"
  BY BusyTask DEF Busy, Closing
<1>2. it' \in Nat \ {0}
  BY <1>0 DEF Return
<1>3. CASE conexions' = conexions
  BY <1>0, <1>2, <1>3 DEF IInv, ListInv, Return
<1>4. CASE conexions' = Append(conexions, task[t].conn)
  BY <1>0, <1>1, <1>2, <1>4 DEF IInv, ListInv, Return
<1>5. CASE t = Manager /\ Contains(conexions, task[t].conn)
           /\ conexions' = RemoveAt(conexions, it)
  <2>1. it \in 1 .. Len(conexions)
    BY <1>0, <1>5 DEF IInv, ManagerInv, Closing
  <2>2. /\ conexions' \in Seq(Conns)
        /\ \A k \in 1 .. Len(conexions') :
             \E j \in 1 .. Len(conexions) : conexions'[k] = conexions[j]
    <3>1. /\ conexions' \in Seq(Conns) /\ Len(conexions') = Len(conexions) - 1
          /\ \A k \in 1 .. Len(conexions) - 1 :
                conexions'[k] = IF k < it THEN conexions[k] ELSE conexions[k + 1]
      BY <1>0, <1>5, <2>1, RemoveAtIndex
    <3>2. \A k \in 1 .. Len(conexions) - 1 :
             k \in 1 .. Len(conexions) /\ k + 1 \in 1 .. Len(conexions)
      BY <1>0
    <3> QED
      BY <3>1, <3>2
  <2>3. \A j \in 1 .. Len(conexions) : ssl[conexions[j]] # "none"
    BY DEF IInv, ListInv
  <2>4. ssl' = ssl
    BY DEF Return
  <2>5. ListInv'
    BY <2>2, <2>3, <2>4 DEF ListInv
  <2> QED
    BY <1>2, <2>2, <2>5
<1> QED
  BY <1>3, <1>4, <1>5 DEF Return

(* A close(false) returns when the listener has ended.                     *)
LEMMA JoinedIsOver ==
  ASSUME IInv, NEW t \in Threads, task[t].joins,
         \/ pc[t] = "join" /\ ~tListen[task[t].conn]
         \/ pc[t] = "joining" /\ pc[task[t].conn] = "over"
  PROVE  pc[task[t].conn] \in {"none", "over"}
<1>1. task[t].conn \in Conns
  BY BusyTask DEF Busy, Closing
<1> QED
  BY <1>1 DEF IInv, ObjectInv

(* Steps in which a thread goes on and nothing else changes.               *)
Moves(t, p) ==
    /\ pc' = [pc EXCEPT ![t] = p]
    /\ UNCHANGED <<objects, mSendMutex, list, task, peers, history, status>>
    /\ \/ pc[t] = "close" /\ p = IF online[task[t].conn] THEN "clear" ELSE "drop"
       \/ pc[t] = "ssl" /\ p = IF ssl[task[t].conn] = "set" THEN "shutdown" ELSE "join"
       \/ pc[t] = "join" /\ p = "joining" /\ task[t].joins
       \/ pc[t] = "check" /\ p = "write"
       \/ pc[t] \in {"write", "header", "body"} /\ p = "close"
       \/ /\ t \in Conns /\ pc[t] \in {"test", "header", "body", "handle"}
          /\ p \in {"test", "header", "body", "handle", "lock"}
       \/ t \in Conns /\ pc[t] = "test" /\ ~online[t] /\ p = "over"

(* They disturb nothing. *)
LEMMA MoveStep ==
  ASSUME IInv, NEW t \in Threads, NEW p, Moves(t, p)
  PROVE  IInv'
<1>1. TypeOK'
  BY DEF IInv, TypeOK, Moves, Closing, Places, objects, list, history, peers
<1>2. ObjectInv'
  BY DEF IInv, ObjectInv, Moves, objects, history
<1>3. ListenerInv'
  BY DEF IInv, ListenerInv, Moves
<1>4. ListInv'
  BY DEF IInv, ListInv, Moves, objects, list
<1>5. QuietInv'
  BY DEF IInv, QuietInv, Moves, objects, history
<1>6. WriterInv'
  BY DEF IInv, WriterInv, Moves, Closing, Busy, objects
<1>7. ManagerInv'
  BY DEF IInv, ManagerInv, Moves, Closing, objects, list
<1>8. LifeInv'
  BY DEF IInv, ListenerInv, LifeInv, Moves, objects, history
<1> QED
  BY <1>1, <1>2, <1>3, <1>4, <1>5, <1>6, <1>7, <1>8 DEF IInv

(* Which those are, beside what returns, has sent or crashes. *)
LEMMA Movers ==
  ASSUME NEW t \in Threads
  PROVE  /\ TestOnline(t) \/ TestSsl(t) => \E p : Moves(t, p)
         /\ TestJoin(t) => \/ \E p : Moves(t, p)
                           \/ /\ pc[t] = "join" /\ ~(task[t].joins /\ tListen[task[t].conn])
                              /\ Return(t) /\ UNCHANGED <<tListen, status>>
         /\ Check(t) \/ Write(t) => \/ Crash \/ \E p : Moves(t, p)
                                    \/ pc[t] \in {"check", "write"} /\ Sent(t)
         /\ t \in Conns /\ (Test(t) \/ Header(t) \/ Body(t) \/ Handle(t)) =>
               Crash \/ \E p : Moves(t, p)
<1> USE DEF Goto
<1>1. TestOnline(t) => Moves(t, "clear") \/ Moves(t, "drop")
  BY DEF TestOnline, Moves
<1>2. TestSsl(t) => Moves(t, "shutdown") \/ Moves(t, "join")
  BY DEF TestSsl, Moves
<1>3. TestJoin(t) => \/ Moves(t, "joining")
                     \/ /\ pc[t] = "join" /\ ~(task[t].joins /\ tListen[task[t].conn])
                        /\ Return(t) /\ UNCHANGED <<tListen, status>>
  BY DEF TestJoin, Moves
<1>4. Check(t) => Moves(t, "write") \/ (pc[t] = "check" /\ Sent(t))
  BY DEF Check, Moves
<1>5. Write(t) => Moves(t, "close") \/ Crash \/ (pc[t] = "write" /\ Sent(t))
  BY DEF Write, Moves
<1>6. t \in Conns /\ Test(t) => Moves(t, "header") \/ Moves(t, "over")
  BY DEF Test, Moves
<1>7. t \in Conns /\ Header(t) =>
        Moves(t, "body") \/ Moves(t, "test") \/ Moves(t, "close") \/ Crash
  BY DEF Header, Read, Moves
<1>8. t \in Conns /\ Body(t) => Moves(t, "handle") \/ Moves(t, "close") \/ Crash
  BY DEF Body, Read, Moves
<1>9. t \in Conns /\ Handle(t) => Moves(t, "test") \/ Moves(t, "lock")
  BY DEF Handle, Moves
<1> QED
  BY <1>1, <1>2, <1>3, <1>4, <1>5, <1>6, <1>7, <1>8, <1>9

(* A crash stops everything where it is.                                   *)
LEMMA CrashStep ==
  ASSUME IInv, Crash
  PROVE  IInv'
<1>1. TypeOK'
  BY DEF IInv, TypeOK, Crash, objects, list, history, peers
<1>2. ObjectInv' /\ ListenerInv' /\ ListInv' /\ QuietInv'
  BY DEF IInv, ListenerInv, ObjectInv, ListInv, QuietInv, Crash, objects, list, history
<1>3. WriterInv'
  BY DEF IInv, WriterInv, Crash, objects
<1>4. ManagerInv'
  BY DEF IInv, ManagerInv, Crash, objects, list
<1>5. LifeInv'
  BY DEF IInv, LifeInv, Crash, objects, history
<1> QED
  BY <1>1, <1>2, <1>3, <1>4, <1>5 DEF IInv

(* A send that is done gives the connection back.                          *)
LEMMA SentStep ==
  ASSUME IInv, NEW t \in Threads, pc[t] \in {"check", "write"}, Sent(t)
  PROVE  IInv'
<1>1. TypeOK'
  BY DEF IInv, TypeOK, Sent, Goto, Places, objects, list, history, peers
<1>2. ObjectInv' /\ ListenerInv' /\ ListInv' /\ QuietInv'
  BY DEF IInv, ListenerInv, ObjectInv, ListInv, QuietInv, Sent, Goto, objects, list, history
<1>3. WriterInv'
  BY DEF IInv, WriterInv, Sent, Goto, objects
<1>4. ManagerInv'
  BY DEF IInv, ManagerInv, Sent, Goto, Closing, objects, list
<1>5. LifeInv'
  BY DEF IInv, LifeInv, Sent, Goto, objects, history
<1> QED
  BY <1>1, <1>2, <1>3, <1>4, <1>5 DEF IInv

(* The first that closes takes the link offline.                           *)
LEMMA ClearStep ==
  ASSUME IInv, NEW t \in Threads, Clear(t)
  PROVE  IInv'
<1>1. TypeOK'
  BY DEF IInv, TypeOK, Clear, Goto, Closing, Places, list, history, peers
<1>2. ObjectInv' /\ ListenerInv' /\ ListInv' /\ QuietInv'
  BY DEF IInv, ListenerInv, ObjectInv, ListInv, QuietInv, Clear, Goto, list, history
<1>3. WriterInv'
  BY DEF IInv, WriterInv, Clear, Goto, Closing, Busy
<1>4. ManagerInv'
  BY DEF IInv, TypeOK, ListenerInv, WriterInv, ManagerInv, Clear, Goto, Closing, Threads,
     list
<1>5. LifeInv'
  BY DEF IInv, TypeOK, ListenerInv, WriterInv, ManagerInv, LifeInv, Clear, Goto, Threads,
     history
<1> QED
  BY <1>1, <1>2, <1>3, <1>4, <1>5 DEF IInv

(* After the shutdown there is no ssl any more.                            *)
LEMMA ForgetStep ==
  ASSUME IInv, NEW t \in Threads, Forget(t)
  PROVE  IInv'
<1>1. TypeOK'
  BY DEF IInv, TypeOK, Forget, Goto, Closing, Places, list, history, peers
<1>2. ObjectInv' /\ ListenerInv' /\ ListInv' /\ QuietInv'
  BY DEF IInv, ListenerInv, ObjectInv, ListInv, QuietInv, Forget, Goto, list, history
<1>3. WriterInv'
  BY DEF IInv, WriterInv, Forget, Goto, Closing, Busy
<1>4. ManagerInv'
  BY DEF IInv, ListenerInv, WriterInv, ManagerInv, ObjectInv, Forget, Goto, Closing,
     Threads, list
<1>5. LifeInv'
  BY DEF IInv, ListenerInv, WriterInv, ManagerInv, LifeInv, Forget, Goto, Threads, history
<1> QED
  BY <1>1, <1>2, <1>3, <1>4, <1>5 DEF IInv

(* The owner is told.                                                      *)
LEMMA ReportStep ==
  ASSUME IInv, NEW t \in Threads, Report(t)
  PROVE  IInv'
<1>1. TypeOK'
  BY DEF IInv, TypeOK, ListenerInv, WriterInv, ManagerInv, Report, Goto, Closing, Places,
     Threads, objects, list, peers
<1>2. ObjectInv' /\ ListenerInv' /\ ListInv' /\ QuietInv'
  BY DEF IInv, ListenerInv, WriterInv, ManagerInv, ObjectInv, ListInv, QuietInv, Report,
     Goto, Threads, objects, list
<1>3. WriterInv'
  BY DEF IInv, WriterInv, Report, Goto, Closing, Busy, objects
<1>4. ManagerInv'
  BY DEF IInv, ManagerInv, Report, Goto, objects, list
<1>5. LifeInv'
  BY DEF IInv, TypeOK, ListenerInv, WriterInv, ManagerInv, LifeInv, Report, Goto, Threads,
     objects
<1> QED
  BY <1>1, <1>2, <1>3, <1>4, <1>5 DEF IInv

(* Who finds the link offline sets ssl to NULL and goes to the join.       *)
LEMMA DropStep ==
  ASSUME IInv, NEW t \in Threads, Drop(t)
  PROVE  IInv'
<1>1. TypeOK'
  BY DEF IInv, TypeOK, Drop, Goto, Closing, Places, list, history, peers
<1>2. ObjectInv' /\ ListenerInv' /\ ListInv' /\ QuietInv'
  BY DEF IInv, ListenerInv, ObjectInv, ListInv, QuietInv, Drop, Goto, list, history
<1>3. WriterInv'
  BY DEF IInv, WriterInv, Drop, Goto, Closing, Busy
<1>4. ManagerInv'
  BY DEF IInv, ManagerInv, Drop, Goto, Closing, list
<1>5. LifeInv'
  BY DEF IInv, LifeInv, Drop, Goto, history
<1> QED
  BY <1>1, <1>2, <1>3, <1>4, <1>5 DEF IInv

(* A thread takes the send mutex of its connection.                        *)
LEMMA LockStep ==
  ASSUME IInv, NEW t \in Threads, Lock(t)
  PROVE  IInv'
<1>1. TypeOK'
  BY DEF IInv, TypeOK, Lock, Goto, Places, objects, list, history, peers
<1>2. ObjectInv' /\ ListenerInv' /\ ListInv' /\ QuietInv'
  BY DEF IInv, ListenerInv, ObjectInv, ListInv, QuietInv, Lock, Goto, objects, list, history
<1>3. WriterInv'
  BY DEF IInv, WriterInv, Lock, Goto, Busy, objects
<1>4. ManagerInv'
  BY DEF IInv, ManagerInv, Lock, Goto, Closing, objects, list
<1>5. LifeInv'
  BY DEF IInv, LifeInv, Lock, Goto, objects, history
<1> QED
  BY <1>1, <1>2, <1>3, <1>4, <1>5 DEF IInv

(* The accept thread after an error.                                       *)
LEMMA AcceptFailsStep ==
  ASSUME IInv, AcceptFails
  PROVE  IInv'
<1>1. TypeOK'
  BY DEF IInv, TypeOK, AcceptFails, Goto, Places, Threads, objects, history, peers
<1>2. ObjectInv' /\ ListenerInv' /\ ListInv' /\ QuietInv'
  BY DEF IInv, ListenerInv, ObjectInv, ListInv, QuietInv, AcceptFails, Goto, objects,
     history
<1>3. WriterInv'
  BY DEF IInv, WriterInv, AcceptFails, Goto, objects
<1>4. ManagerInv'
  BY DEF ManagerInv, AcceptFails, Goto, Closing
<1>5. LifeInv'
  BY DEF IInv, LifeInv, AcceptFails, Goto, objects, history
<1> QED
  BY <1>1, <1>2, <1>3, <1>4, <1>5 DEF IInv

(* A thread opens a connection, whose listener starts.                     *)
LEMMA ConnectStep ==
  ASSUME IInv, NEW w \in Writers, NEW c \in Conns, Connect(w, c)
  PROVE  IInv'
<1>1. TypeOK'
  BY DEF IInv, TypeOK, Connect, Goto, Places, list, history, peers
<1>2. ObjectInv' /\ ListenerInv' /\ ListInv' /\ QuietInv'
  BY DEF IInv, TypeOK, ListenerInv, ObjectInv, ListInv, QuietInv, Connect, Goto, Threads,
     list, history
<1>3. WriterInv'
  BY DEF IInv, WriterInv, Connect, Goto
<1>4. ManagerInv'
  BY DEF IInv, ManagerInv, Connect, Goto, list
<1>5. LifeInv'
  BY DEF IInv, LifeInv, Connect, Goto, history
<1> QED
  BY <1>1, <1>2, <1>3, <1>4, <1>5 DEF IInv

(* A peer goes.                                                            *)
LEMMA PeerLeavesStep ==
  ASSUME IInv, NEW c \in Conns, PeerLeaves(c)
  PROVE  IInv'
<1>1. TypeOK'
  BY DEF IInv, TypeOK, PeerLeaves, objects, list, history
<1>2. ObjectInv' /\ ListenerInv' /\ ListInv' /\ QuietInv'
  BY DEF IInv, ListenerInv, ObjectInv, ListInv, QuietInv, PeerLeaves, objects, list, history
<1>3. WriterInv'
  BY DEF IInv, WriterInv, PeerLeaves, objects
<1>4. ManagerInv'
  BY DEF IInv, ManagerInv, PeerLeaves, objects, list
<1>5. LifeInv'
  BY DEF IInv, LifeInv, PeerLeaves, objects, history
<1> QED
  BY <1>1, <1>2, <1>3, <1>4, <1>5 DEF IInv

(* The accept thread looks at the next connection of its list.             *)
LEMMA ScanStep ==
  ASSUME IInv, Scan
  PROVE  IInv'
<1>0. TypeOK
  BY DEF IInv
<1>1. TypeOK'
  <2>1. CASE it > Len(conexions)
    BY <1>0, <2>1 DEF TypeOK, Scan, Goto, Places, Threads, objects, history, peers
  <2>2. CASE it <= Len(conexions)
    <3>1. conexions[it] \in Conns
      BY <1>0, <2>2 DEF TypeOK
    <3>2. it + 1 \in Nat \ {0}
      BY <1>0 DEF TypeOK
    <3>3. [conn |-> conexions[it], joins |-> TRUE]
             \in [conn : Conns \cup {Nobody}, joins : BOOLEAN]
      BY <3>1
    <3>4. task' \in [Threads -> [conn : Conns \cup {Nobody}, joins : BOOLEAN]]
      BY <1>0, <3>3 DEF TypeOK, Scan
    <3>5. pc' \in [Threads -> Places] /\ it' \in Nat \ {0}
      BY <1>0, <2>2, <3>2 DEF TypeOK, Scan, Goto, Closing, Places, Threads
    <3> QED
      BY <1>0, <3>4, <3>5 DEF TypeOK, Scan, objects, history, peers
  <2> QED
    BY <1>0, <2>1, <2>2 DEF TypeOK
<1>2. ObjectInv' /\ ListenerInv' /\ ListInv' /\ QuietInv'
  BY DEF IInv, TypeOK, ListenerInv, WriterInv, ManagerInv, ObjectInv, ListInv, QuietInv,
     Scan, Goto, Closing, Busy, Places, Threads, objects, list, history
<1>3. WriterInv'
  BY DEF IInv, TypeOK, ListenerInv, WriterInv, ObjectInv, Scan, Goto, Closing, Places,
     Threads, objects
<1>4. ManagerInv'
  BY DEF IInv, TypeOK, ManagerInv, ListInv, Scan, Goto, Closing, objects
<1>5. LifeInv'
  BY DEF IInv, TypeOK, LifeInv, Scan, Goto, Threads, objects, history
<1> QED
  BY <1>1, <1>2, <1>3, <1>4, <1>5 DEF IInv

(* A thread that takes up a connection.  *)
LEMMA CallStep ==
  ASSUME IInv, NEW w \in Writers, NEW c \in Conns, Call(w, c)
  PROVE  IInv'
<1>0. TypeOK /\ w \in Threads /\ w \notin Conns /\ w # Manager
  BY DEF IInv, Threads
<1>1. PICK joins \in BOOLEAN, place \in {"lock", "close"} :
        /\ task' = [task EXCEPT ![w] = [conn |-> c, joins |-> joins]]
        /\ pc' = [pc EXCEPT ![w] = place]
  BY DEF Call, Goto
<1>2. /\ c \in Written /\ ssl[c] # "none" /\ pc[c] # "none"
      /\ UNCHANGED <<objects, mSendMutex, list, peers, history, status>>
  BY DEF Call
<1>3. /\ \A t \in Threads : t # w => pc'[t] = pc[t] /\ task'[t] = task[t]
      /\ pc'[w] = place /\ task'[w].conn = c
  BY <1>0, <1>1 DEF TypeOK
<1>4. TypeOK'
  <2>1. [conn |-> c, joins |-> joins] \in [conn : Conns \cup {Nobody}, joins : BOOLEAN]
    OBVIOUS
  <2>2. /\ task' \in [Threads -> [conn : Conns \cup {Nobody}, joins : BOOLEAN]]
        /\ pc' \in [Threads -> Places]
    BY <1>0, <1>1, <2>1 DEF TypeOK, Places, Closing
  <2> QED
    BY <1>0, <1>2, <2>2 DEF TypeOK, objects, list, peers, history
<1>5. \A d \in Conns : pc'[d] = pc[d] /\ task'[d] = task[d]
  BY <1>0, <1>3 DEF Threads
<1>6. ObjectInv' /\ ListInv' /\ QuietInv' /\ LifeInv'
  <2> USE <1>2 DEF objects, list, history
  <2>1. ObjectInv'
    BY <1>5 DEF IInv, ObjectInv
  <2>2. ListInv'
    BY DEF IInv, ListInv
  <2>3. QuietInv'
    BY <1>0, <1>5 DEF IInv, QuietInv, TypeOK
  <2>4. LifeInv'
    BY <1>5 DEF IInv, LifeInv
  <2> QED
    BY <2>1, <2>2, <2>3, <2>4
<1>7. ListenerInv'
  BY <1>5 DEF IInv, ListenerInv
<1>8. WriterInv'
  <2> SUFFICES ASSUME NEW v \in Writers
      PROVE  /\ pc'[v] \in {"idle"} \cup Busy
             /\ pc'[v] # "idle" => /\ task'[v].conn \in Written
                                   /\ ssl[task'[v].conn] # "none"
                                   /\ pc'[task'[v].conn] # "none"
    BY <1>2 DEF WriterInv, objects
  <2>1. CASE v = w
    BY <1>2, <1>3, <1>5, <2>1 DEF Busy, Closing
  <2>2. CASE v # w
    BY <1>3, <1>5, <2>2 DEF IInv, WriterInv, Threads
  <2> QED
    BY <2>1, <2>2
<1>9. ManagerInv'
  <2>1. pc'[Manager] = pc[Manager] /\ task'[Manager] = task[Manager]
    BY <1>0, <1>3 DEF Threads
  <2> QED
    BY <1>2, <1>5, <2>1 DEF IInv, ManagerInv, objects, list
<1> QED
  BY <1>4, <1>6, <1>7, <1>8, <1>9 DEF IInv

(* A close that returns: of a listener, which did not join, or of another  *)
(* thread, after the listener has ended.                                   *)
LEMMA ReturnStep ==
  ASSUME IInv, NEW t \in Threads, pc[t] \in {"join", "joining"}, Return(t), status' = status,
         task[t].joins => pc[task[t].conn] \in {"none", "over"},
         \/ tListen' = tListen
         \/ /\ pc[task[t].conn] = "over"
            /\ tListen' = [tListen EXCEPT ![task[t].conn] = FALSE]
  PROVE  IInv'
<1> DEFINE c == task[t].conn
<1>0. TypeOK
  BY DEF IInv
<1>1. /\ c \in Conns /\ ssl[c] # "none"
      /\ t \in Conns => c = t /\ ~task[t].joins
      /\ t \in Writers => pc[c] # "none"
  BY BusyTask DEF Busy, Closing
<1>2. /\ UNCHANGED <<online, ssl, watched, task, peers, reports>>
      /\ pc' = [pc EXCEPT ![t] = IF t = Manager THEN "scan"
                                 ELSE IF t \in Conns THEN "test" ELSE "idle"]
  BY DEF Return, Goto
<1>3. /\ pc'[t] = IF t = Manager THEN "scan" ELSE IF t \in Conns THEN "test" ELSE "idle"
      /\ \A s \in Threads : s # t => pc'[s] = pc[s]
  BY <1>0, <1>2 DEF TypeOK
<1>4. conexions' \in Seq(Conns) /\ it' \in Nat \ {0} /\ ListInv'
  BY ReturnList
<1>5. TypeOK'
  <2>1. pc' \in [Threads -> Places]
    BY <1>0, <1>2 DEF TypeOK, Places, Closing
  <2>2. tListen' \in [Conns -> BOOLEAN]
    BY <1>0 DEF TypeOK
  <2>3. mSendMutex' \in [Conns -> Threads \cup {Nobody}]
    BY <1>0 DEF TypeOK, Return
  <2>4. quiet' \subseteq Conns
    BY <1>0, <1>1 DEF TypeOK, Return
  <2> QED
    BY <1>0, <1>2, <1>4, <2>1, <2>2, <2>3, <2>4 DEF TypeOK, peers
<1>6. \A d \in Conns : /\ tListen'[d] = IF tListen' # tListen /\ d = c THEN FALSE ELSE tListen[d]
                       /\ tListen' # tListen => pc[c] = "over"
  BY <1>0 DEF TypeOK
<1>7. \A d \in Conns : pc'[d] = IF d = t THEN "test" ELSE pc[d]
  BY <1>3 DEF Threads
<1>8. ObjectInv'
  <2>1. t \in Conns => tListen[t]
    BY DEF IInv, ObjectInv
  <2> SUFFICES ASSUME NEW d \in Conns
      PROVE  /\ ssl[d] = "none" => pc'[d] = "none" /\ ~online[d]
             /\ pc'[d] = "none" => d \notin watched /\ ~tListen'[d] /\ reports[d] = 0
             /\ pc'[d] \notin {"none", "over"} => tListen'[d]
             /\ pc'[d] = "over" => ~online[d]
    BY <1>2 DEF ObjectInv
  <2>2. CASE d = t
    <3>1. pc'[d] = "test" /\ c = d /\ pc[d] \in {"join", "joining"}
      BY <1>1, <1>7, <2>2
    <3>2. tListen' = tListen
      BY <3>1
    <3> QED
      BY <1>1, <2>1, <2>2, <3>1, <3>2
  <2>3. CASE d # t
    <3>1. pc'[d] = pc[d]
      BY <1>7, <2>3
    <3>2. tListen'[d] = tListen[d] \/ (pc[d] = "over" /\ tListen'[d] = FALSE)
      BY <1>6
    <3> QED
      BY <3>1, <3>2 DEF IInv, ObjectInv
  <2> QED
    BY <2>2, <2>3
<1>9. ListenerInv'
  BY <1>2, <1>7 DEF IInv, ListenerInv
<1>10. WriterInv'
  <2>1. \A w \in Writers : pc'[w] = IF w = t THEN "idle" ELSE pc[w]
    BY <1>3 DEF Threads
  <2>2. \A d \in Conns : pc[d] # "none" => pc'[d] # "none"
    BY <1>7
  <2> QED
    BY <1>2, <2>1, <2>2 DEF IInv, WriterInv
<1>11. ManagerInv'
  <2>1. CASE t = Manager
    BY <1>3, <2>1 DEF ManagerInv, Closing
  <2>2. CASE t # Manager
    <3>1. pc'[Manager] = pc[Manager] /\ UNCHANGED <<conexions, it>>
      BY <1>3, <2>2 DEF Threads, Return
    <3>2. \A d \in Conns : pc[d] = "none" => pc'[d] = "none"
      BY <1>7
    <3> QED
      BY <1>2, <3>1, <3>2 DEF IInv, ManagerInv
  <2> QED
    BY <2>1, <2>2
<1>12. QuietInv'
  <2>1. ASSUME NEW d \in quiet PROVE ssl'[d] # "none" /\ pc'[d] \in {"none", "over"}
    BY <1>0, <1>2, <1>7, <2>1 DEF IInv, QuietInv, TypeOK
  <2>2. task[t].joins => ssl'[c] # "none" /\ pc'[c] \in {"none", "over"}
    BY <1>1, <1>2, <1>7
  <2> QED
    BY <2>1, <2>2 DEF QuietInv, Return
<1>13. LifeInv'
  BY <1>2, <1>7 DEF IInv, LifeInv
<1> QED
  BY <1>4, <1>5, <1>8, <1>9, <1>10, <1>11, <1>12, <1>13 DEF IInv

(* The join waits for the end of the listener and deletes its thread.      *)
LEMMA JoinStep == ASSUME IInv, NEW t \in Threads, Join(t) PROVE IInv'
<1>1. CASE Crash
  BY <1>1, CrashStep
<1>2. CASE ~Crash
  <2>1. /\ pc[t] = "joining" /\ pc[task[t].conn] = "over"
        /\ tListen' = [tListen EXCEPT ![task[t].conn] = FALSE]
        /\ Return(t) /\ UNCHANGED status
    BY <1>2 DEF Join
  <2> QED
    BY <2>1, ReturnStep
<1> QED
  BY <1>1, <1>2

(* SSL_shutdown is called again and again: the thread goes on to forget,   *)
(* or only the close_notify is sent.                                       *)
LEMMA ShutdownStep == ASSUME IInv, NEW t \in Threads, Shutdown(t) PROVE IInv'
<1>0. TypeOK
  BY DEF IInv
<1>1. CASE Crash
  BY <1>1, CrashStep
<1>2. CASE ~Crash
  <2>1. /\ pc[t] = "shutdown"
        /\ pc' = [pc EXCEPT ![t] = "forget"] \/ pc' = pc
        /\ \A s \in Threads : pc'[s] \in {pc[s], "forget"}
        /\ \A s \in Threads : pc'[s] # pc[s] => s = t
        /\ notified' = notified \cup {task[t].conn}
        /\ UNCHANGED <<objects, mSendMutex, list, task, gone, history, status>>
    BY <1>0, <1>2 DEF Shutdown, Goto, TypeOK
  <2>2. task[t].conn \in Conns
    BY <2>1, BusyTask DEF Busy, Closing
  <2>3. TypeOK'
    <3>1. pc' \in [Threads -> Places]
      BY <1>0, <2>1 DEF TypeOK, Places, Closing
    <3> QED
      BY <1>0, <2>1, <2>2, <3>1 DEF TypeOK, objects, list, history
  <2>4. \A c \in Conns : pc'[c] \in {pc[c], "forget"} /\ (pc'[c] # pc[c] => pc[c] = "shutdown")
    BY <2>1 DEF Threads
  <2>5. ObjectInv'
    BY <2>1, <2>4 DEF IInv, ObjectInv, objects, history
  <2>6. ListenerInv'
    BY <2>1, <2>4 DEF IInv, ListenerInv
  <2>7. ListInv' /\ QuietInv'
    BY <1>0, <2>1, <2>4 DEF IInv, TypeOK, ListInv, QuietInv, objects, list, history
  <2>8. WriterInv'
    <3>1. \A w \in Writers : pc'[w] \in {pc[w], "forget"}
                             /\ (pc'[w] # pc[w] => pc[w] = "shutdown")
      BY <2>1 DEF Threads
    <3> QED
      BY <2>1, <2>4, <3>1 DEF IInv, WriterInv, Busy, Closing, objects
  <2>9. ManagerInv'
    <3>1. pc'[Manager] \in {pc[Manager], "forget"}
          /\ (pc'[Manager] # pc[Manager] => pc[Manager] = "shutdown")
      BY <2>1 DEF Threads
    <3>2. \A c \in Conns : pc[c] = "none" => pc'[c] = "none"
      BY <2>4
    <3> QED
      BY <2>1, <3>1, <3>2 DEF IInv, ManagerInv, Closing, objects, list
  <2>10. LifeInv'
    BY <2>1, <2>4 DEF IInv, LifeInv, objects, history
  <2> QED
    BY <2>3, <2>5, <2>6, <2>7, <2>8, <2>9, <2>10 DEF IInv
<1> QED
  BY <1>1, <1>2

(* A new object has nothing, so nobody knew of it. *)
LEMMA AcceptStep ==
  ASSUME IInv, NEW c \in Conns, Accept(c)
  PROVE  IInv'
<1>0. TypeOK /\ Manager \in Threads /\ c \in Threads /\ c # Manager
  BY DEF IInv, Threads
<1>1. /\ pc[Manager] = "accept" /\ ssl[c] = "none" /\ pc[c] = "none"
      /\ c \notin watched /\ reports[c] = 0
      /\ ssl' = [ssl EXCEPT ![c] = "set"]
      /\ online' = [online EXCEPT ![c] = TRUE]
      /\ UNCHANGED <<mSendMutex, peers, history, status>>
  BY DEF Accept, IInv, ObjectInv
<1>2. /\ \A d \in Conns : ssl'[d] = IF d = c THEN "set" ELSE ssl[d]
      /\ \A d \in Conns : d # c => online'[d] = online[d]
      /\ online'[c]
  BY <1>0, <1>1 DEF TypeOK
<1>3. CASE /\ tListen' = [tListen EXCEPT ![c] = TRUE]
           /\ watched' = watched \cup {c}
           /\ conexions' = Append(conexions, c)
           /\ it' = 1
           /\ pc' = [pc EXCEPT ![c] = "test", ![Manager] = "scan"]
           /\ UNCHANGED task
  <2>1. \A t \in Threads : pc'[t] = IF t = c THEN "test" ELSE IF t = Manager THEN "scan" ELSE pc[t]
    BY <1>0, <1>3 DEF TypeOK
  <2>2. \A d \in Conns : tListen'[d] = IF d = c THEN TRUE ELSE tListen[d]
    BY <1>0, <1>3 DEF TypeOK
  <2>3. TypeOK'
    <3>1. pc' \in [Threads -> Places]
      BY <1>0, <1>3 DEF TypeOK, Places, Closing
    <3>2. /\ online' \in [Conns -> BOOLEAN] /\ tListen' \in [Conns -> BOOLEAN]
          /\ ssl' \in [Conns -> {"none", "set", "null"}]
      BY <1>0, <1>1, <1>3 DEF TypeOK
    <3>3. conexions' \in Seq(Conns) /\ it' \in Nat \ {0} /\ watched' \subseteq Conns
      BY <1>0, <1>3 DEF TypeOK
    <3> QED
      BY <1>0, <1>1, <1>3, <3>1, <3>2, <3>3 DEF TypeOK, peers, history
  <2>4. ObjectInv'
    <3> SUFFICES ASSUME NEW d \in Conns
        PROVE  /\ ssl'[d] = "none" => pc'[d] = "none" /\ ~online'[d]
               /\ pc'[d] = "none" => d \notin watched' /\ ~tListen'[d] /\ reports[d] = 0
               /\ pc'[d] \notin {"none", "over"} => tListen'[d]
               /\ pc'[d] = "over" => ~online'[d]
      BY <1>1 DEF ObjectInv, history
    <3>1. CASE d = c
      BY <1>0, <1>2, <2>1, <2>2, <3>1
    <3>2. CASE d # c
      <4>1. pc'[d] = pc[d] /\ ssl'[d] = ssl[d] /\ tListen'[d] = tListen[d]
            /\ (d \in watched' <=> d \in watched)
        BY <1>0, <1>2, <1>3, <2>1, <2>2, <3>2 DEF Threads
      <4> QED
        BY <1>2, <3>2, <4>1 DEF IInv, ObjectInv
    <3> QED
      BY <3>1, <3>2
  <2>5. \A d \in Conns : pc'[d] = IF d = c THEN "test" ELSE pc[d]
    BY <2>1 DEF Threads
  <2>6. ListenerInv'
    <3>1. \A d \in Conns : /\ task'[d].conn = d /\ ~task'[d].joins
                           /\ pc[d] \notin {"idle", "scan", "accept", "joining"}
      BY <1>3 DEF IInv, ListenerInv
    <3> QED
      BY <2>5, <3>1 DEF ListenerInv
  <2>7. WriterInv'
    <3>1. \A w \in Writers : pc'[w] = pc[w]
      BY <2>1 DEF Threads
    <3>2. \A d \in Conns : /\ ssl[d] # "none" => ssl'[d] # "none"
                           /\ pc[d] # "none" => pc'[d] # "none"
      BY <1>2, <2>5
    <3>3. task' = task
      BY <1>3
    <3> QED
      BY <3>1, <3>2, <3>3 DEF IInv, WriterInv
  <2>8. ManagerInv'
    <3>1. pc'[Manager] = "scan"
      BY <1>0, <2>1
    <3> QED
      BY <3>1 DEF ManagerInv, Closing
  <2>9. ListInv'
    BY <1>0, <1>2, <1>3 DEF IInv, ListInv, TypeOK
  <2>10. QuietInv'
    BY <1>0, <1>1, <1>2, <2>5 DEF IInv, QuietInv, TypeOK, history
  <2>11. LifeInv'
    <3>1. ASSUME NEW d \in Conns \ Written, d # c
          PROVE  pc'[d] = pc[d] /\ online'[d] = online[d]
      BY <1>2, <2>5, <3>1
    <3>2. pc'[c] = "test" /\ reports'[c] = 0
      BY <1>1, <2>5 DEF history
    <3>3. \A d \in Conns \ Written : reports'[d] = reports[d]
      BY <1>1 DEF history
    <3> SUFFICES ASSUME NEW d \in Conns \ Written
        PROVE  /\ pc'[d] = "clear" => online'[d]
               /\ pc'[d] \in {"ssl", "shutdown", "forget", "report"} => ~online'[d]
               /\ pc'[d] \in {"clear", "ssl", "shutdown", "forget", "report"} => reports'[d] = 0
               /\ reports'[d] \in {0, 1}
               /\ reports'[d] = 1 => ~online'[d]
      BY DEF LifeInv
    <3>4. CASE d = c
      BY <3>2, <3>4
    <3>5. CASE d # c
      BY <3>1, <3>3, <3>5 DEF IInv, LifeInv
    <3> QED
      BY <3>4, <3>5
  <2> QED
    BY <2>3, <2>4, <2>6, <2>7, <2>8, <2>9, <2>10, <2>11 DEF IInv
<1>4. CASE /\ pc' = [pc EXCEPT ![Manager] = "close"]
           /\ task' = [task EXCEPT ![Manager] = [conn |-> c, joins |-> TRUE]]
           /\ UNCHANGED <<tListen, watched, list>>
  <2>1. \A t \in Threads : pc'[t] = IF t = Manager THEN "close" ELSE pc[t]
    BY <1>0, <1>4 DEF TypeOK
  <2>2. /\ \A t \in Threads : t # Manager => task'[t] = task[t]
        /\ task'[Manager] = [conn |-> c, joins |-> TRUE]
    BY <1>0, <1>4 DEF TypeOK
  <2>3. TypeOK'
    <3>1. pc' \in [Threads -> Places]
      BY <1>0, <1>4 DEF TypeOK, Places, Closing
    <3>2. online' \in [Conns -> BOOLEAN] /\ ssl' \in [Conns -> {"none", "set", "null"}]
      BY <1>0, <1>1 DEF TypeOK
    <3>3. task' \in [Threads -> [conn : Conns \cup {Nobody}, joins : BOOLEAN]]
      BY <1>0, <1>4 DEF TypeOK
    <3> QED
      BY <1>0, <1>1, <1>4, <3>1, <3>2, <3>3 DEF TypeOK, peers, history, list
  <2>4. \A d \in Conns : pc'[d] = pc[d] /\ task'[d] = task[d]
    BY <2>1, <2>2 DEF Threads
  <2>5. ObjectInv'
    <3> SUFFICES ASSUME NEW d \in Conns
        PROVE  /\ ssl'[d] = "none" => pc[d] = "none" /\ ~online'[d]
               /\ pc[d] = "over" => ~online'[d]
      BY <1>1, <1>4, <2>4 DEF IInv, ObjectInv, history
    <3>1. CASE d = c
      BY <1>1, <1>2, <3>1
    <3>2. CASE d # c
      BY <1>2, <3>2 DEF IInv, ObjectInv
    <3> QED
      BY <3>1, <3>2
  <2>6. ListenerInv'
    BY <2>4 DEF IInv, ListenerInv
  <2>7. WriterInv'
    <3>1. \A w \in Writers : pc'[w] = pc[w] /\ task'[w] = task[w]
      BY <2>1, <2>2 DEF Threads
    <3> QED
      BY <1>2, <2>4, <3>1 DEF IInv, WriterInv
  <2>8. ManagerInv'
    <3>1. ~Contains(conexions, c)
      BY <1>1 DEF IInv, ListInv, Contains
    <3>2. pc'[Manager] = "close" /\ task'[Manager].conn = c /\ task'[Manager].joins
      BY <1>0, <2>1, <2>2
    <3> QED
      BY <1>1, <1>2, <1>4, <2>4, <3>1, <3>2 DEF ManagerInv, Closing, list
  <2>9. ListInv'
    BY <1>0, <1>2, <1>4 DEF IInv, ListInv, TypeOK, list
  <2>10. QuietInv'
    BY <1>0, <1>1, <1>2, <2>4 DEF IInv, QuietInv, TypeOK, history
  <2>11. LifeInv'
    <3>1. ASSUME NEW d \in Conns \ Written, d # c
          PROVE  pc'[d] = pc[d] /\ online'[d] = online[d]
      BY <1>2, <2>4, <3>1
    <3> QED
      BY <1>1, <2>4, <3>1 DEF IInv, LifeInv, history
  <2> QED
    BY <2>3, <2>5, <2>6, <2>7, <2>8, <2>9, <2>10, <2>11 DEF IInv
<1> QED
  BY <1>3, <1>4 DEF Accept, Goto

-----------------------------------------------------------------------------
(* The invariant holds at the start and is kept by every step.             *)
LEMMA InitIInv == Init => IInv
<1> SUFFICES ASSUME Init PROVE IInv
  OBVIOUS
<1>1. TypeOK
  BY DEF Init, TypeOK, Places, Closing, Threads
<1>2. \A c \in Conns : /\ pc[c] = "none" /\ ssl[c] = "none" /\ ~online[c] /\ ~tListen[c]
                       /\ reports[c] = 0
                       /\ task[c].conn = c /\ ~task[c].joins
  BY DEF Init, Threads
<1>3. (\A w \in Writers : pc[w] = "idle") /\ pc[Manager] = "scan"
  BY DEF Init, Threads
<1>4. watched = {} /\ quiet = {} /\ conexions = <<>>
  BY DEF Init
<1>5. ObjectInv /\ ListenerInv
  BY <1>2, <1>4 DEF ObjectInv, ListenerInv
<1>6. WriterInv /\ ManagerInv
  BY <1>3 DEF WriterInv, ManagerInv, Closing
<1>7. ListInv /\ QuietInv /\ LifeInv
  BY <1>2, <1>4 DEF ListInv, QuietInv, LifeInv
<1> QED
  BY <1>1, <1>5, <1>6, <1>7 DEF IInv

(* IInv is inductive.                                                      *)
LEMMA Inductive == IInv /\ [Next]_vars => IInv'
<1> SUFFICES ASSUME IInv, [Next]_vars PROVE IInv'
  OBVIOUS
<1>1. ASSUME NEW t \in Threads, \E p : Moves(t, p) PROVE IInv'
  BY <1>1, MoveStep
<1>2. ASSUME NEW t \in Threads, Send(t) PROVE IInv'
  <2>1. CASE Lock(t)
    BY <2>1, LockStep
  <2>2. CASE Check(t) \/ Write(t)
    BY <1>1, <2>2, Movers, CrashStep, SentStep
  <2> QED
    BY <1>2, <2>1, <2>2 DEF Send
<1>3. ASSUME NEW t \in Threads, Close(t) PROVE IInv'
  <2>1. CASE TestJoin(t)
    <3>1. CASE /\ pc[t] = "join" /\ ~(task[t].joins /\ tListen[task[t].conn])
               /\ Return(t) /\ UNCHANGED <<tListen, status>>
      <4>1. task[t].joins => pc[task[t].conn] \in {"none", "over"}
        BY <3>1, JoinedIsOver
      <4> QED
        BY <3>1, <4>1, ReturnStep
    <3> QED
      BY <1>1, <2>1, <3>1, Movers
  <2>2. CASE TestOnline(t) \/ TestSsl(t)
    BY <1>1, <2>2, Movers
  <2>3. CASE Clear(t) \/ Shutdown(t) \/ Forget(t) \/ Report(t) \/ Drop(t) \/ Join(t)
    BY <2>3, ClearStep, ShutdownStep, ForgetStep, ReportStep, DropStep, JoinStep
  <2> QED
    BY <1>3, <2>1, <2>2, <2>3 DEF Close
<1>4. ASSUME NEW c \in Conns, Listener(c) PROVE IInv'
  <2>0. c \in Threads
    BY DEF Threads
  <2>1. CASE Test(c) \/ Header(c) \/ Body(c) \/ Handle(c)
    BY <1>1, <2>0, <2>1, Movers, CrashStep
  <2> QED
    BY <1>2, <1>3, <1>4, <2>0, <2>1 DEF Listener
<1>5. ASSUME NEW t \in Threads \ Conns, Goes(t) PROVE IInv'
  BY <1>2, <1>3, <1>5 DEF Goes
<1>6. CASE Next
  BY <1>4, <1>5, <1>6, PeerLeavesStep, AcceptStep, ScanStep, AcceptFailsStep, ConnectStep,
     CallStep DEF Next
<1>7. CASE UNCHANGED vars
  BY <1>7 DEF vars, objects, list, peers, history, IInv, TypeOK, ObjectInv, ListenerInv,
     WriterInv, ManagerInv, ListInv, QuietInv, LifeInv
<1> QED
  BY <1>6, <1>7

(* IInv holds in every reachable state of a process. *)
LEMMA IInvAlways == Spec => []IInv
BY InitIInv, Inductive, PTL DEF Spec

(* Every variable of the connections keeps its type. *)
THEOREM TypeCorrect == Spec => []TypeOK
<1>1. IInv => TypeOK
  BY DEF IInv
<1> QED
  BY <1>1, IInvAlways, PTL

(* Once a close(false) has returned, whoever called it, no handler of that *)
(* connection runs: for any connections, writers and interleaving, unless  *)
(* the process has crashed meanwhile.                                      *)
THEOREM ClosedAlwaysQuiet == Spec => []ClosedIsQuiet
<1>1. IInv => ClosedIsQuiet
  BY DEF IInv, QuietInv, ClosedIsQuiet
<1> QED
  BY <1>1, IInvAlways, PTL

-----------------------------------------------------------------------------
(* The implementation of ConnectionLifecycle. *)

Private == Conns \ Written
Phase(c) ==
    CASE ssl[c] = "none" -> "new"
      [] ssl[c] # "none" /\ online[c] -> "open"
      [] ssl[c] # "none" /\ ~online[c] /\ pc[c] # "over" -> "closed"
      [] OTHER -> "ended"

(* What a step of the lifecycle says of Phase and reports. *)
Turns(c, from, to) ==
    /\ Phase(c) = from /\ Phase(c)' = to
    /\ \A d \in Private : d # c => Phase(d)' = Phase(d)
    /\ \A d \in Private : reports'[d] = reports[d]
Tells(c) ==
    /\ Phase(c) = "closed" /\ reports[c] = 0 /\ reports'[c] = 1
    /\ \A d \in Private : d # c => reports'[d] = reports[d]
    /\ \A d \in Private : Phase(d)' = Phase(d)
Rests ==
    \A d \in Private : Phase(d)' = Phase(d) /\ reports'[d] = reports[d]

LifeStep ==
    \/ Rests
    \/ \E c \in Private :
          \/ Turns(c, "new", "open") \/ Turns(c, "open", "closed")
          \/ Turns(c, "closed", "ended") \/ Tells(c)

(* Phase, condition by condition. *)
LEMMA PhaseValues ==
  ASSUME NEW c
  PROVE  /\ ssl[c] = "none" => Phase(c) = "new"
         /\ ssl[c] # "none" /\ online[c] => Phase(c) = "open"
         /\ ssl[c] # "none" /\ ~online[c] /\ pc[c] # "over" => Phase(c) = "closed"
         /\ ssl[c] # "none" /\ ~online[c] /\ pc[c] = "over" => Phase(c) = "ended"
BY DEF Phase

(* The same in the next state.                                             *)
LEMMA PhaseValuesPrime ==
  ASSUME NEW c
  PROVE  /\ ssl'[c] = "none" => Phase(c)' = "new"
         /\ ssl'[c] # "none" /\ online'[c] => Phase(c)' = "open"
         /\ ssl'[c] # "none" /\ ~online'[c] /\ pc'[c] # "over" => Phase(c)' = "closed"
         /\ ssl'[c] # "none" /\ ~online'[c] /\ pc'[c] = "over" => Phase(c)' = "ended"
BY DEF Phase

(* What leaves the three conditions as they are leaves Phase.              *)
LEMMA PhaseStands ==
  ASSUME NEW c, online'[c] = online[c], ssl'[c] = "none" <=> ssl[c] = "none",
         pc'[c] = "over" <=> pc[c] = "over"
  PROVE  Phase(c)' = Phase(c)
BY DEF Phase

(* Whose connection a closing thread works on. *)
LEMMA PrivateTask ==
  ASSUME IInv, NEW t \in Threads, pc[t] \in Busy, task[t].conn \in Private
  PROVE  /\ task[t].conn \in Conns
         /\ \/ t \in Conns /\ task[t].conn = t
            \/ t = Manager
<1>1. t \in Writers => task[t].conn \in Written
  BY DEF IInv, WriterInv, Busy, Closing
<1> QED
  BY <1>1, BusyTask DEF Threads, Private

(* Taking the link offline closes the connection.                          *)
LEMMA ClearTurns ==
  ASSUME IInv, NEW t \in Threads, Clear(t), NEW c \in Conns, task[t].conn = c
  PROVE  LifeStep
<1>0. TypeOK
  BY DEF IInv
<1>1. c \in Conns /\ ssl[c] # "none" /\ pc[t] = "clear"
  BY BusyTask DEF Busy, Closing, Clear
<1>2. /\ \A d \in Conns : online'[d] = IF d = c THEN FALSE ELSE online[d]
      /\ \A d \in Conns : pc'[d] = "over" <=> pc[d] = "over"
      /\ ssl' = ssl /\ reports' = reports
  BY <1>0, <1>1 DEF Clear, Goto, TypeOK, history, Threads
<1>3. \A d \in Private : d # c => Phase(d)' = Phase(d)
  BY <1>2, PhaseStands DEF Private
<1>4. CASE c \in Private
  <2>1. online[c] /\ pc[c] # "over"
    <3>1. CASE t \in Conns /\ c = t
      BY <1>1, <1>4, <3>1 DEF IInv, LifeInv, Private
    <3>2. CASE t = Manager
      BY <1>1, <3>2 DEF IInv, ManagerInv, Closing
    <3> QED
      BY <1>1, <1>4, <3>1, <3>2, PrivateTask DEF Busy, Closing
  <2>2. Phase(c) = "open"
    BY <1>1, <2>1, PhaseValues
  <2>3. ssl'[c] # "none" /\ ~online'[c] /\ pc'[c] # "over"
    BY <1>1, <1>2, <2>1
  <2>4. Phase(c)' = "closed"
    BY <2>3, PhaseValuesPrime
  <2>5. Turns(c, "open", "closed")
    BY <1>2, <1>3, <2>2, <2>4 DEF Turns
  <2> QED
    BY <1>4, <2>5 DEF LifeStep
<1>5. CASE c \notin Private
  BY <1>2, <1>3, <1>5 DEF LifeStep, Rests
<1> QED
  BY <1>4, <1>5

(* After that, setting ssl to NULL changes nothing.                        *)
LEMMA ForgetRests ==
  ASSUME IInv, NEW t \in Threads, Forget(t)
  PROVE  LifeStep
<1> DEFINE c == task[t].conn
<1>0. TypeOK
  BY DEF IInv
<1>1. c \in Conns /\ ssl[c] # "none" /\ pc[t] = "forget"
  BY BusyTask DEF Busy, Closing, Forget
<1>2. /\ \A d \in Conns : online'[d] = IF d = c THEN FALSE ELSE online[d]
      /\ \A d \in Conns : pc'[d] = "over" <=> pc[d] = "over"
      /\ \A d \in Conns : ssl'[d] = IF d = c THEN "null" ELSE ssl[d]
      /\ reports' = reports
  BY <1>0, <1>1 DEF Forget, Goto, TypeOK, history, Threads
<1>3. c \in Private => online[c] = FALSE
  <2>1. t = Manager => ~online[c]
    BY <1>1 DEF IInv, ManagerInv, Closing
  <2>2. c \in Private /\ c = t => ~online[c]
    BY <1>1 DEF IInv, LifeInv, Private
  <2>3. online[c] \in BOOLEAN
    BY <1>0, <1>1 DEF TypeOK
  <2> QED
    BY <1>1, <2>1, <2>2, <2>3, PrivateTask DEF Busy, Closing
<1>4. \A d \in Private : /\ online'[d] = online[d]
                         /\ ssl'[d] = "none" <=> ssl[d] = "none"
                         /\ pc'[d] = "over" <=> pc[d] = "over"
  BY <1>1, <1>2, <1>3 DEF Private
<1>5. \A d \in Private : Phase(d)' = Phase(d)
  BY <1>4, PhaseStands
<1> QED
  BY <1>2, <1>5 DEF LifeStep, Rests

(* A report tells the owner.                                               *)
LEMMA ReportTells ==
  ASSUME IInv, NEW t \in Threads, Report(t), NEW c \in Conns, task[t].conn = c
  PROVE  LifeStep
<1>0. TypeOK
  BY DEF IInv
<1>1. c \in Conns /\ ssl[c] # "none" /\ pc[t] = "report"
  BY BusyTask DEF Busy, Closing, Report
<1>2. /\ \A d \in Conns : reports'[d] = IF d = c THEN reports[c] + 1 ELSE reports[d]
      /\ \A d \in Conns : pc'[d] = "over" <=> pc[d] = "over"
      /\ ssl' = ssl /\ online' = online
  BY <1>0, <1>1 DEF Report, Goto, TypeOK, objects, Threads
<1>3. \A d \in Private : Phase(d)' = Phase(d)
  BY <1>2, PhaseStands DEF Private
<1>4. CASE c \in Private
  <2>1. c = t
    BY <1>1, <1>4, PrivateTask DEF Busy, Closing, IInv, ManagerInv
  <2>2. ~online[c] /\ reports[c] = 0 /\ pc[c] # "over"
    BY <1>1, <1>4, <2>1 DEF IInv, LifeInv, Private
  <2>3. Phase(c) = "closed"
    BY <1>1, <2>2, PhaseValues
  <2>4. Tells(c)
    BY <1>1, <1>2, <1>3, <1>4, <2>2, <2>3 DEF Tells, Private
  <2> QED
    BY <1>4, <2>4 DEF LifeStep
<1>5. CASE c \notin Private
  BY <1>2, <1>3, <1>5 DEF LifeStep, Rests, Private
<1> QED
  BY <1>4, <1>5

(* An accepted connection is open.                                         *)
LEMMA AcceptTurns ==
  ASSUME IInv, NEW c \in Conns, Accept(c)
  PROVE  LifeStep
<1>0. TypeOK
  BY DEF IInv
<1>1. ssl[c] = "none" /\ pc[c] = "none" /\ reports' = reports
  BY DEF Accept, IInv, ObjectInv, history
<1>2. /\ \A d \in Conns : d # c => online'[d] = online[d] /\ ssl'[d] = ssl[d]
      /\ online'[c] /\ ssl'[c] = "set"
      /\ \A d \in Conns : pc'[d] = "over" <=> pc[d] = "over"
  BY <1>0, <1>1 DEF Accept, Goto, TypeOK, Threads
<1>3. \A d \in Private : d # c => Phase(d)' = Phase(d)
  BY <1>2, PhaseStands DEF Private
<1>4. Phase(c) = "new" /\ Phase(c)' = "open"
  BY <1>1, <1>2, PhaseValues, PhaseValuesPrime
<1>5. CASE c \in Private
  <2>1. Turns(c, "new", "open")
    BY <1>1, <1>3, <1>4 DEF Turns
  <2> QED
    BY <1>5, <2>1 DEF LifeStep
<1>6. CASE c \notin Private
  BY <1>1, <1>3, <1>6 DEF LifeStep, Rests
<1> QED
  BY <1>5, <1>6

(* A thread goes on: only the end of a listener is seen.                   *)
LEMMA MoveTurns ==
  ASSUME IInv, NEW t \in Threads, NEW p, Moves(t, p)
  PROVE  LifeStep
<1>0. TypeOK /\ UNCHANGED <<online, ssl, reports>>
  BY DEF IInv, Moves, objects, history
<1>1. \A d \in Conns : pc'[d] = IF d = t THEN p ELSE pc[d]
  BY <1>0 DEF Moves, TypeOK, Threads
<1>2. pc[t] # "over"
  BY DEF Moves
<1>3. CASE p # "over"
  <2>1. \A d \in Private : Phase(d)' = Phase(d)
    BY <1>0, <1>1, <1>2, <1>3, PhaseStands DEF Private
  <2> QED
    BY <1>0, <2>1 DEF LifeStep, Rests
<1>4. CASE p = "over"
  <2>1. t \in Conns /\ pc[t] = "test" /\ ~online[t]
    BY <1>4 DEF Moves
  <2>2. ssl[t] # "none"
    BY <2>1 DEF IInv, ObjectInv
  <2>3. \A d \in Private : d # t => Phase(d)' = Phase(d)
    BY <1>0, <1>1, PhaseStands DEF Private
  <2>4. Phase(t) = "closed"
    BY <2>1, <2>2, PhaseValues
  <2>5. Phase(t)' = "ended"
    BY <1>0, <1>1, <1>4, <2>1, <2>2, PhaseValuesPrime
  <2>6. CASE t \in Private
    <3>1. Turns(t, "closed", "ended")
      BY <1>0, <2>3, <2>4, <2>5 DEF Turns
    <3> QED
      BY <2>6, <3>1 DEF LifeStep
  <2>7. CASE t \notin Private
    BY <1>0, <2>3, <2>7 DEF LifeStep, Rests
  <2> QED
    BY <2>6, <2>7
<1> QED
  BY <1>3, <1>4

(* Steps that neither open nor close a connection of Private.              *)
LEMMA OthersRest ==
  ASSUME IInv,
         \A d \in Private : /\ online'[d] = online[d]
                            /\ ssl'[d] = "none" <=> ssl[d] = "none"
                            /\ pc'[d] = "over" <=> pc[d] = "over"
                            /\ reports'[d] = reports[d]
  PROVE  LifeStep
BY PhaseStands DEF LifeStep, Rests

(* Those of them in which a thread sends, shuts down, joins or returns.    *)
LEMMA QuietSteps ==
  ASSUME IInv, NEW t \in Threads,
         \/ Crash \/ Shutdown(t) \/ Drop(t) \/ Join(t) \/ Lock(t)
         \/ pc[t] \in {"check", "write"} /\ Sent(t)
         \/ pc[t] = "join" /\ Return(t)
  PROVE  LifeStep
<1>0. TypeOK
  BY DEF IInv
<1>1. reports' = reports /\ online' = online
  BY DEF Crash, Shutdown, Drop, Join, Lock, Sent, Return, objects, history
<1>2. \A d \in Conns : pc'[d] = "over" <=> pc[d] = "over"
  BY <1>0 DEF Crash, Shutdown, Drop, Join, Lock, Sent, Return, Goto, TypeOK, Threads
<1>3. \A d \in Conns : ssl'[d] = "none" <=> ssl[d] = "none"
  <2>1. CASE Drop(t)
    <3>1. task[t].conn \in Conns /\ ssl[task[t].conn] # "none"
      BY <2>1, BusyTask DEF Drop, Busy, Closing
    <3> QED
      BY <1>0, <2>1, <3>1 DEF Drop, TypeOK
  <2>2. CASE ~Drop(t)
    BY <2>2 DEF Crash, Shutdown, Join, Lock, Sent, Return, objects
  <2> QED
    BY <2>1, <2>2
<1> QED
  BY <1>1, <1>2, <1>3, OthersRest DEF Private

(* Every step of the process is a step of the lifecycle or none.           *)
LEMMA EveryStepMaps == ASSUME IInv, [Next]_vars PROVE LifeStep
<1>0. TypeOK
  BY DEF IInv
<1>1. ASSUME NEW t \in Threads, \E p : Moves(t, p) PROVE LifeStep
  BY <1>1, MoveTurns
<1>2. ASSUME NEW t \in Threads, Send(t) \/ Close(t) PROVE LifeStep
  <2>1. CASE Check(t) \/ Write(t) \/ TestOnline(t) \/ TestSsl(t) \/ TestJoin(t)
    BY <1>1, <2>1, Movers, QuietSteps
  <2>2. CASE Lock(t) \/ Shutdown(t) \/ Drop(t) \/ Join(t)
    BY <2>2, QuietSteps
  <2>3. CASE Clear(t) \/ Forget(t) \/ Report(t)
    <3>1. CASE Forget(t)
      BY <3>1, ForgetRests
    <3>2. CASE Clear(t) \/ Report(t)
      <4>1. PICK c \in Conns : task[t].conn = c
        BY <3>2, BusyTask DEF Clear, Report, Busy, Closing
      <4> QED
        BY <3>2, <4>1, ClearTurns, ReportTells
    <3> QED
      BY <2>3, <3>1, <3>2
  <2> QED
    BY <1>2, <2>1, <2>2, <2>3 DEF Send, Close
<1>3. ASSUME NEW c \in Conns, Listener(c) PROVE LifeStep
  <2>0. c \in Threads
    BY DEF Threads
  <2>1. CASE Test(c) \/ Header(c) \/ Body(c) \/ Handle(c)
    BY <1>1, <2>0, <2>1, Movers, QuietSteps
  <2> QED
    BY <1>2, <1>3, <2>0, <2>1 DEF Listener
<1>4. ASSUME Scan \/ AcceptFails PROVE LifeStep
  <2>1. /\ UNCHANGED <<online, ssl, reports>>
        /\ \A d \in Conns : pc'[d] = pc[d]
    BY <1>0, <1>4 DEF Scan, AcceptFails, Goto, TypeOK, Threads, objects, history
  <2> QED
    BY <2>1, OthersRest DEF Private
<1>5. ASSUME NEW w \in Writers, NEW c \in Conns, Connect(w, c) PROVE LifeStep
  <2>1. c \in Written /\ reports' = reports
    BY <1>5 DEF Connect, history
  <2>2. \A d \in Conns : d # c => online'[d] = online[d] /\ ssl'[d] = ssl[d] /\ pc'[d] = pc[d]
    BY <1>0, <1>5 DEF Connect, Goto, TypeOK, Threads
  <2> QED
    BY <2>1, <2>2, OthersRest DEF Private
<1>6. ASSUME NEW w \in Writers, NEW c \in Conns, Call(w, c) PROVE LifeStep
  <2>1. /\ UNCHANGED <<online, ssl, reports>>
        /\ \A d \in Conns : pc'[d] = pc[d]
    BY <1>0, <1>6 DEF Call, Goto, TypeOK, Threads, objects, history
  <2> QED
    BY <2>1, OthersRest DEF Private
<1>7. ASSUME UNCHANGED vars \/ \E c \in Conns : PeerLeaves(c) PROVE LifeStep
  BY <1>7, OthersRest DEF vars, PeerLeaves, objects, history
<1> QED
  BY <1>2, <1>3, <1>4, <1>5, <1>6, <1>7, AcceptTurns DEF Next, Goes

phase == [c \in Private |-> Phase(c)]
told  == [c \in Private |-> reports[c]]

(* The same of the two functions that the lifecycle is about.              *)
LEMMA LifeStepOfFunctions ==
  ASSUME LifeStep
  PROVE  \/ phase' = phase /\ told' = told
         \/ \E c \in Private :
              \/ /\ \/ phase[c] = "new" /\ phase' = [phase EXCEPT ![c] = "open"]
                    \/ phase[c] = "open" /\ phase' = [phase EXCEPT ![c] = "closed"]
                    \/ phase[c] = "closed" /\ phase' = [phase EXCEPT ![c] = "ended"]
                 /\ told' = told
              \/ /\ phase[c] = "closed" /\ told[c] = 0
                 /\ told' = [told EXCEPT ![c] = 1] /\ phase' = phase
<1>1. /\ \A c \in Private : phase[c] = Phase(c) /\ told[c] = reports[c]
      /\ phase' = [c \in Private |-> Phase(c)'] /\ told' = [c \in Private |-> reports'[c]]
      /\ phase = [c \in Private |-> phase[c]] /\ told = [c \in Private |-> told[c]]
  BY DEF phase, told
<1>2. CASE Rests
  BY <1>1, <1>2 DEF Rests
<1>3. ASSUME NEW c \in Private, NEW from, NEW to, Turns(c, from, to)
      PROVE  phase[c] = from /\ phase' = [phase EXCEPT ![c] = to] /\ told' = told
  BY <1>1, <1>3 DEF Turns
<1>4. ASSUME NEW c \in Private, Tells(c)
      PROVE  /\ phase[c] = "closed" /\ told[c] = 0
             /\ told' = [told EXCEPT ![c] = 1] /\ phase' = phase
  BY <1>1, <1>4 DEF Tells
<1> QED
  BY <1>2, <1>3, <1>4 DEF LifeStep

(* A connection that only its listener writes to is opened once, closed    *)
(* once and reported at most once, between its closing and the end of its  *)
(* listener: for any number of connections, whatever the manager and the   *)
(* threads that write to other connections do.                             *)
THEOREM ListenersImplementLifecycle == Spec => ImplementsLifecycle
<1>1. Init => Lifecycle!Init
  BY DEF Init, Lifecycle!Init
<1>2. IInv /\ [Next]_vars => [Lifecycle!Next]_(Lifecycle!vars)
  <2> SUFFICES ASSUME IInv, [Next]_vars PROVE [Lifecycle!Next]_(Lifecycle!vars)
    OBVIOUS
  <2>1. LifeStep
    BY EveryStepMaps
  <2> QED
    BY <2>1, LifeStepOfFunctions DEF phase, told, Phase, Private, Lifecycle!Next,
       Lifecycle!vars,
       Lifecycle!Open, Lifecycle!Close, Lifecycle!End, Lifecycle!Tell, Lifecycle!Go
<1> QED
  BY IInvAlways, <1>1, <1>2, PTL DEF Spec, ImplementsLifecycle, Lifecycle!Spec
-----------------------------------------------------------------------------
(* What is told when a listener ends. *)

(* The manager is closing c: it was offline, or refused.                   *)
Excused(c) == pc[Manager] \in Closing /\ task[Manager].conn = c

(* A listener that nobody has excused closes before it ends: it finds the  *)
(* link online, and on its way through close it comes by the report.       *)
Good(c) ==
    pc[c] # "none" /\ reports[c] = 0 =>
        /\ pc[c] \notin {"drop", "join", "joining", "over"}
        /\ (~online[c] => pc[c] \in {"ssl", "shutdown", "forget", "report"})
        /\ (ssl[c] = "null" => pc[c] = "report")

(* The owner of a connection that the manager accepted has asked to be told. *)
WatchedInv == \A c \in Private : pc[c] # "none" => c \in watched

(* No connection is twice in the list of the manager. *)
OnceInv ==
    \A i, j \in 1 .. Len(conexions) : conexions[i] = conexions[j] => i = j

(* What the manager closes is in its list, or it never had a listener.     *)
RefusedInv ==
    pc[Manager] \in Closing =>
        \/ Contains(conexions, task[Manager].conn)
        \/ pc[task[Manager].conn] = "none"

ReportInv ==
    \A c \in Private : Contains(conexions, c) /\ ~Excused(c) => Good(c)

RInv == WatchedInv /\ OnceInv /\ RefusedInv /\ ReportInv

(* Good looks at four values only.                                         *)
LEMMA GoodStays ==
  ASSUME NEW c, Good(c), pc'[c] = pc[c], online'[c] = online[c], ssl'[c] = ssl[c],
         reports'[c] = reports[c]
  PROVE  Good(c)'
BY DEF Good

(* Steps that leave the list alone, start no listener and neither begin    *)
(* nor end a close of the manager.                                         *)
LEMMA ListStands ==
  ASSUME RInv, conexions' = conexions, watched' = watched,
         task'[Manager] = task[Manager],
         pc'[Manager] \in Closing <=> pc[Manager] \in Closing,
         \A c \in Private : pc[c] = "none" => pc'[c] = "none",
         Excused(task[Manager].conn) /\ pc[task[Manager].conn] = "none"
            => pc'[task[Manager].conn] = "none",
         \A c \in Private : Good(c) /\ ~Excused(c) => Good(c)'
  PROVE  RInv'
<1>1. WatchedInv' /\ OnceInv'
  BY DEF RInv, WatchedInv, OnceInv
<1>2. RefusedInv'
  BY DEF RInv, RefusedInv, Excused
<1>3. \A c \in Private : Excused(c)' <=> Excused(c)
  BY DEF Excused
<1>4. ReportInv'
  BY <1>3 DEF RInv, ReportInv
<1> QED
  BY <1>1, <1>2, <1>4 DEF RInv

(* A thread goes on: a listener does so towards its report.                *)
LEMMA MoveReports ==
  ASSUME IInv, RInv, NEW t \in Threads, NEW p, Moves(t, p)
  PROVE  RInv'
<1>0. TypeOK /\ UNCHANGED <<online, ssl, reports, watched, conexions, task>>
  BY DEF IInv, Moves, objects, history, list
<1>1. \A d \in Threads : pc'[d] = IF d = t THEN p ELSE pc[d]
  BY <1>0 DEF Moves, TypeOK
<1>2. p # "none" /\ pc[t] # "none"
  BY DEF Moves
<1>3. pc'[Manager] \in Closing <=> pc[Manager] \in Closing
  BY <1>1 DEF Moves, IInv, ManagerInv, Closing, Threads
<1>4. \A c \in Conns : pc[c] = "none" => pc'[c] = "none"
  BY <1>1, <1>2 DEF Threads
<1>5. ASSUME NEW c \in Private, Good(c), ~Excused(c) PROVE Good(c)'
  <2>1. c \in Conns /\ c \in Threads
    BY DEF Private, Threads
  <2>2. CASE c # t
    BY <1>0, <1>1, <1>5, <2>1, <2>2, GoodStays
  <2>3. CASE c = t /\ reports[c] = 0
    <3>1. /\ pc[c] \notin {"drop", "join", "joining", "over"}
          /\ ~online[c] => pc[c] \in {"ssl", "shutdown", "forget", "report"}
          /\ ssl[c] = "null" => pc[c] = "report"
      BY <1>2, <1>5, <2>3 DEF Good
    <3>2. task[c].conn = c /\ ssl[c] # "none"
      BY <1>2, <2>1, <2>3 DEF IInv, ListenerInv, ObjectInv
    <3>3. pc[c] = "ssl" /\ ssl[c] = "set" => p = "shutdown"
      BY <2>3, <3>2 DEF Moves
    <3>4. ssl[c] \in {"none", "set", "null"}
      BY <1>0, <2>1 DEF TypeOK
    <3>5. /\ p \notin {"drop", "join", "joining", "over"}
          /\ ~online[c] => p \in {"ssl", "shutdown", "forget", "report"}
          /\ ssl[c] # "null"
      BY <2>3, <3>1, <3>2, <3>3, <3>4 DEF Moves
    <3> QED
      BY <1>0, <1>1, <2>1, <2>3, <3>5 DEF Good
  <2>4. CASE reports[c] # 0
    BY <1>0, <2>4 DEF Good
  <2> QED
    BY <2>2, <2>3, <2>4
<1>6. task[Manager].conn \in Conns \/ ~Excused(task[Manager].conn)
  BY DEF Excused, IInv, ManagerInv
<1> QED
  BY <1>0, <1>3, <1>4, <1>5, <1>6, ListStands DEF Private

(* The other steps of a thread in send or in close: nobody but its         *)
(* listener works on a connection that is not excused.                     *)
LEMMA OwnStep ==
  ASSUME IInv, RInv, NEW t \in Threads, pc[t] \in Busy, NEW p,
         p # "none", t = Manager => p \in Closing,
         UNCHANGED <<conexions, watched, task>>,
         pc' = [pc EXCEPT ![t] = p],
         \A d \in Conns : d # task[t].conn =>
            online'[d] = online[d] /\ ssl'[d] = ssl[d] /\ reports'[d] = reports[d],
         t \in Private /\ Good(t) => Good(t)'
  PROVE  RInv'
<1>0. TypeOK /\ (t = Manager => pc[t] \in Closing)
  BY DEF IInv, ManagerInv, Busy, Closing
<1>1. \A d \in Threads : pc'[d] = IF d = t THEN p ELSE pc[d]
  BY <1>0 DEF TypeOK
<1>2. pc'[Manager] \in Closing <=> pc[Manager] \in Closing
  BY <1>0, <1>1 DEF Threads
<1>3. \A c \in Conns : pc[c] = "none" => pc'[c] = "none"
  BY <1>1 DEF Threads, Busy, Closing
<1>4. ASSUME NEW c \in Private, Good(c), ~Excused(c) PROVE Good(c)'
  <2>1. c \in Conns /\ c \in Threads
    BY DEF Private, Threads
  <2>2. CASE c # t
    <3>1. c # task[t].conn
      BY <1>0, <1>4, <2>2, PrivateTask DEF Excused
    <3> QED
      BY <1>1, <1>4, <2>1, <2>2, <3>1, GoodStays
  <2> QED
    BY <1>4, <2>2
<1>5. task[Manager].conn \in Conns \/ ~Excused(task[Manager].conn)
  BY DEF Excused, IInv, ManagerInv
<1> QED
  BY <1>2, <1>3, <1>4, <1>5, ListStands DEF Private

(* Steps of the thread that writes and closes. *)
LEMMA CloseReports ==
  ASSUME IInv, RInv, NEW t \in Threads,
         \/ Clear(t) \/ Forget(t) \/ Report(t) \/ Drop(t) \/ Lock(t)
         \/ Shutdown(t) /\ ~Crash
  PROVE  RInv'
<1> USE DEF Goto
<1>0. TypeOK /\ t \in DOMAIN pc
  BY DEF IInv, TypeOK
<1>1. pc[t] \in Busy
  BY DEF Busy, Closing, Clear, Forget, Report, Drop, Lock, Shutdown
<1>2. task[t].conn \in Conns
  BY <1>1, BusyTask
<1>3. t \in Private => /\ t \in Conns /\ task[t].conn = t /\ ~task[t].joins
                       /\ reports[t] \in Nat
  BY <1>0, <1>1, BusyTask DEF Private, TypeOK
<1>4. CASE Clear(t)
  <2>1. t \in Private /\ Good(t) => Good(t)'
    BY <1>0, <1>3, <1>4 DEF Good, Clear, TypeOK, history, IInv, LifeInv, Private, ObjectInv
  <2> QED
    BY <1>0, <1>1, <1>2, <1>4, <2>1, OwnStep DEF Clear, TypeOK, Closing, list, history
<1>5. CASE Forget(t)
  <2>1. t \in Private /\ Good(t) => Good(t)'
    BY <1>0, <1>3, <1>5 DEF Good, Forget, TypeOK, history, RInv, WatchedInv
  <2> QED
    BY <1>0, <1>1, <1>2, <1>5, <2>1, OwnStep DEF Forget, TypeOK, Closing, list, history
<1>6. CASE Report(t)
  <2>1. t \in Private /\ Good(t) => Good(t)'
    BY <1>0, <1>3, <1>6 DEF Good, Report, TypeOK, objects
  <2> QED
    BY <1>0, <1>1, <1>2, <1>6, <2>1, OwnStep DEF Report, TypeOK, Closing, list, objects
<1>7. CASE Drop(t)
  <2>1. t \in Private /\ Good(t) => Good(t)'
    BY <1>0, <1>3, <1>7 DEF Good, Drop, TypeOK, history
  <2> QED
    BY <1>0, <1>1, <1>2, <1>7, <2>1, OwnStep DEF Drop, TypeOK, Closing, list, history
<1>8. CASE Lock(t)
  <2>1. t \in Private /\ Good(t) => Good(t)'
    BY <1>0, <1>3, <1>8 DEF Good, Lock, TypeOK, history, objects
  <2>2. t # Manager
    BY <1>8 DEF Lock, IInv, ManagerInv, Closing
  <2> QED
    BY <1>0, <1>1, <1>2, <1>8, <2>1, <2>2, OwnStep DEF Lock, TypeOK, list, objects, history
<1>9. CASE Shutdown(t) /\ ~Crash
  <2>1. ASSUME pc' = [pc EXCEPT ![t] = "forget"], pc[t] = "shutdown" PROVE RInv'
    <3>1. t \in Private /\ Good(t) => Good(t)'
      BY <1>0, <1>3, <1>9, <2>1 DEF Good, Shutdown, TypeOK, history, objects
    <3> QED
      BY <1>0, <1>1, <1>2, <1>9, <2>1, <3>1, OwnStep
         DEF Shutdown, TypeOK, Closing, list, objects, history
  <2>2. CASE pc' = pc
    <3>1. UNCHANGED <<conexions, watched, task, online, ssl, reports, pc>>
      BY <1>9, <2>2 DEF Shutdown, list, objects, history
    <3> QED
      BY <3>1, ListStands, GoodStays
  <2> QED
    BY <1>9, <2>1, <2>2 DEF Shutdown
<1> QED
  BY <1>4, <1>5, <1>6, <1>7, <1>8, <1>9

(* A send that is done, and the steps that no connection notices.          *)
LEMMA OtherReports ==
  ASSUME IInv, RInv,
         \/ Crash \/ AcceptFails \/ UNCHANGED vars
         \/ \E c \in Conns : PeerLeaves(c)
         \/ \E t \in Threads : pc[t] \in {"check", "write"} /\ Sent(t)
         \/ \E w \in Writers, c \in Conns : Call(w, c)
  PROVE  RInv'
<1> USE DEF Goto
<1>0. TypeOK
  BY DEF IInv
<1>1. UNCHANGED <<conexions, watched, online, ssl, reports>>
  BY DEF Crash, AcceptFails, vars, PeerLeaves, Sent, Call, objects, list, history
<1>2. task'[Manager] = task[Manager]
  BY <1>0 DEF Crash, AcceptFails, vars, PeerLeaves, Sent, Call, TypeOK, Threads
<1>3. \A c \in Conns : \/ pc'[c] = pc[c]
                       \/ pc[c] \in {"check", "write"} /\ pc'[c] = "test"
  BY <1>0 DEF Crash, AcceptFails, vars, PeerLeaves, Sent, Call, TypeOK, Threads
<1>4. pc'[Manager] \in Closing <=> pc[Manager] \in Closing
  BY <1>0 DEF Crash, AcceptFails, vars, PeerLeaves, Sent, Call, TypeOK, Threads, Closing,
     IInv, ManagerInv
<1>5. ASSUME NEW c \in Private, Good(c) PROVE Good(c)'
  <2>1. c \in Conns
    BY DEF Private
  <2>2. CASE pc'[c] = pc[c]
    BY <1>1, <1>5, <2>2, GoodStays
  <2>3. CASE pc[c] \in {"check", "write"} /\ pc'[c] = "test"
    BY <1>1, <1>5, <2>3 DEF Good
  <2> QED
    BY <1>3, <2>1, <2>2, <2>3
<1>6. task[Manager].conn \in Conns \/ ~Excused(task[Manager].conn)
  BY DEF Excused, IInv, ManagerInv
<1> QED
  BY <1>1, <1>2, <1>3, <1>4, <1>5, <1>6, ListStands DEF Private

(* A connection that the process opens is not private, nor excused.        *)
LEMMA ConnectReports ==
  ASSUME IInv, RInv, NEW w \in Writers, NEW c \in Conns, Connect(w, c)
  PROVE  RInv'
<1>0. TypeOK
  BY DEF IInv
<1>1. /\ c \in Written /\ ssl[c] = "none"
      /\ UNCHANGED <<conexions, watched, reports, task>>
  BY DEF Connect, list, history
<1>2. /\ \A d \in Conns : d # c => online'[d] = online[d] /\ ssl'[d] = ssl[d] /\ pc'[d] = pc[d]
      /\ pc'[Manager] = pc[Manager]
  BY <1>0 DEF Connect, Goto, TypeOK, Threads
<1>3. ~Excused(c)
  BY <1>1 DEF Excused, IInv, ManagerInv
<1>4. task[Manager].conn \in Conns \/ ~Excused(task[Manager].conn)
  BY DEF Excused, IInv, ManagerInv
<1>5. \A d \in Private : d \in Conns /\ d # c
  BY <1>1 DEF Private
<1> QED
  BY <1>1, <1>2, <1>3, <1>4, <1>5, ListStands, GoodStays

(* In a list without repetitions, an element that is taken out is out, and *)
(* no repetition comes of it.                                              *)
LEMMA RemovedIsOut ==
  ASSUME NEW S, NEW s \in Seq(S), NEW i \in 1 .. Len(s),
         \A j, k \in 1 .. Len(s) : s[j] = s[k] => j = k
  PROVE  /\ ~Contains(RemoveAt(s, i), s[i])
         /\ \A d : Contains(RemoveAt(s, i), d) => Contains(s, d)
         /\ \A j, k \in 1 .. Len(RemoveAt(s, i)) :
               RemoveAt(s, i)[j] = RemoveAt(s, i)[k] => j = k
<1> DEFINE r == RemoveAt(s, i)
           at(k) == IF k < i THEN k ELSE k + 1
<1>0. i \in Nat /\ Len(s) \in Nat /\ i >= 1 /\ i <= Len(s)
  OBVIOUS
<1>1. Len(r) = Len(s) - 1 /\ \A k \in 1 .. Len(s) - 1 : r[k] = s[at(k)]
  BY RemoveAtIndex
<1>2. \A k \in 1 .. Len(s) - 1 : at(k) \in 1 .. Len(s) /\ at(k) # i
  BY <1>0
<1>3. \A j, k \in 1 .. Len(s) - 1 : at(j) = at(k) => j = k
  BY <1>0
<1> HIDE DEF r, at
<1>4. ~Contains(r, s[i])
  BY <1>0, <1>1, <1>2 DEF Contains
<1>5. \A d : Contains(r, d) => Contains(s, d)
  BY <1>1, <1>2 DEF Contains
<1>6. \A j, k \in 1 .. Len(r) : r[j] = r[k] => j = k
  BY <1>1, <1>2, <1>3
<1> QED
  BY <1>4, <1>5, <1>6 DEF r

(* A list grows by its last element. *)
LEMMA Appended ==
  ASSUME NEW S, NEW s \in Seq(S), NEW e \in S, ~Contains(s, e),
         \A j, k \in 1 .. Len(s) : s[j] = s[k] => j = k
  PROVE  /\ \A d : Contains(Append(s, e), d) => Contains(s, d) \/ d = e
         /\ \A j, k \in 1 .. Len(Append(s, e)) :
               Append(s, e)[j] = Append(s, e)[k] => j = k
<1>1. /\ Len(Append(s, e)) = Len(s) + 1
      /\ \A k \in 1 .. Len(s) : Append(s, e)[k] = s[k]
      /\ Append(s, e)[Len(s) + 1] = e
  OBVIOUS
<1>2. \A k \in 1 .. Len(s) : s[k] # e
  BY DEF Contains
<1>3. \A k \in 1 .. Len(s) + 1 : k \in 1 .. Len(s) \/ k = Len(s) + 1
  OBVIOUS
<1> QED
  BY <1>1, <1>2, <1>3 DEF Contains

(* When the close of the manager returns, what it closed is out of the     *)
(* list, or it was refused and has no listener.                            *)
LEMMA ReturnReports ==
  ASSUME IInv, RInv, NEW t \in Threads, pc[t] \in {"join", "joining"}, Return(t)
  PROVE  RInv'
<1> USE DEF Goto
<1>0. TypeOK /\ t \in DOMAIN pc
  BY DEF IInv, TypeOK
<1>1. pc[t] \in Busy
  BY DEF Busy, Closing
<1>2. task[t].conn \in Conns
  BY <1>1, BusyTask
<1>3. UNCHANGED <<online, ssl, watched, task, reports>>
  BY DEF Return
<1>4. CASE t # Manager
  <2>1. conexions' = conexions
    BY <1>4 DEF Return
  <2>2. pc' = [pc EXCEPT ![t] = IF t \in Conns THEN "test" ELSE "idle"]
    BY <1>4 DEF Return
  <2>3. t \in Private /\ Good(t) => Good(t)'
    BY <1>0, <1>3, <2>2 DEF Good, TypeOK, Private
  <2> QED
    BY <1>1, <1>2, <1>3, <1>4, <2>1, <2>2, <2>3, OwnStep
<1>5. CASE t = Manager
  <2> PICK c \in Conns : task[Manager].conn = c
    BY <1>2, <1>5
  <2>1. \A d \in Conns : pc'[d] = pc[d]
    BY <1>0, <1>5 DEF Return, TypeOK, Threads
  <2>2. pc'[Manager] = "scan"
    BY <1>0, <1>5 DEF Return, TypeOK
  <2>3. c \in Conns /\ conexions \in Seq(Conns) /\ it \in Nat \ {0}
    BY <1>0, <1>2, <1>5 DEF TypeOK
  <2>4. WatchedInv' /\ RefusedInv'
    BY <1>3, <2>1, <2>2 DEF RInv, WatchedInv, RefusedInv, Closing, Private
  <2>5. \A d \in Conns : Good(d) => Good(d)'
    BY <1>3, <2>1, GoodStays
  <2>6. \A d : Excused(d) => d = c
    BY DEF Excused
  <2>7. CASE Contains(conexions, c)
    <3>1. it \in 1 .. Len(conexions) /\ conexions[it] = c
      BY <1>5, <2>3, <2>7 DEF IInv, ManagerInv, Closing
    <3>2. conexions' = RemoveAt(conexions, it)
      BY <1>5, <2>7 DEF Return
    <3>3. /\ ~Contains(conexions', c)
          /\ \A d : Contains(conexions', d) => Contains(conexions, d)
          /\ OnceInv'
      BY <2>3, <3>1, <3>2, RemovedIsOut DEF RInv, OnceInv
    <3>4. ReportInv'
      BY <2>5, <2>6, <3>3 DEF RInv, ReportInv, Private
    <3> QED
      BY <2>4, <3>3, <3>4 DEF RInv
  <2>8. CASE ~Contains(conexions, c)
    <3>1. conexions' = Append(conexions, c)
      BY <1>5, <2>8 DEF Return
    <3>2. pc'[c] = "none"
      BY <1>5, <2>1, <2>3, <2>8 DEF RInv, RefusedInv, Closing
    <3>3. /\ \A d : Contains(conexions', d) => Contains(conexions, d) \/ d = c
          /\ OnceInv'
      BY <2>3, <2>8, <3>1, Appended DEF RInv, OnceInv
    <3>4. Good(c)'
      BY <3>2 DEF Good
    <3>5. ReportInv'
      BY <2>5, <2>6, <3>3, <3>4 DEF RInv, ReportInv, Private
    <3> QED
      BY <2>4, <3>3, <3>5 DEF RInv
  <2> QED
    BY <2>7, <2>8
<1> QED
  BY <1>4, <1>5

(* What the manager finds offline is in its list.                          *)
LEMMA ScanReports ==
  ASSUME IInv, RInv, Scan
  PROVE  RInv'
<1> USE DEF Goto
<1>0. TypeOK /\ conexions \in Seq(Conns) /\ it \in Nat \ {0}
  BY DEF IInv, TypeOK
<1>1. UNCHANGED <<conexions, watched, online, ssl, reports>> /\ pc[Manager] = "scan"
  BY DEF Scan, objects, history
<1>2. \A c \in Conns : pc'[c] = pc[c]
  BY <1>0 DEF Scan, TypeOK, Threads
<1>3. \A c \in Conns : Good(c) => Good(c)'
  BY <1>1, <1>2, GoodStays
<1>4. \A c : ~Excused(c)
  BY <1>1 DEF Excused, Closing
<1>5. WatchedInv' /\ OnceInv' /\ ReportInv'
  BY <1>1, <1>2, <1>3, <1>4 DEF RInv, WatchedInv, OnceInv, ReportInv, Private
<1>6. RefusedInv'
  <2>1. CASE pc'[Manager] \in Closing
    <3>1. it \in 1 .. Len(conexions) /\ task'[Manager].conn = conexions[it]
      BY <1>0, <1>1, <2>1 DEF Scan, TypeOK, Closing, Threads
    <3> QED
      BY <1>1, <3>1 DEF RefusedInv, Contains
  <2> QED
    BY <2>1 DEF RefusedInv
<1> QED
  BY <1>5, <1>6 DEF RInv

(* What is accepted is listed, online and watched; what is refused has no  *)
(* listener.                                                               *)
LEMMA AcceptReports ==
  ASSUME IInv, RInv, NEW c \in Conns, Accept(c)
  PROVE  RInv'
<1>0. TypeOK /\ conexions \in Seq(Conns)
  BY DEF IInv, TypeOK
<1>1. ssl[c] = "none" /\ pc[c] = "none" /\ reports' = reports /\ pc[Manager] = "accept"
  BY DEF Accept, IInv, ObjectInv, history
<1>2. /\ \A d \in Conns : d # c => online'[d] = online[d] /\ ssl'[d] = ssl[d] /\ pc'[d] = pc[d]
      /\ online'[c] /\ ssl'[c] = "set"
  BY <1>0 DEF Accept, Goto, TypeOK, Threads
<1>3. \A d \in Conns : d # c /\ Good(d) => Good(d)'
  BY <1>1, <1>2, GoodStays
<1>4. ~Contains(conexions, c)
  BY <1>1 DEF IInv, ListInv, Contains
<1>5. \A d : ~Excused(d)
  BY <1>1 DEF Excused, Closing
<1>6. CASE /\ watched' = watched \cup {c}
           /\ conexions' = Append(conexions, c)
           /\ pc' = [pc EXCEPT ![c] = "test", ![Manager] = "scan"]
  <2>1. pc'[c] = "test" /\ pc'[Manager] = "scan"
    BY <1>0, <1>6 DEF TypeOK, Threads
  <2>2. /\ \A d : Contains(conexions', d) => Contains(conexions, d) \/ d = c
        /\ OnceInv'
    BY <1>0, <1>4, <1>6, Appended DEF RInv, OnceInv
  <2>3. Good(c)'
    BY <1>2, <2>1 DEF Good
  <2>4. ReportInv'
    BY <1>3, <1>5, <2>2, <2>3 DEF RInv, ReportInv, Private
  <2>5. WatchedInv'
    BY <1>2, <1>6 DEF RInv, WatchedInv, Private
  <2>6. RefusedInv'
    BY <2>1 DEF RefusedInv, Closing
  <2> QED
    BY <2>2, <2>4, <2>5, <2>6 DEF RInv
<1>7. CASE /\ pc' = [pc EXCEPT ![Manager] = "close"]
           /\ task' = [task EXCEPT ![Manager] = [conn |-> c, joins |-> TRUE]]
           /\ UNCHANGED <<tListen, watched, list>>
  <2>1. pc'[c] = "none" /\ task'[Manager].conn = c
    BY <1>0, <1>1, <1>7 DEF TypeOK, Threads
  <2>2. conexions' = conexions /\ watched' = watched
    BY <1>7 DEF list
  <2>3. ReportInv'
    BY <1>3, <1>4, <1>5, <2>2 DEF RInv, ReportInv, Private
  <2>4. WatchedInv' /\ OnceInv' /\ RefusedInv'
    BY <1>2, <2>1, <2>2 DEF RInv, WatchedInv, OnceInv, RefusedInv, Private
  <2> QED
    BY <2>3, <2>4 DEF RInv
<1> QED
  BY <1>6, <1>7 DEF Accept, Goto

(* The invariant about reports holds at the start and is kept by each step. *)
LEMMA InitRInv == Init => RInv
BY DEF Init, RInv, WatchedInv, OnceInv, RefusedInv, ReportInv, Contains, Closing, Private,
   Threads

(* Every step of every thread keeps it. *)
LEMMA ReportStays == IInv /\ RInv /\ [Next]_vars => RInv'
<1> SUFFICES ASSUME IInv, RInv, [Next]_vars PROVE RInv'
  OBVIOUS
<1>1. ASSUME NEW t \in Threads, \E p : Moves(t, p) PROVE RInv'
  BY <1>1, MoveReports
<1>2. ASSUME NEW t \in Threads, Send(t) \/ Close(t) PROVE RInv'
  <2>1. CASE Check(t) \/ Write(t) \/ TestOnline(t) \/ TestSsl(t)
    BY <1>1, <2>1, Movers, OtherReports
  <2>2. CASE TestJoin(t)
    BY <1>1, <2>2, Movers, ReturnReports
  <2>3. CASE Join(t)
    BY <2>3, OtherReports, ReturnReports DEF Join
  <2>4. CASE Lock(t) \/ Shutdown(t) \/ Clear(t) \/ Forget(t) \/ Report(t) \/ Drop(t)
    BY <2>4, CloseReports, OtherReports
  <2> QED
    BY <1>2, <2>1, <2>2, <2>3, <2>4 DEF Send, Close
<1>3. ASSUME NEW c \in Conns, Listener(c) PROVE RInv'
  <2>0. c \in Threads
    BY DEF Threads
  <2>1. CASE Test(c) \/ Header(c) \/ Body(c) \/ Handle(c)
    BY <1>1, <2>0, <2>1, Movers, OtherReports
  <2> QED
    BY <1>2, <1>3, <2>0, <2>1 DEF Listener
<1>4. ASSUME NEW t \in Threads \ Conns, Goes(t) PROVE RInv'
  BY <1>2, <1>4 DEF Goes
<1> QED
  BY <1>3, <1>4, OtherReports, ScanReports, AcceptReports, ConnectReports DEF Next

(* When the listener of a connection that only it writes to has ended, and *)
(* the manager has neither closed the connection nor is about to, its      *)
(* owner has been told, once: for any connections, writers and             *)
(* interleaving.                                                           *)
THEOREM CloseAlwaysReported == Spec => []CloseIsReported
<1>1. IInv /\ RInv => CloseIsReported
  BY DEF IInv, LifeInv, RInv, ReportInv, Good, Excused, CloseIsReported, Private
<1> QED
  BY <1>1, IInvAlways, InitRInv, ReportStays, PTL DEF Spec

==============================================================================
