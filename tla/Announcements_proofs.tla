------------------------ MODULE Announcements_proofs ------------------------
(***************************************************************************)
(* Proofs about Announcements, for any users, connections and bounds, if   *)
(* the login server refuses no login: the router never uses a User it has  *)
(* deleted, and a user it has without a session is one whose connection    *)
(* was lost, or whose end was lost or overtook its beginning.              *)
(*                                                                         *)
(* The login server of the system behaves like LoginServer, so what is     *)
(* proved of that (IInv, LiveInv, OrderInv) holds here.                    *)
(***************************************************************************)
EXTENDS Announcements, LoginServer_proofs

USE UsersAssumption, NoUserAssumption, NoConnAssumption, BoundsAssumption,
    BooleanAssumption

In(q) == {q[k] : k \in 1 .. Len(q)}
Once(q) == \A j, k \in 1 .. Len(q) : q[j] = q[k] => j = k

(* What Control has handled.                                               *)
Passed == {sent[k] : k \in 1 .. done}

(* Both links of the router carry what Control has handled, no message     *)
(* twice.                                                                  *)
QueueInv ==
    /\ done \in Nat /\ done <= Len(sent)
    /\ toRouter \in Seq(Messages) /\ stale \in Seq(Messages)
    /\ Once(toRouter) /\ Once(stale)
    /\ In(toRouter) \cup In(stale) \subseteq Passed
    /\ In(toRouter) \cap In(stale) = {}

(* Control has handled m, and the router will not read it again.           *)
Spent(m) == m \in Passed /\ m \notin In(toRouter) \cup In(stale)

(* A user of the router is of a session whose NewClient it has read, a     *)
(* deleted one of a session whose ClientDisconnect it has read.            *)
RouterInv ==
    /\ routerStatus = "running"
    /\ live \subseteq mUsers /\ mUsers \subseteq Ids
    /\ routerToken \in [Ids -> Ids \cup {NoId}]
    /\ \A i \in mUsers : routerToken[i] = i /\ Spent(Began(i))
    /\ \A i \in mUsers \ live : Spent(Ended(i))

LoginSide == IInv /\ LiveInv /\ OrderInv

SysInv == LoginSide /\ QueueInv /\ RouterInv

-----------------------------------------------------------------------------
(* The login server of the system. *)

LEMMA LoginSteps == SystemNext => [Next]_vars
<1>1. ASSUME NEW c \in Conns, LoginHandler(c) PROVE Next
  BY <1>1 DEF LoginHandler, Next
<1>2. ASSUME LoginInput PROVE Next
  BY <1>2 DEF LoginInput, Next, ControlLink
<1>3. ASSUME ControlForwards \/ RouterLinkBreaks \/ RouterReads \/ RouterReadsStale
      PROVE  UNCHANGED vars
  BY <1>3 DEF ControlForwards, RouterLinkBreaks, RouterReads, RouterReadsStale
<1>4. ASSUME ControlArrives \/ ControlGoes PROVE Next
  BY <1>4 DEF ControlArrives, ControlGoes, Next, ControlLink
<1> QED
  BY <1>1, <1>2, <1>3, <1>4 DEF SystemNext

LEMMA LoginInvStep ==
  ASSUME ~WrongPasswords, LoginSide, [Next]_vars PROVE LoginSide'
<1>1. IInv'
  BY Inductive DEF LoginSide
<1>2. LiveInv'
  <2>1. CASE UNCHANGED vars
    BY <2>1 DEF LoginSide, vars, LiveInv, Owed, tables
  <2> QED
    BY <2>1, LiveStep DEF LoginSide
<1>3. OrderInv'
  BY <1>1, OrderStep DEF LoginSide
<1> QED
  BY <1>1, <1>2, <1>3 DEF LoginSide

(* No message is sent twice.                                               *)
LEMMA SentOnce == ASSUME LoginSide PROVE Once(sent)
<1> SUFFICES ASSUME NEW j \in 1 .. Len(sent), NEW k \in 1 .. Len(sent), sent[j] = sent[k]
             PROVE  j = k
  BY DEF Once
<1>1. DOMAIN sent = 1 .. Len(sent)
  BY DEF LoginSide, IInv, TypeOK
<1>2. \A a, b \in 1 .. Len(sent) :
         a < b /\ sent[a].body = sent[b].body
            => sent[a].kind = "NewClient" /\ sent[b].kind = "ClientDisconnect"
  BY <1>1 DEF LoginSide, OrderInv, AnnouncedInOrder
<1>3. ~(j < k) /\ ~(k < j)
  BY <1>2
<1> QED
  BY <1>3

(* Every message is the beginning or the end of a session that was given;  *)
(* one that has ended has no session in any table.                         *)
LEMMA SentSessions ==
  ASSUME LoginSide, NEW m \in In(sent)
  PROVE  \E i \in Ids : /\ i < nextFreeToken
                        /\ \/ m = Began(i)
                           \/ m = Ended(i) /\ idToUser[i] = NoUser
BY DEF LoginSide, OrderInv, MessageInv, In

(* A login step leaves what was sent, and may add to it.                   *)
LEMMA SentGrows ==
  ASSUME ~WrongPasswords, LoginSide, [Next]_vars
  PROVE  /\ Len(sent) <= Len(sent')
         /\ \A k \in 1 .. Len(sent) : sent'[k] = sent[k]
<1>0. sent \in Seq(Messages) /\ Len(sent) \in Nat
  BY DEF LoginSide, IInv, TypeOK
<1>1. CASE sent' = sent
  BY <1>0, <1>1
<1>2. ASSUME NEW m, sent' = Append(sent, m)
      PROVE  /\ Len(sent) <= Len(sent')
             /\ \A k \in 1 .. Len(sent) : sent'[k] = sent[k]
  BY <1>0, <1>2
<1>3. CASE UNCHANGED vars
  BY <1>1, <1>3 DEF vars, link
<1>4. CASE Next
  <2>1. Sends
    BY <1>4, EveryStepTells DEF LoginSide, OrderInv, Tells
  <2> QED
    BY <1>1, <1>2, <2>1 DEF Sends
<1> QED
  BY <1>3, <1>4

-----------------------------------------------------------------------------
(* What the instructions do to the table of users. *)

LEMMA ExecBegan ==
  ASSUME NEW i \in Ids, i \notin mUsers, Exec(Began(i))
  PROVE  /\ mUsers' = mUsers \cup {i} /\ live' = live \cup {i}
         /\ routerToken' = [routerToken EXCEPT ![i] = i]
         /\ routerStatus' = routerStatus
<1>1. Began(i).kind = "NewClient" /\ Began(i).body[1] = i /\ Began(i).body[2] = i
  BY DEF Began
<1>2. R!AddUser(i, i)
  BY <1>1 DEF Exec
<1> QED
  BY <1>2 DEF R!AddUser

LEMMA ExecEnded ==
  ASSUME NEW i \in Ids, i \notin mUsers \ live, live \subseteq mUsers, Exec(Ended(i))
  PROVE  /\ mUsers' = mUsers /\ live' = live \ {i}
         /\ routerToken' = routerToken
         /\ routerStatus' = routerStatus
<1>1. Ended(i).kind # "NewClient" /\ Ended(i).body[1] = i
  BY DEF Ended
<1>2. R!DelUser(NoConn, i)
  BY <1>1 DEF Exec
<1>3. CASE i \notin mUsers
  <2>1. R!Nothing
    BY <1>2, <1>3 DEF R!DelUser
  <2> QED
    BY <1>3, <2>1 DEF R!Nothing, R!tables, R!users
<1>4. CASE i \in mUsers /\ i \in live
  BY <1>2, <1>4 DEF R!DelUser, R!Threads
<1> QED
  BY <1>3, <1>4

-----------------------------------------------------------------------------
(* The queues. *)

(* Reading takes the first message out of a queue, and only that one.      *)
LEMMA ReadQueue ==
  ASSUME NEW q \in Seq(Messages), q # <<>>, Once(q)
  PROVE  /\ Tail(q) \in Seq(Messages) /\ Once(Tail(q))
         /\ Head(q) \in In(q) /\ Head(q) \notin In(Tail(q))
         /\ In(Tail(q)) \subseteq In(q)
         /\ In(q) \subseteq In(Tail(q)) \cup {Head(q)}
<1>1. Len(q) \in Nat /\ Len(q) >= 1 /\ Head(q) = q[1] /\ Tail(q) \in Seq(Messages)
  OBVIOUS
<1>2. Len(Tail(q)) = Len(q) - 1 /\ \A k \in 1 .. Len(Tail(q)) : Tail(q)[k] = q[k + 1]
  BY <1>1
<1>3. \A k \in 1 .. Len(Tail(q)) : k + 1 \in 1 .. Len(q) /\ k + 1 # 1
  BY <1>1, <1>2
<1>4. \A k \in 1 .. Len(q) : k = 1 \/ (k - 1 \in 1 .. Len(Tail(q)) /\ (k - 1) + 1 = k)
  BY <1>1, <1>2
<1>5. Once(Tail(q))
  BY <1>2, <1>3 DEF Once
<1>6. Head(q) \in In(q) /\ In(Tail(q)) \subseteq In(q)
  BY <1>1, <1>2, <1>3 DEF In
<1>7. Head(q) \notin In(Tail(q))
  BY <1>1, <1>2, <1>3 DEF In, Once
<1>8. In(q) \subseteq In(Tail(q)) \cup {Head(q)}
  BY <1>1, <1>2, <1>4 DEF In
<1> QED
  BY <1>1, <1>5, <1>6, <1>7, <1>8

LEMMA WriteQueue ==
  ASSUME NEW q \in Seq(Messages), NEW m \in Messages, Once(q), m \notin In(q)
  PROVE  /\ Append(q, m) \in Seq(Messages) /\ Once(Append(q, m))
         /\ In(Append(q, m)) = In(q) \cup {m}
<1> DEFINE n == Len(q)
<1>1. /\ n \in Nat /\ Append(q, m) \in Seq(Messages)
      /\ Len(Append(q, m)) = n + 1 /\ Append(q, m)[n + 1] = m
      /\ \A k \in 1 .. n : Append(q, m)[k] = q[k]
  OBVIOUS
<1> HIDE DEF n
<1>2. \A k \in 1 .. n + 1 : k \in 1 .. n \/ k = n + 1
  BY <1>1
<1>3. n + 1 \in 1 .. n + 1 /\ \A k \in 1 .. n : k \in 1 .. n + 1
  BY <1>1
<1>4. \A k \in 1 .. n : q[k] # m
  BY DEF In, n
<1>5. Once(Append(q, m))
  BY <1>1, <1>2, <1>4 DEF Once, n
<1>6. In(Append(q, m)) = In(q) \cup {m}
  BY <1>1, <1>2, <1>3 DEF In, n
<1> QED
  BY <1>1, <1>5, <1>6

LEMMA CutQueue ==
  ASSUME NEW q \in Seq(Messages), NEW n \in 0 .. Len(q), Once(q)
  PROVE  /\ SubSeq(q, 1, n) \in Seq(Messages) /\ Once(SubSeq(q, 1, n))
         /\ In(SubSeq(q, 1, n)) \subseteq In(q)
         /\ Len(SubSeq(q, 1, n)) = n
         /\ \A k \in 1 .. n : SubSeq(q, 1, n)[k] = q[k]
<1>1. /\ Len(SubSeq(q, 1, n)) = n
      /\ \A k \in 1 .. n : SubSeq(q, 1, n)[k] = q[k]
  OBVIOUS
<1>2. \A k \in 1 .. n : k \in 1 .. Len(q) /\ q[k] \in Messages
  OBVIOUS
<1>3. SubSeq(q, 1, n) \in Seq(Messages)
  OBVIOUS
<1> QED
  BY <1>1, <1>2, <1>3 DEF Once, In

-----------------------------------------------------------------------------
(* The steps. *)

(* What Control has handled stays what it was while the login server sends.*)
LEMMA PassedStands ==
  ASSUME ~WrongPasswords, LoginSide, QueueInv, [Next]_vars, done' = done
  PROVE  Passed' = Passed /\ done' <= Len(sent')
<1>1. \A k \in 1 .. done : k \in 1 .. Len(sent)
  BY DEF QueueInv, LoginSide, IInv, TypeOK
<1>2. \A k \in 1 .. done : sent'[k] = sent[k]
  BY <1>1, SentGrows
<1>3. sent \in Seq(Messages) /\ sent' \in Seq(Messages)
  BY LoginInvStep DEF LoginSide, IInv, TypeOK
<1>4. done' <= Len(sent')
  BY <1>3, SentGrows DEF QueueInv
<1> QED
  BY <1>2, <1>4 DEF Passed

LEMMA LoginStep ==
  ASSUME ~WrongPasswords, SysInv, [Next]_vars,
         UNCHANGED <<done, toRouter, stale, router>>
  PROVE  SysInv'
<1>1. LoginSide'
  BY LoginInvStep DEF SysInv
<1>2. /\ UNCHANGED <<done, toRouter, stale, mUsers, live, routerToken, routerStatus>>
      /\ Passed' = Passed /\ done' <= Len(sent')
  BY PassedStands DEF SysInv, router
<1>3. QueueInv'
  BY <1>2 DEF SysInv, QueueInv
<1>4. RouterInv'
  BY <1>2 DEF SysInv, RouterInv, Spent
<1> QED
  BY <1>1, <1>3, <1>4 DEF SysInv

LEMMA ForwardStep ==
  ASSUME ~WrongPasswords, SysInv, ControlForwards
  PROVE  /\ SysInv' /\ sent[done + 1] \in Messages
         /\ Passed' = Passed \cup {sent[done + 1]}
<1> DEFINE m == sent[done + 1]
<1>1. /\ UNCHANGED <<stale, mUsers, live, routerToken, routerStatus>>
      /\ UNCHANGED vars /\ sent' = sent
      /\ done < Len(sent) /\ done' = done + 1
      /\ toRouter' = Append(toRouter, m) \/ toRouter' = toRouter
  BY DEF ControlForwards, router, vars, link
<1>2. LoginSide'
  BY <1>1, LoginInvStep DEF SysInv
<1>3. sent \in Seq(Messages) /\ done \in Nat
  BY DEF SysInv, LoginSide, IInv, TypeOK, QueueInv
<1>4. done + 1 \in 1 .. Len(sent) /\ m \in Messages
  BY <1>1, <1>3
<1>5. /\ \A k \in 1 .. done : k \in 1 .. Len(sent) /\ k # done + 1
      /\ \A k \in 1 .. done + 1 : k \in 1 .. done \/ k = done + 1
      /\ \A k \in 1 .. done : k \in 1 .. done + 1
      /\ done + 1 \in 1 .. done + 1
  BY <1>1, <1>3
<1>6. m \notin Passed
  BY <1>4, <1>5, SentOnce DEF SysInv, Once, Passed
<1>7. Passed' = Passed \cup {m}
  BY <1>1, <1>5 DEF Passed
<1> HIDE DEF m
<1>8. m \notin In(toRouter) \cup In(stale)
  BY <1>6 DEF SysInv, QueueInv
<1>9. /\ toRouter' \in Seq(Messages) /\ Once(toRouter')
      /\ In(toRouter') \subseteq In(toRouter) \cup {m}
  <2>1. toRouter \in Seq(Messages) /\ Once(toRouter) /\ m \notin In(toRouter)
    BY <1>8 DEF SysInv, QueueInv
  <2>2. CASE toRouter' = Append(toRouter, m)
    BY <1>4, <2>1, <2>2, WriteQueue
  <2>3. CASE toRouter' = toRouter
    BY <2>1, <2>3 DEF In, Once
  <2> QED
    BY <1>1, <2>2, <2>3
<1>10. done' \in Nat /\ done' <= Len(sent')
  BY <1>1, <1>3, <1>4
<1>11. QueueInv'
  BY <1>1, <1>7, <1>8, <1>9, <1>10 DEF SysInv, QueueInv
<1>12. \A x : Spent(x) => Spent(x)'
  BY <1>1, <1>6, <1>7, <1>9 DEF Spent
<1>13. RouterInv'
  BY <1>1, <1>12 DEF SysInv, RouterInv
<1> QED
  BY <1>2, <1>4, <1>7, <1>11, <1>13 DEF SysInv, m

(* The link to the router fails: the router reads less.                    *)
LEMMA BreakStep ==
  ASSUME ~WrongPasswords, SysInv, RouterLinkBreaks PROVE SysInv'
<1>1. PICK n \in 0 .. Len(toRouter) : toRouter' = SubSeq(toRouter, 1, n)
  BY DEF RouterLinkBreaks
<1>2. /\ UNCHANGED <<done, stale, mUsers, live, routerToken, routerStatus>>
      /\ UNCHANGED vars /\ sent' = sent
  BY DEF RouterLinkBreaks, router, vars, link
<1>3. LoginSide'
  BY <1>2, LoginInvStep DEF SysInv
<1>4. Passed' = Passed
  BY <1>2 DEF Passed
<1>5. /\ toRouter' \in Seq(Messages) /\ Once(toRouter')
      /\ In(toRouter') \subseteq In(toRouter)
  BY <1>1, CutQueue DEF SysInv, QueueInv
<1>6. QueueInv'
  BY <1>2, <1>4, <1>5 DEF SysInv, QueueInv
<1>7. \A x : Spent(x) => Spent(x)'
  BY <1>2, <1>4, <1>5 DEF Spent
<1>8. RouterInv'
  BY <1>2, <1>7 DEF SysInv, RouterInv
<1> QED
  BY <1>3, <1>6, <1>8 DEF SysInv

LEMMA GoesStep ==
  ASSUME ~WrongPasswords, SysInv, ControlGoes PROVE SysInv'
<1>1. PICK n \in 0 .. Len(toRouter) : stale' = SubSeq(toRouter, 1, n)
  BY DEF ControlGoes
<1>2. /\ UNCHANGED <<mUsers, live, routerToken, routerStatus>> /\ sent' = sent
      /\ done' = Len(sent) /\ toRouter' = <<>>
  BY DEF ControlGoes, ControlBreaks, router
<1>3. [Next]_vars
  BY LoginSteps DEF SystemNext
<1>4. LoginSide'
  BY <1>3, LoginInvStep DEF SysInv
<1>5. sent \in Seq(Messages) /\ done \in Nat /\ done <= Len(sent) /\ Len(sent) \in Nat
  BY DEF SysInv, LoginSide, IInv, TypeOK, QueueInv
<1>6. \A k \in 1 .. done : k \in 1 .. Len(sent)
  BY <1>5
<1>7. Passed \subseteq Passed'
  BY <1>2, <1>6 DEF Passed
<1>8. /\ stale' \in Seq(Messages) /\ Once(stale')
      /\ In(stale') \subseteq In(toRouter)
  BY <1>1, CutQueue DEF SysInv, QueueInv
<1>9. toRouter' \in Seq(Messages) /\ Once(toRouter') /\ In(toRouter') = {}
  BY <1>2 DEF Once, In
<1>10. QueueInv'
  BY <1>2, <1>5, <1>7, <1>8, <1>9 DEF SysInv, QueueInv
<1>11. \A x : Spent(x) => Spent(x)'
  BY <1>7, <1>8, <1>9 DEF Spent
<1>12. RouterInv'
  BY <1>2, <1>11 DEF SysInv, RouterInv
<1> QED
  BY <1>4, <1>10, <1>12 DEF SysInv

(* The router reads m, which it will not read again: a NewClient is of a   *)
(* session it has not heard of, and a ClientDisconnect not of one it has   *)
(* already deleted.                                                        *)
LEMMA ExecStep ==
  ASSUME LoginSide, QueueInv, RouterInv,
         NEW m \in In(toRouter) \cup In(stale), Exec(m), Passed' = Passed,
         m \notin In(toRouter') \cup In(stale'),
         In(toRouter') \cup In(stale') \subseteq In(toRouter) \cup In(stale)
  PROVE  RouterInv'
<1>1. m \in In(sent)
  <2>1. m \in Passed
    BY DEF QueueInv
  <2>2. \A k \in 1 .. done : k \in 1 .. Len(sent)
    BY DEF QueueInv, LoginSide, IInv, TypeOK
  <2> QED
    BY <2>1, <2>2 DEF Passed, In
<1>2. PICK i \in Ids : m = Began(i) \/ m = Ended(i)
  BY <1>1, SentSessions
<1>3. Spent(m)'
  BY DEF Spent, QueueInv
<1>4. \A x : Spent(x) => Spent(x)'
  BY DEF Spent
<1>5. ~Spent(m)
  BY DEF Spent
<1>6. CASE m = Began(i)
  <2>1. i \notin mUsers
    BY <1>5, <1>6 DEF RouterInv
  <2>2. /\ mUsers' = mUsers \cup {i} /\ live' = live \cup {i}
        /\ routerToken' = [routerToken EXCEPT ![i] = i]
        /\ routerStatus' = routerStatus
    BY <1>6, <2>1, ExecBegan
  <2> QED
    BY <1>3, <1>4, <1>6, <2>1, <2>2 DEF RouterInv
<1>7. CASE m = Ended(i)
  <2>1. i \notin mUsers \ live
    BY <1>5, <1>7 DEF RouterInv
  <2>2. /\ mUsers' = mUsers /\ live' = live \ {i}
        /\ routerToken' = routerToken
        /\ routerStatus' = routerStatus
    BY <1>7, <2>1, ExecEnded DEF RouterInv
  <2> QED
    BY <1>3, <1>4, <1>7, <2>1, <2>2 DEF RouterInv
<1> QED
  BY <1>2, <1>6, <1>7

LEMMA ReadStep ==
  ASSUME ~WrongPasswords, SysInv, RouterReads \/ RouterReadsStale PROVE SysInv'
<1>1. UNCHANGED vars /\ sent' = sent /\ done' = done
  BY DEF RouterReads, RouterReadsStale, vars, link
<1>2. LoginSide'
  BY <1>1, LoginInvStep DEF SysInv
<1>3. Passed' = Passed
  BY <1>1 DEF Passed
<1>4. CASE RouterReads
  <2> DEFINE m == Head(toRouter)
  <2>1. /\ toRouter # <<>> /\ Exec(m) /\ toRouter' = Tail(toRouter) /\ stale' = stale
    BY <1>4 DEF RouterReads
  <2>2. /\ toRouter' \in Seq(Messages) /\ Once(toRouter')
        /\ m \in In(toRouter) /\ m \notin In(toRouter')
        /\ In(toRouter') \subseteq In(toRouter)
    BY <2>1, ReadQueue DEF SysInv, QueueInv
  <2>3. m \notin In(stale')
    BY <2>1, <2>2 DEF SysInv, QueueInv
  <2> HIDE DEF m
  <2>4. QueueInv'
    BY <1>1, <1>3, <2>1, <2>2 DEF SysInv, QueueInv
  <2>5. RouterInv'
    BY <1>3, <2>1, <2>2, <2>3, ExecStep DEF SysInv
  <2> QED
    BY <1>2, <2>4, <2>5 DEF SysInv
<1>5. CASE RouterReadsStale
  <2> DEFINE m == Head(stale)
  <2>1. /\ stale # <<>> /\ Exec(m) /\ stale' = Tail(stale) /\ toRouter' = toRouter
    BY <1>5 DEF RouterReadsStale
  <2>2. /\ stale' \in Seq(Messages) /\ Once(stale')
        /\ m \in In(stale) /\ m \notin In(stale')
        /\ In(stale') \subseteq In(stale)
    BY <2>1, ReadQueue DEF SysInv, QueueInv
  <2>3. m \notin In(toRouter')
    BY <2>1, <2>2 DEF SysInv, QueueInv
  <2> HIDE DEF m
  <2>4. QueueInv'
    BY <1>1, <1>3, <2>1, <2>2 DEF SysInv, QueueInv
  <2>5. RouterInv'
    BY <1>3, <2>1, <2>2, <2>3, ExecStep DEF SysInv
  <2> QED
    BY <1>2, <2>4, <2>5 DEF SysInv
<1> QED
  BY <1>4, <1>5

LEMMA SysInvStep ==
  ASSUME ~WrongPasswords, SysInv, [SystemNext]_systemVars PROVE SysInv'
<1>1. CASE (\E c \in Conns : LoginHandler(c)) \/ LoginInput \/ ControlArrives
  <2>1. UNCHANGED <<done, toRouter, stale, router>>
    BY <1>1 DEF LoginHandler, LoginInput, ControlArrives, transit
  <2>2. [Next]_vars
    BY <1>1, LoginSteps DEF SystemNext
  <2> QED
    BY <2>1, <2>2, LoginStep
<1>2. CASE UNCHANGED systemVars
  BY <1>2, LoginStep DEF systemVars, transit
<1> QED
  BY <1>1, <1>2, ForwardStep, BreakStep, GoesStep, ReadStep DEF SystemNext

LEMMA InitSysInv == ASSUME SystemInit PROVE SysInv
<1>1. IInv /\ OrderInv
  BY InitIInv, InitOrder DEF SystemInit
<1>2. LiveInv
  BY DEF SystemInit, Init, LiveInv, Owed
<1>3. QueueInv
  BY DEF SystemInit, Init, QueueInv, Once, In
<1>4. RouterInv
  BY DEF SystemInit, RouterInv
<1> QED
  BY <1>1, <1>2, <1>3, <1>4 DEF SysInv, LoginSide

LEMMA SysInvAlways == ASSUME ~WrongPasswords PROVE SystemSpec => []SysInv
<1>1. SystemInit => SysInv
  BY InitSysInv
<1>2. SysInv /\ [SystemNext]_systemVars => SysInv'
  BY SysInvStep
<1> QED
  BY <1>1, <1>2, PTL DEF SystemSpec

(* The users of the router are sessions the login server gave; one that    *)
(* was taken out has no session in any table; and nothing that arrives, in *)
(* whatever order two Controls sent it, makes the router use a User that   *)
(* it has deleted (Router.cpp:208 and 238).                                *)
THEOREM RouterAlwaysFollowsLogin ==
  ASSUME ~WrongPasswords PROVE SystemSpec => []RouterFollowsLogin
<1>1. SysInv => RouterFollowsLogin
  <2> SUFFICES ASSUME SysInv PROVE RouterFollowsLogin
    OBVIOUS
  <2>1. Passed \subseteq In(sent)
    BY DEF SysInv, LoginSide, IInv, TypeOK, QueueInv, Passed, In
  <2>2. ASSUME NEW i \in mUsers PROVE i < nextFreeToken
    <3>1. i \in Ids /\ Began(i) \in In(sent)
      BY <2>1 DEF SysInv, RouterInv, Spent
    <3> QED
      BY <3>1, SentSessions, MessagesDiffer DEF SysInv
  <2>3. mUsers \subseteq 0 .. nextFreeToken - 1
    BY <2>2 DEF SysInv, LoginSide, IInv, TypeOK, RouterInv, Ids
  <2>4. ASSUME NEW i \in mUsers \ live
        PROVE  idToUser[i] = NoUser /\ idToConn[i] = NoConn /\ userToken[i] = NoId
    <3>1. i \in Ids /\ Ended(i) \in In(sent)
      BY <2>1 DEF SysInv, RouterInv, Spent
    <3>2. i < nextFreeToken /\ idToUser[i] = NoUser
      BY <3>1, SentSessions, MessagesDiffer DEF SysInv
    <3>3. \A c \in Conns : ~Entering(c, i)
      BY <3>1, <3>2 DEF SysInv, LoginSide, IInv, TypeOK, LoginInv, Entering, Ids
    <3> QED
      BY <3>1, <3>2, <3>3 DEF SysInv, LoginSide, IInv, SessionTablesAgree, IdsAgree
  <2> QED
    BY <2>3, <2>4 DEF SysInv, RouterInv, RouterFollowsLogin
<1> QED
  BY <1>1, SysInvAlways, PTL

-----------------------------------------------------------------------------
(* Why the router still has a user whose session is over. *)

(* The links keep the order of what is about one session, each by itself,  *)
(* and what an earlier Control sent comes before what the next one sends.  *)
Follows(x, y) ==
    x.body = y.body => x.kind = "NewClient" /\ y.kind = "ClientDisconnect"
InOrder(q) == \A a, b \in 1 .. Len(q) : a < b => Follows(q[a], q[b])
OrdersKept ==
    /\ InOrder(toRouter) /\ InOrder(stale)
    /\ \A x \in In(stale), y \in In(toRouter) : Follows(x, y)

(* A session whose ClientDisconnect the router has read is gone for good,  *)
(* unless it read that on one link before the NewClient on the other.      *)
EndsArrive ==
    \A i \in Ids : Spent(Ended(i)) /\ Ended(i) \notin lost =>
        \/ i \in overtaken
        \/ i \notin live /\ Began(i) \notin In(toRouter) \cup In(stale)

(* A session that began for Control is there, or its connection was lost,  *)
(* or Control has been told that it ended, or will be, or the message was  *)
(* lost.                                                                   *)
EndsAreSent ==
    \A i \in Ids : Began(i) \in In(sent) =>
        \/ idToUser[i] # NoUser
        \/ i \in vanished
        \/ \E c \in Conns : ToEnd(c, i)
        \/ Ended(i) \in In(sent)
        \/ Ended(i) \in lost

(* Nothing is sent before Control has called.                              *)
LinkInv == control = "never" => sent = <<>>

GhostInv ==
    /\ OrdersKept /\ EndsArrive /\ LinkInv
    /\ status = "running" => EndsAreSent

(* The histories only grow.                                                *)
LEMMA HistoriesGrow ==
  ASSUME [SystemNext]_systemVars
  PROVE  vanished \subseteq vanished' /\ lost \subseteq lost' /\ overtaken \subseteq overtaken'
BY DEF SystemNext, systemVars, history, LoginHandler, LoginInput, ControlArrives,
   ControlForwards, ControlGoes, RouterLinkBreaks, RouterReads, RouterReadsStale

(* A step that leaves the login server alone leaves what it has to send.   *)
LEMMA NothingIsSent ==
  ASSUME GhostInv, [SystemNext]_systemVars, UNCHANGED <<sent, status, idToUser, pc, call>>,
         control' = control \/ control' # "never"
  PROVE  LinkInv' /\ (status' = "running" => EndsAreSent')
<1>1. LinkInv'
  BY DEF GhostInv, LinkInv
<1>2. In(sent') = In(sent)
  BY DEF In
<1>3. ASSUME NEW i \in Ids
      PROVE  (\E c \in Conns : ToEnd(c, i)) => \E c \in Conns : ToEnd(c, i)'
  BY DEF ToEnd
<1>4. EndsAreSent => EndsAreSent'
  BY <1>2, <1>3, HistoriesGrow DEF EndsAreSent
<1> QED
  BY <1>1, <1>4 DEF GhostInv

-----------------------------------------------------------------------------
(* The steps of the login server. *)

(* A session that is erased is to be withdrawn, or vanishes with its       *)
(* connection; one that was to be withdrawn is, or the message is lost.    *)
LEMMA EndsAreSentStep ==
  ASSUME ~WrongPasswords, LoginSide, LinkInv, EndsAreSent, status' = "running",
         (\E c \in Conns : LoginHandler(c)) \/ LoginInput
  PROVE  EndsAreSent'
<1>0. Next /\ [Next]_vars /\ [SystemNext]_systemVars
  BY LoginSteps DEF LoginHandler, LoginInput, Next, ControlLink, SystemNext
<1>1. Keeps /\ Sends /\ Accounts
  BY <1>0, EveryStepTells DEF Tells, LoginSide, OrderInv
<1>2. sent \in Seq(Messages) /\ sent' \in Seq(Messages)
  BY <1>0, LoginInvStep DEF LoginSide, IInv, TypeOK
<1>3. In(sent) \subseteq In(sent')
  <2>1. \A k \in 1 .. Len(sent) : k \in 1 .. Len(sent') /\ sent'[k] = sent[k]
    BY <1>0, <1>2, SentGrows
  <2> QED
    BY <2>1 DEF In
<1>4. \A m : sent' = Append(sent, m) => In(sent') = In(sent) \cup {m}
  <2> SUFFICES ASSUME NEW m, sent' = Append(sent, m) PROVE In(sent') = In(sent) \cup {m}
    OBVIOUS
  <2> DEFINE n == Len(sent)
  <2>1. /\ n \in Nat /\ Len(sent') = n + 1 /\ sent'[n + 1] = m
        /\ \A k \in 1 .. n : sent'[k] = sent[k]
    BY <1>2
  <2> HIDE DEF n
  <2>2. \A k \in 1 .. n + 1 : k \in 1 .. n \/ k = n + 1
    BY <2>1
  <2>3. n + 1 \in 1 .. n + 1 /\ \A k \in 1 .. n : k \in 1 .. n + 1
    BY <2>1
  <2> QED
    BY <2>1, <2>2, <2>3 DEF In, n
<1>5. vanished \subseteq vanished' /\ lost \subseteq lost'
  BY <1>0, HistoriesGrow
<1>6. ASSUME NEW d \in Conns, LoginHandler(d)
      PROVE  /\ \A c \in Conns : c # d => pc'[c] = pc[c] /\ call'[c] = call[c]
  BY <1>6 DEF LoginHandler, Handler, LoginAccepted, LoginRefused, Logout, Withdraw,
     InsertSession, Announce, SendToControl, Answer, AnswerFails, CallOnClose, Goto,
     LoginSide, IInv, TypeOK
<1>7. ASSUME LoginInput
      PROVE  /\ UNCHANGED tables
             /\ \A c \in Conns : pc[c] # "idle" => pc'[c] = pc[c] /\ call'[c] = call[c]
  BY <1>7 DEF LoginInput, Arrival, RequestLogin, RequestLogout, CloseConnection, Goto,
     ControlCloses, LoginSide, IInv, TypeOK
<1>8. ASSUME NEW i \in Ids, Began(i) \in In(sent')
      PROVE  \/ idToUser'[i] # NoUser
             \/ i \in vanished'
             \/ \E c \in Conns : ToEnd(c, i)'
             \/ Ended(i) \in In(sent')
             \/ Ended(i) \in lost'
  <2>1. CASE Began(i) \notin In(sent)
    <3>1. PICK c \in Conns, j \in Ids : /\ idToUser[j] # NoUser
                                        /\ sent' = Append(sent, Began(j))
                                        /\ idToUser' = idToUser
      BY <1>1, <1>4, <1>8, <2>1, MessagesDiffer DEF Sends
    <3>2. Began(i) = Began(j)
      BY <1>4, <1>8, <2>1, <3>1
    <3>3. i = j
      BY <3>2, MessagesDiffer
    <3> QED
      BY <3>1, <3>3
  <2>2. CASE Began(i) \in In(sent)
    <3>1. CASE i \in vanished \/ Ended(i) \in In(sent) \/ Ended(i) \in lost
      BY <1>3, <1>5, <3>1
    <3>2. CASE \E c \in Conns : ToEnd(c, i)
      <4>1. PICK c \in Conns : ToEnd(c, i)
        BY <3>2
      <4>2. control # "never" /\ status' # "crashed"
        BY <2>2 DEF LinkInv, In
      <4>3. ToEnd(c, i)' \/ sent' = Append(sent, Ended(i)) \/ control = "broken"
        BY <1>1, <4>1, <4>2 DEF Accounts
      <4>4. ASSUME control = "broken", ~ToEnd(c, i)' PROVE Ended(i) \in lost'
        <5>1. ~LoginInput
          BY <1>7, <4>1, <4>4 DEF ToEnd
        <5>2. PICK d \in Conns : LoginHandler(d)
          BY <5>1
        <5>3. d = c
          BY <1>6, <4>1, <4>4, <5>2 DEF ToEnd
        <5>4. Sending(c) = Ended(i)
          BY <4>1 DEF Sending, Ended, ToEnd
        <5> QED
          BY <4>1, <4>4, <5>2, <5>3, <5>4 DEF LoginHandler, ToEnd
      <4> QED
        BY <1>4, <4>3, <4>4
    <3>3. CASE idToUser[i] # NoUser
      <4>1. CASE idToUser'[i] # NoUser \/ \E c \in Conns : ToEnd(c, i)'
        BY <4>1
      <4>2. CASE ~(idToUser'[i] # NoUser \/ \E c \in Conns : ToEnd(c, i)')
        <5>1. PICK d \in Conns : pc[d] = "closing" /\ connToId[d] = i /\ pc'[d] = "closed"
          BY <1>1, <3>3, <4>2 DEF Accounts
        <5>2. ~LoginInput
          BY <1>7, <3>3, <4>2 DEF tables
        <5>3. PICK c \in Conns : LoginHandler(c)
          BY <5>2
        <5>4. d = c
          BY <1>6, <5>1, <5>3
        <5>5. i # NoId
          BY DEF Ids, NoId
        <5> QED
          BY <5>1, <5>3, <5>4, <5>5 DEF LoginHandler
      <4> QED
        BY <4>1, <4>2
    <3> QED
      BY <2>2, <3>1, <3>2, <3>3 DEF EndsAreSent
  <2> QED
    BY <2>1, <2>2
<1> QED
  BY <1>8 DEF EndsAreSent

LEMMA GhostLoginStep ==
  ASSUME ~WrongPasswords, SysInv, GhostInv,
         (\E c \in Conns : LoginHandler(c)) \/ LoginInput
  PROVE  GhostInv'
<1>1. UNCHANGED <<done, toRouter, stale, live, overtaken>>
  BY DEF LoginHandler, LoginInput, transit, router, history
<1>2. [SystemNext]_systemVars /\ [Next]_vars /\ status = "running"
  BY LoginSteps DEF SystemNext, LoginHandler, LoginInput
<1>3. Passed' = Passed /\ lost \subseteq lost'
  BY <1>1, <1>2, PassedStands, HistoriesGrow DEF SysInv
<1>4. OrdersKept'
  BY <1>1 DEF GhostInv, OrdersKept
<1>5. EndsArrive'
  BY <1>1, <1>3 DEF GhostInv, EndsArrive, Spent
<1>6. LinkInv'
  <2>1. ASSUME NEW c \in Conns, LoginHandler(c)
        PROVE  control' = "never" => control = "never" /\ sent' = sent
    <3>1. Handler(c)
      BY <2>1 DEF LoginHandler
    <3> QED
      BY <3>1 DEF Handler, LoginAccepted, LoginRefused, Logout, Withdraw, InsertSession,
         Announce, SendToControl, Answer, AnswerFails, CallOnClose, link
  <2>2. ASSUME LoginInput PROVE control' = "never" => control = "never" /\ sent' = sent
    BY <2>2 DEF LoginInput, Arrival, RequestLogin, RequestLogout, CloseConnection,
       ControlCloses, link
  <2> QED
    BY <2>1, <2>2 DEF GhostInv, LinkInv
<1>7. status' = "running" => EndsAreSent'
  BY <1>2, EndsAreSentStep DEF SysInv, GhostInv
<1> QED
  BY <1>4, <1>5, <1>6, <1>7 DEF GhostInv

(* A Control connects, or nothing happens.                                 *)
LEMMA GhostArriveStep ==
  ASSUME ~WrongPasswords, SysInv, GhostInv, ControlArrives \/ UNCHANGED systemVars
  PROVE  GhostInv'
<1>1. UNCHANGED <<done, toRouter, stale, live, overtaken, lost, sent>>
  BY DEF ControlArrives, ControlConnection, router, history, systemVars, transit, vars, link
<1>2. OrdersKept'
  BY <1>1 DEF GhostInv, OrdersKept
<1>3. EndsArrive'
  BY <1>1 DEF GhostInv, EndsArrive, Spent, Passed
<1>4. /\ UNCHANGED <<sent, status, idToUser, pc, call>>
      /\ control' = control \/ control' # "never"
      /\ [SystemNext]_systemVars
  BY DEF ControlArrives, ControlConnection, systemVars, vars, link, tables, SystemNext
<1> QED
  BY <1>2, <1>3, <1>4, NothingIsSent DEF GhostInv

-----------------------------------------------------------------------------
(* The steps of Control. *)

(* Nothing about a session follows its end, and its end follows whatever   *)
(* else there is.                                                          *)
LEMMA ForwardFollows ==
  ASSUME SysInv, done < Len(sent)
  PROVE  \A x \in Passed : Follows(x, sent[done + 1])
<1> SUFFICES ASSUME NEW k \in 1 .. done, sent[k].body = sent[done + 1].body
             PROVE  sent[k].kind = "NewClient" /\ sent[done + 1].kind = "ClientDisconnect"
  BY DEF Follows, Passed
<1>1. sent \in Seq(Messages) /\ done \in Nat /\ AnnouncedInOrder
  BY DEF SysInv, LoginSide, IInv, TypeOK, QueueInv, OrderInv
<1>2. k \in DOMAIN sent /\ done + 1 \in DOMAIN sent /\ k < done + 1
  BY <1>1
<1> QED
  BY <1>1, <1>2 DEF AnnouncedInOrder

LEMMA GhostForwardStep ==
  ASSUME ~WrongPasswords, SysInv, GhostInv, ControlForwards PROVE GhostInv'
<1> DEFINE m == sent[done + 1]
           n == Len(toRouter)
<1>1. /\ UNCHANGED <<stale, live, overtaken>>
      /\ UNCHANGED <<control, sent, status, idToUser, pc, call>>
      /\ done < Len(sent)
      /\ \/ toRouter' = Append(toRouter, m) /\ lost' = lost
         \/ toRouter' = toRouter /\ lost' = lost \cup {m}
  BY DEF ControlForwards, router, vars, link, tables
<1>2. m \in Messages /\ Passed' = Passed \cup {m} /\ SysInv'
  BY ForwardStep
<1>3. \A x \in In(toRouter) \cup In(stale) : Follows(x, m)
  BY <1>1, ForwardFollows DEF SysInv, QueueInv
<1>4. ASSUME NEW i \in Ids, m = Began(i) PROVE ~Spent(Ended(i))
  <2>1. ~Follows(Ended(i), Began(i))
    BY DEF Follows, Ended, Began
  <2> QED
    BY <1>1, <1>4, <2>1, ForwardFollows DEF Spent
<1>5. n \in Nat /\ toRouter \in Seq(Messages)
  BY DEF SysInv, QueueInv
<1> HIDE DEF m
<1>6. CASE toRouter' = Append(toRouter, m) /\ lost' = lost
  <2>1. /\ Len(toRouter') = n + 1 /\ toRouter'[n + 1] = m
        /\ \A k \in 1 .. n : toRouter'[k] = toRouter[k]
    BY <1>5, <1>6
  <2>2. \A k \in 1 .. n : toRouter[k] \in In(toRouter)
    BY DEF In
  <2> HIDE DEF n
  <2>3. InOrder(toRouter')
    <3> SUFFICES ASSUME NEW a \in 1 .. n + 1, NEW b \in 1 .. n + 1, a < b
                 PROVE  Follows(toRouter'[a], toRouter'[b])
      BY <2>1 DEF InOrder
    <3>1. a \in 1 .. n
      BY <1>5
    <3>2. CASE b = n + 1
      BY <1>3, <2>1, <2>2, <3>1, <3>2
    <3>3. CASE b \in 1 .. n
      BY <2>1, <3>1, <3>3 DEF GhostInv, OrdersKept, InOrder, n
    <3> QED
      BY <1>5, <3>2, <3>3
  <2>4. \A y \in In(toRouter') : y = m \/ y \in In(toRouter)
    <3>1. \A k \in 1 .. n + 1 : k \in 1 .. n \/ k = n + 1
      BY <1>5
    <3>2. \A y \in In(toRouter') : \E k \in 1 .. n + 1 : y = toRouter'[k]
      BY <2>1 DEF In
    <3> QED
      BY <2>1, <2>2, <3>1, <3>2
  <2>5. m \in In(toRouter') /\ In(toRouter) \subseteq In(toRouter')
    <3>1. n + 1 \in 1 .. n + 1 /\ \A k \in 1 .. n : k \in 1 .. n + 1
      BY <1>5
    <3> QED
      BY <2>1, <3>1 DEF In, n
  <2>6. OrdersKept'
    BY <1>1, <1>3, <2>3, <2>4 DEF GhostInv, OrdersKept
  <2>7. EndsArrive'
    <3> SUFFICES ASSUME NEW i \in Ids, Spent(Ended(i))', Ended(i) \notin lost,
                        i \notin overtaken
                 PROVE  i \notin live /\ Began(i) \notin In(toRouter') \cup In(stale)
      BY <1>1, <1>6 DEF EndsArrive
    <3>1. Spent(Ended(i))
      BY <1>1, <1>2, <2>5 DEF Spent
    <3>2. i \notin live /\ Began(i) \notin In(toRouter) \cup In(stale)
      BY <3>1 DEF GhostInv, EndsArrive
    <3>3. Began(i) # m
      BY <1>4, <3>1
    <3> QED
      BY <2>4, <3>2, <3>3
  <2> QED
    BY <1>1, <2>6, <2>7, NothingIsSent DEF GhostInv, SystemNext
<1>7. CASE toRouter' = toRouter /\ lost' = lost \cup {m}
  <2>1. OrdersKept'
    BY <1>1, <1>7 DEF GhostInv, OrdersKept
  <2>2. EndsArrive'
    BY <1>1, <1>2, <1>7 DEF GhostInv, EndsArrive, Spent
  <2> QED
    BY <1>1, <2>1, <2>2, NothingIsSent DEF GhostInv, SystemNext
<1> QED
  BY <1>1, <1>6, <1>7

(* What a link loses is its end, and that is in lost.                      *)
LEMMA LostIsCut ==
  ASSUME SysInv, NEW n \in 0 .. Len(toRouter)
  PROVE  In(toRouter) \subseteq In(SubSeq(toRouter, 1, n)) \cup LostAfter(n)
<1>1. toRouter \in Seq(Messages) /\ Once(toRouter)
  BY DEF SysInv, QueueInv
<1>2. /\ Len(SubSeq(toRouter, 1, n)) = n
      /\ \A k \in 1 .. n : SubSeq(toRouter, 1, n)[k] = toRouter[k]
  BY <1>1, CutQueue
<1>3. \A k \in 1 .. Len(toRouter) : k \in 1 .. n \/ k \in n + 1 .. Len(toRouter)
  BY <1>1
<1> QED
  BY <1>2, <1>3 DEF In, LostAfter

LEMMA InOrderCut ==
  ASSUME SysInv, InOrder(toRouter), NEW n \in 0 .. Len(toRouter)
  PROVE  InOrder(SubSeq(toRouter, 1, n))
<1>1. toRouter \in Seq(Messages) /\ Once(toRouter)
  BY DEF SysInv, QueueInv
<1>2. /\ Len(SubSeq(toRouter, 1, n)) = n
      /\ \A k \in 1 .. n : SubSeq(toRouter, 1, n)[k] = toRouter[k]
  BY <1>1, CutQueue
<1>3. \A k \in 1 .. n : k \in 1 .. Len(toRouter)
  BY <1>1
<1> QED
  BY <1>2, <1>3 DEF InOrder

LEMMA GhostBreakStep ==
  ASSUME ~WrongPasswords, SysInv, GhostInv, RouterLinkBreaks PROVE GhostInv'
<1>1. PICK n \in 0 .. Len(toRouter) :
         toRouter' = SubSeq(toRouter, 1, n) /\ lost' = lost \cup LostAfter(n)
  BY DEF RouterLinkBreaks
<1>2. /\ UNCHANGED <<stale, live, overtaken, done>>
      /\ UNCHANGED <<control, sent, status, idToUser, pc, call>>
  BY DEF RouterLinkBreaks, router, vars, link, tables
<1>3. /\ In(toRouter') \subseteq In(toRouter)
      /\ In(toRouter) \subseteq In(toRouter') \cup LostAfter(n)
  BY <1>1, CutQueue, LostIsCut DEF SysInv, QueueInv
<1>4. InOrder(toRouter')
  BY <1>1, InOrderCut DEF GhostInv, OrdersKept
<1>5. OrdersKept'
  BY <1>2, <1>3, <1>4 DEF GhostInv, OrdersKept
<1>6. EndsArrive'
  BY <1>1, <1>2, <1>3 DEF GhostInv, EndsArrive, Spent, Passed
<1> QED
  BY <1>2, <1>5, <1>6, NothingIsSent DEF GhostInv, SystemNext

LEMMA GhostGoesStep ==
  ASSUME ~WrongPasswords, SysInv, GhostInv, ControlGoes PROVE GhostInv'
<1>1. PICK n \in 0 .. Len(toRouter) :
         /\ stale' = SubSeq(toRouter, 1, n)
         /\ lost' = lost \cup LostAfter(n) \cup {sent[k] : k \in done + 1 .. Len(sent)}
  BY DEF ControlGoes
<1>2. /\ UNCHANGED <<live, overtaken>>
      /\ UNCHANGED <<sent, status, idToUser, pc, call>>
      /\ control' # "never"
      /\ stale = <<>> /\ done' = Len(sent) /\ toRouter' = <<>>
  BY DEF ControlGoes, ControlBreaks, router, tables
<1>3. /\ In(stale') \subseteq In(toRouter)
      /\ In(toRouter) \subseteq In(stale') \cup LostAfter(n)
  BY <1>1, CutQueue, LostIsCut DEF SysInv, QueueInv
<1>4. In(toRouter') = {} /\ InOrder(toRouter') /\ In(stale) = {}
  BY <1>2 DEF In, InOrder
<1>5. InOrder(stale')
  BY <1>1, InOrderCut DEF GhostInv, OrdersKept
<1>6. OrdersKept'
  BY <1>4, <1>5 DEF GhostInv, OrdersKept
<1>7. \A x \in Passed' : x \in Passed \/ x \in lost'
  <2>1. done \in Nat /\ Len(sent) \in Nat
    BY DEF SysInv, LoginSide, IInv, TypeOK, QueueInv
  <2>2. \A k \in 1 .. Len(sent) : k \in 1 .. done \/ k \in done + 1 .. Len(sent)
    BY <2>1
  <2>3. Passed' = {sent[k] : k \in 1 .. Len(sent)}
    BY <1>2 DEF Passed
  <2> QED
    BY <1>1, <2>2, <2>3 DEF Passed
<1>8. EndsArrive'
  <2> SUFFICES ASSUME NEW i \in Ids, Spent(Ended(i))', Ended(i) \notin lost',
                      i \notin overtaken'
               PROVE  i \notin live' /\ Began(i) \notin In(toRouter') \cup In(stale')
    BY DEF EndsArrive
  <2>1. Ended(i) \in Passed /\ Ended(i) \notin In(stale') \cup LostAfter(n)
    BY <1>1, <1>7 DEF Spent
  <2>2. Spent(Ended(i)) /\ Ended(i) \notin lost
    BY <1>1, <1>3, <1>4, <2>1 DEF Spent
  <2> QED
    BY <1>2, <1>3, <1>4, <2>2 DEF GhostInv, EndsArrive
<1> QED
  BY <1>2, <1>6, <1>8, NothingIsSent DEF GhostInv, SystemNext

-----------------------------------------------------------------------------
(* The steps of the router. *)

(* Taking the first message out of a queue leaves the order of the others, *)
(* which all follow it.                                                    *)
LEMMA InOrderTail ==
  ASSUME NEW q \in Seq(Messages), q # <<>>, InOrder(q)
  PROVE  InOrder(Tail(q)) /\ \A y \in In(Tail(q)) : Follows(Head(q), y)
<1>1. Len(q) \in Nat /\ Len(q) >= 1 /\ Head(q) = q[1]
  OBVIOUS
<1>2. Len(Tail(q)) = Len(q) - 1 /\ \A k \in 1 .. Len(Tail(q)) : Tail(q)[k] = q[k + 1]
  BY <1>1
<1>3. /\ 1 \in 1 .. Len(q)
      /\ \A k \in 1 .. Len(Tail(q)) : k + 1 \in 1 .. Len(q) /\ 1 < k + 1
  BY <1>1, <1>2
<1>4. \A a, b \in 1 .. Len(Tail(q)) : a < b => a + 1 < b + 1
  BY <1>1, <1>2
<1> QED
  BY <1>1, <1>2, <1>3, <1>4 DEF InOrder, In

(* The router reads m, which all that is left on its link follows.  When m *)
(* is a NewClient, the router has not read the end of that session; when m *)
(* is a ClientDisconnect, the NewClient is not still to come, except on    *)
(* the link of an earlier Control.                                         *)
LEMMA EndsArriveStep ==
  ASSUME SysInv, EndsArrive,
         NEW m \in In(toRouter) \cup In(stale), Exec(m), Passed' = Passed, lost' = lost,
         m \notin In(toRouter') \cup In(stale'),
         In(toRouter') \cup In(stale') \subseteq In(toRouter) \cup In(stale),
         In(toRouter) \cup In(stale) \subseteq In(toRouter') \cup In(stale') \cup {m},
         overtaken \subseteq overtaken',
         \A i \in Ids : m = Ended(i) /\ Began(i) \in In(toRouter') \cup In(stale')
                           => i \in overtaken'
  PROVE  EndsArrive'
<1>1. m \in In(sent)
  <2>1. m \in Passed
    BY DEF SysInv, QueueInv
  <2>2. \A k \in 1 .. done : k \in 1 .. Len(sent)
    BY DEF SysInv, QueueInv, LoginSide, IInv, TypeOK
  <2> QED
    BY <2>1, <2>2 DEF Passed, In
<1>2. PICK j \in Ids : m = Began(j) \/ m = Ended(j)
  BY <1>1, SentSessions DEF SysInv
<1>3. ~Spent(m) /\ live \subseteq mUsers
  BY DEF Spent, SysInv, RouterInv
<1> SUFFICES ASSUME NEW i \in Ids, Spent(Ended(i))', Ended(i) \notin lost,
                    i \notin overtaken'
             PROVE  i \notin live' /\ Began(i) \notin In(toRouter') \cup In(stale')
  BY DEF EndsArrive
<1>4. i \notin overtaken /\ Ended(i) \in Passed
  BY DEF Spent
<1>5. Ended(i) # m => Spent(Ended(i))
  BY <1>4 DEF Spent
<1>6. CASE m = Began(j)
  <2>1. Ended(i) # m
    BY <1>6, MessagesDiffer
  <2>2. i \notin live /\ Began(i) \notin In(toRouter) \cup In(stale)
    BY <1>4, <1>5, <2>1 DEF EndsArrive
  <2>3. i # j
    BY <1>6, <2>2
  <2>4. j \notin mUsers
    BY <1>3, <1>6 DEF SysInv, RouterInv
  <2>5. live' = live \cup {j}
    BY <1>6, <2>4, ExecBegan
  <2> QED
    BY <2>2, <2>3, <2>5
<1>7. CASE m = Ended(j)
  <2>1. j \notin mUsers \ live
    BY <1>3, <1>7 DEF SysInv, RouterInv
  <2>2. live' = live \ {j}
    BY <1>3, <1>7, <2>1, ExecEnded
  <2>3. CASE i = j
    BY <1>7, <2>2, <2>3
  <2>4. CASE i # j
    <3>1. Ended(i) # m
      BY <1>7, <2>4, MessagesDiffer
    <3>2. i \notin live /\ Began(i) \notin In(toRouter) \cup In(stale)
      BY <1>4, <1>5, <3>1 DEF EndsArrive
    <3> QED
      BY <2>2, <3>2
  <2> QED
    BY <2>3, <2>4
<1> QED
  BY <1>2, <1>6, <1>7

(* An end that is read is not followed by its beginning.                   *)
LEMMA NotAfterEnd == \A i \in Ids : ~Follows(Ended(i), Began(i))
BY DEF Follows, Ended, Began

LEMMA GhostReadStep ==
  ASSUME ~WrongPasswords, SysInv, GhostInv, RouterReads PROVE GhostInv'
<1> DEFINE m == Head(toRouter)
<1>1. /\ UNCHANGED <<stale, done, lost>>
      /\ UNCHANGED <<control, sent, status, idToUser, pc, call>>
      /\ toRouter # <<>> /\ toRouter' = Tail(toRouter) /\ Exec(m)
  BY DEF RouterReads, vars, link, tables
<1>2. /\ m \in In(toRouter) /\ m \notin In(toRouter')
      /\ In(toRouter') \subseteq In(toRouter)
      /\ In(toRouter) \subseteq In(toRouter') \cup {m}
  BY <1>1, ReadQueue DEF SysInv, QueueInv
<1>3. InOrder(toRouter') /\ \A y \in In(toRouter') : Follows(m, y)
  BY <1>1, InOrderTail DEF SysInv, QueueInv, GhostInv, OrdersKept
<1>4. m \notin In(stale') /\ Passed' = Passed
  BY <1>1, <1>2 DEF SysInv, QueueInv, Passed
<1>5. OrdersKept'
  BY <1>1, <1>2, <1>3 DEF GhostInv, OrdersKept
<1>6. overtaken \subseteq overtaken'
  BY HistoriesGrow DEF SystemNext
<1>7. ASSUME NEW i \in Ids, m = Ended(i), Began(i) \in In(toRouter') \cup In(stale')
      PROVE  i \in overtaken'
  <2>1. Began(i) \in In(stale)
    BY <1>1, <1>3, <1>7, NotAfterEnd
  <2>2. PICK k \in 1 .. Len(stale) : stale[k] = Began(i)
    BY <2>1 DEF In
  <2>3. k \in DOMAIN stale
    BY DEF SysInv, QueueInv
  <2>4. m.kind = "ClientDisconnect" /\ m.body[1] = i /\ stale[k].body = m.body
    BY <1>7, <2>2 DEF Ended, Began
  <2> QED
    BY <2>3, <2>4 DEF RouterReads
<1> HIDE DEF m
<1>8. EndsArrive'
  BY <1>1, <1>2, <1>4, <1>6, <1>7, EndsArriveStep DEF GhostInv
<1> QED
  BY <1>1, <1>5, <1>8, NothingIsSent DEF GhostInv, SystemNext

LEMMA GhostStaleStep ==
  ASSUME ~WrongPasswords, SysInv, GhostInv, RouterReadsStale PROVE GhostInv'
<1> DEFINE m == Head(stale)
<1>1. /\ UNCHANGED <<toRouter, done, lost, overtaken>>
      /\ UNCHANGED <<control, sent, status, idToUser, pc, call>>
      /\ stale # <<>> /\ stale' = Tail(stale) /\ Exec(m)
  BY DEF RouterReadsStale, vars, link, tables, history
<1>2. /\ m \in In(stale) /\ m \notin In(stale')
      /\ In(stale') \subseteq In(stale)
      /\ In(stale) \subseteq In(stale') \cup {m}
  BY <1>1, ReadQueue DEF SysInv, QueueInv
<1>3. InOrder(stale') /\ \A y \in In(stale') : Follows(m, y)
  BY <1>1, InOrderTail DEF SysInv, QueueInv, GhostInv, OrdersKept
<1>4. m \notin In(toRouter') /\ Passed' = Passed
  BY <1>1, <1>2 DEF SysInv, QueueInv, Passed
<1>5. OrdersKept'
  BY <1>1, <1>2, <1>3 DEF GhostInv, OrdersKept
<1>6. \A y \in In(toRouter') : Follows(m, y)
  BY <1>1, <1>2 DEF GhostInv, OrdersKept
<1> HIDE DEF m
<1>7. \A i \in Ids : m = Ended(i) => Began(i) \notin In(toRouter') \cup In(stale')
  BY <1>3, <1>6, NotAfterEnd
<1>8. EndsArrive'
  BY <1>1, <1>2, <1>4, <1>7, EndsArriveStep DEF GhostInv
<1> QED
  BY <1>1, <1>5, <1>8, NothingIsSent DEF GhostInv, SystemNext

LEMMA GhostStep ==
  ASSUME ~WrongPasswords, SysInv, GhostInv, [SystemNext]_systemVars PROVE GhostInv'
BY GhostLoginStep, GhostArriveStep, GhostForwardStep, GhostBreakStep, GhostGoesStep,
   GhostReadStep, GhostStaleStep DEF SystemNext

(* With no message under way, a user whom the router still has without a   *)
(* session is one whose connection was lost, of which callOnClose tells    *)
(* Control nothing (ClientClosedConnection.cpp:12), or one whose end was   *)
(* lost with a link or a Control, or was read before its beginning.        *)
THEOREM GhostsAlwaysExplained ==
  ASSUME ~WrongPasswords PROVE SystemSpec => []GhostsAreExplained
<1>1. SystemInit => GhostInv
  <2> SUFFICES ASSUME SystemInit PROVE GhostInv
    OBVIOUS
  <2>1. done = 0 /\ toRouter = <<>> /\ stale = <<>> /\ sent = <<>> /\ live = {}
    BY DEF SystemInit, Init
  <2>2. OrdersKept /\ LinkInv /\ EndsAreSent
    BY <2>1 DEF OrdersKept, InOrder, LinkInv, EndsAreSent, In
  <2>3. EndsArrive
    BY <2>1 DEF EndsArrive, Spent, Passed
  <2> QED
    BY <2>2, <2>3 DEF GhostInv
<1>2. SysInv /\ GhostInv /\ [SystemNext]_systemVars => GhostInv'
  BY GhostStep
<1>3. SysInv /\ GhostInv => GhostsAreExplained
  <2> SUFFICES ASSUME SysInv, GhostInv, mutex = NoConn, status = "running",
                      done = Len(sent), toRouter = <<>>, stale = <<>>, NEW i \in live
               PROVE  \/ idToUser[i] # NoUser \/ i \in vanished
                      \/ Ended(i) \in lost \/ i \in overtaken
    BY DEF GhostsAreExplained, Ending, Ended
  <2>1. Passed = In(sent) /\ In(toRouter) = {} /\ In(stale) = {}
    BY DEF Passed, In
  <2>2. i \in Ids /\ Began(i) \in In(sent)
    BY <2>1 DEF SysInv, RouterInv, Spent
  <2>3. Ended(i) \in In(sent) => Ended(i) \in lost \/ i \in overtaken
    BY <2>1, <2>2 DEF GhostInv, EndsArrive, Spent
  <2>4. \A c \in Conns : ~ToEnd(c, i)
    BY FreeMutexSendsNothing DEF SysInv, LoginSide, ToEnd
  <2> QED
    BY <2>2, <2>3, <2>4 DEF GhostInv, EndsAreSent
<1>4. SystemSpec => []SysInv
  BY SysInvAlways
<1> QED
  BY <1>1, <1>2, <1>3, <1>4, PTL DEF SystemSpec
=============================================================================
