------------------------- MODULE LoginServer_proofs -------------------------
(***************************************************************************)
(* Proofs about LoginServer, for any finite set of users, any connections  *)
(* and any bound: the type invariant, the agreement of the session tables, *)
(* the absence of undefined table accesses, that answers are true, that    *)
(* the tables implement the SessionRegistry, and the order of what Control *)
(* is told.                                                                *)
(***************************************************************************)
EXTENDS LoginServer, FiniteSetTheorems, TLAPS

USE UsersAssumption, NoUserAssumption, NoConnAssumption, BoundsAssumption,
    BooleanAssumption

(* The empty tables satisfy every conjunct of the invariant.               *)
LEMMA InitIInv == Init => IInv
<1> SUFFICES ASSUME Init PROVE IInv
  OBVIOUS
<1> USE DEF Init, Ids, NoId, None, Pairs, NoCall, Call, Calls, Messages, Places, ControlStates
<1>1. TypeOK
  <2>1. nextFreeToken \in 0 .. MaxToken /\ sent \in Seq(Messages)
    BY BoundsAssumption
  <2>2. call \in [Conns -> Calls]
    OBVIOUS
  <2> QED
    BY <2>1, <2>2 DEF TypeOK
<1>2. SessionTablesAgree
  <2>1. {u \in Users : HasSession(u)} = {}
    BY DEF HasSession
  <2>2. CountAgrees
    BY <2>1, FS_EmptySet DEF CountAgrees
  <2>3. UsersAgree /\ ConnsAgree /\ IdsAgree
    BY DEF UsersAgree, ConnsAgree, IdsAgree, HasSession, Entering
  <2> QED
    BY <2>2, <2>3 DEF SessionTablesAgree
<1>3. MutexInv /\ FreshInv /\ LoginInv /\ CallInv /\ EntryInv /\ NoUndefinedErase
  BY DEF MutexInv, FreshInv, LoginInv, CallInv, EntryInv, NoUndefinedErase
<1> QED
  BY <1>1, <1>2, <1>3 DEF IInv

-----------------------------------------------------------------------------
(* The type invariant, one step per action. *)

(* What a handler keeps of a session, or of none, is a pair of ids.        *)
LEMMA PairsType ==
  /\ \A a, b \in Ids \cup {NoId} : <<a, b>> \in Pairs
  /\ \A p \in Pairs : p[1] \in Ids \cup {NoId} /\ p[2] \in Ids \cup {NoId}
  /\ None \in Pairs
BY DEF Pairs, None

(* The fields of the locals of a handler (call) and their types.           *)
LEMMA CallsType ==
  /\ NoCall \in Calls
  /\ \A k \in Calls : /\ k.op \in {"none", "login", "logout"}
                      /\ k.user \in Users \cup {NoUser}
                      /\ k.new \in Pairs /\ k.old \in Pairs
                      /\ k.code \in 0 .. 2
<1>1. NoCall \in Calls
  <2>1. 0 \in 0 .. 2
    OBVIOUS
  <2> QED
    BY PairsType, <2>1 DEF Calls, NoCall, Call
<1> QED
  BY <1>1 DEF Calls

(* A call record made of well-typed parts is in Calls.                     *)
LEMMA CallType ==
  ASSUME NEW op \in {"none", "login", "logout"}, NEW user \in Users \cup {NoUser},
         NEW new \in Pairs, NEW old \in Pairs, NEW code \in 0 .. 2
  PROVE  Call(op, user, new, old, code) \in Calls
BY DEF Calls, Call

(* Every step keeps the types of all variables.                            *)
LEMMA TypeStep ==
  ASSUME IInv, Next, usersConnected' \in Nat PROVE TypeOK'
<1> USE DEF TypeOK, Goto, Lock, Fail, tables, counts, link
<1>0. TypeOK /\ LoginInv /\ CallInv
  BY DEF IInv
<1>a. pc' \in [Conns -> Places]
  <2> USE DEF Places
  <2>1. ASSUME NEW c \in Conns, NEW p \in Places, Goto(c, p) PROVE pc' \in [Conns -> Places]
    BY <1>0, <2>1
  <2>2. ASSUME NEW c \in Conns, Handler(c) PROVE pc' \in [Conns -> Places]
    BY <1>0, <2>2 DEF Handler, LoginAccepted, LoginRefused, Logout, Withdraw,
       InsertSession, Announce, SendToControl, Answer, AnswerFails, CallOnClose
  <2>3. ASSUME NEW c \in Conns, Arrival(c) PROVE pc' \in [Conns -> Places]
    BY <1>0, <2>3 DEF Arrival, RequestLogin, RequestLogout, CloseConnection
  <2>4. ASSUME ControlLink PROVE pc' \in [Conns -> Places]
    BY <1>0, <2>4 DEF ControlLink, ControlConnection, ControlBreaks, ControlCloses
  <2> QED
    BY <2>2, <2>3, <2>4 DEF Next
<1>b. /\ mutex' \in Conns \cup {NoConn}
      /\ status' \in {"running", "crashed", "undefined"}
      /\ control' \in ControlStates
  <2> USE DEF ControlStates
  <2>2. ASSUME NEW c \in Conns, Handler(c)
        PROVE  /\ mutex' \in Conns \cup {NoConn}
               /\ status' \in {"running", "crashed", "undefined"}
               /\ control' \in ControlStates
    BY <1>0, <2>2 DEF Handler, LoginAccepted, LoginRefused, Logout, Withdraw,
       InsertSession, Announce, SendToControl, Answer, AnswerFails, CallOnClose
  <2>3. ASSUME NEW c \in Conns, Arrival(c)
        PROVE  mutex' = mutex /\ status' = status /\ control' = control
    BY <2>3 DEF Arrival, RequestLogin, RequestLogout, CloseConnection
  <2>4. ASSUME ControlLink
        PROVE  mutex' = mutex /\ status' = status /\ control' \in ControlStates
    BY <2>4 DEF ControlLink, ControlConnection, ControlBreaks, ControlCloses
  <2> QED
    BY <1>0, <2>2, <2>3, <2>4 DEF Next
<1>c. sent' \in Seq(Messages)
  <2>1. ASSUME NEW c \in Conns, NEW next, NEW kind \in {"NewClient", "ClientDisconnect"},
               NEW body \in Pairs, SendToControl(c, kind, body, next)
        PROVE  sent' \in Seq(Messages)
    <3>1. [kind |-> kind, body |-> body] \in Messages
      BY DEF Messages
    <3>2. sent' = sent \/ sent' = Append(sent, [kind |-> kind, body |-> body])
      BY <2>1 DEF SendToControl, link
    <3>3. sent \in Seq(Messages)
      BY <1>0
    <3> QED
      BY <3>1, <3>2, <3>3
  <2>2. ASSUME NEW c \in Conns, Handler(c) PROVE sent' \in Seq(Messages)
    <3>1. call[c].new \in Pairs /\ call[c].old \in Pairs
      BY <1>0, CallsType
    <3>2. CASE Withdraw(c)
      BY <3>1, <3>2, <2>1 DEF Withdraw
    <3>3. CASE Announce(c)
      BY <3>1, <3>3, <2>1 DEF Announce
    <3> QED
      BY <1>0, <2>2, <3>2, <3>3 DEF Handler, LoginAccepted, LoginRefused, Logout,
         InsertSession, Answer, AnswerFails, CallOnClose
  <2> QED
    BY <1>0, <2>2 DEF Next, Arrival, RequestLogin, RequestLogout, CloseConnection,
       ControlLink, ControlConnection, ControlBreaks, ControlCloses
<1>d. call' \in [Conns -> Calls]
  <2>1. ASSUME NEW c \in Conns, LoginAccepted(c) PROVE call' \in [Conns -> Calls]
    <3> DEFINE id == nextFreeToken
               old == userToId[call[c].user]
    <3>0. call[c].user \in Users /\ nextFreeToken \in Ids
      BY <1>0, <2>1 DEF LoginAccepted, LoginInv, Ids
    <3>1. <<id, id>> \in Pairs /\ call[c] \in Calls
      BY <1>0, <3>0, PairsType
    <3>2. old # NoId => <<old, userToken[old]>> \in Pairs
      BY <1>0, <3>0, PairsType
    <3>3. Call("login", call[c].user, <<id, id>>, None, 0) \in Calls
      BY <3>0, <3>1, PairsType, CallType
    <3>4. old # NoId =>
            Call("login", call[c].user, <<id, id>>, <<old, userToken[old]>>, 0) \in Calls
      BY <3>0, <3>1, <3>2, CallType
    <3>5. \/ call' = call
          \/ call' = [call EXCEPT ![c] = Call("login", call[c].user, <<id, id>>, None, 0)]
          \/ /\ old # NoId
             /\ call' = [call EXCEPT ![c] = Call("login", call[c].user, <<id, id>>,
                                                 <<old, userToken[old]>>, 0)]
      BY <2>1 DEF LoginAccepted, HasSession
    <3> QED
      BY <1>0, <3>3, <3>4, <3>5
  <2>2. ASSUME NEW c \in Conns, LoginRefused(c) PROVE call' \in [Conns -> Calls]
    <3>1. PICK garbage \in Pairs :
            call' = [call EXCEPT ![c] = Call("login", call[c].user, garbage, None, 1)]
      BY <2>2 DEF LoginRefused
    <3>2. call[c] \in Calls /\ 1 \in 0 .. 2 /\ "login" \in {"none", "login", "logout"}
      BY <1>0
    <3>3. call[c].user \in Users \cup {NoUser}
      BY <3>2, CallsType
    <3>4. Call("login", call[c].user, garbage, None, 1) \in Calls
      BY <3>2, <3>3, CallType, PairsType
    <3> QED
      BY <1>0, <2>2, <3>1, <3>4 DEF LoginRefused
  <2>3. ASSUME NEW c \in Conns, Logout(c) PROVE call' \in [Conns -> Calls]
    <3>1. \A n \in 0 .. 2 : Call("logout", NoUser, None, None, n) \in Calls
      BY CallType, PairsType
    <3>2. \/ call' = call
          \/ \E n \in 0 .. 2 :
                call' = [call EXCEPT ![c] = Call("logout", NoUser, None, None, n)]
      BY <2>3 DEF Logout
    <3> QED
      BY <1>0, <3>1, <3>2
  <2>4. ASSUME NEW c \in Conns, Answer(c) PROVE call' \in [Conns -> Calls]
    BY <1>0, <2>4, CallsType DEF Answer
  <2>5. ASSUME NEW c \in Conns, Arrival(c)
        PROVE  call' \in [Conns -> Calls]
    <3>1. CASE \E u \in Users : RequestLogin(c, u)
      <4>1. \A u \in Users : Call("login", u, None, None, 0) \in Calls
        BY CallType, PairsType
      <4> QED
        BY <1>0, <3>1, <4>1 DEF RequestLogin
    <3>2. CASE RequestLogout(c)
      <4>1. PICK id \in Ids : \E token \in {id, NoId} :
              call' = [call EXCEPT ![c] = Call("logout", NoUser, None, <<id, token>>, 0)]
        BY <3>2 DEF RequestLogout
      <4>2. \A token \in {id, NoId} : <<id, token>> \in Pairs
        BY PairsType
      <4>3. \A token \in {id, NoId} :
              Call("logout", NoUser, None, <<id, token>>, 0) \in Calls
        BY <4>2, CallType, PairsType
      <4> QED
        BY <1>0, <4>1, <4>3
    <3>3. CASE CloseConnection(c)
      BY <1>0, <3>3 DEF CloseConnection
    <3> QED
      BY <2>5, <3>1, <3>2, <3>3 DEF Arrival
  <2> QED
    BY <1>0, <2>1, <2>2, <2>3, <2>4, <2>5 DEF Next, Handler, Withdraw, InsertSession,
       Announce, SendToControl, AnswerFails, CallOnClose, ControlLink,
       ControlConnection, ControlBreaks, ControlCloses
<1>e. /\ userToken' \in [Ids -> Ids \cup {NoId}]
      /\ idToConn' \in [Ids -> Conns \cup {NoConn}]
      /\ connToId' \in [Conns -> Ids \cup {NoId}]
      /\ userToId' \in [Users -> Ids \cup {NoId}]
      /\ idToUser' \in [Ids -> Users \cup {NoUser}]
      /\ nextFreeToken' \in 0 .. MaxToken
  <2> USE DEF Ids, NoId, EraseSession
  <2>1. CASE \E c \in Conns : LoginAccepted(c)
    <3>1. PICK c \in Conns : LoginAccepted(c)
      BY <2>1
    <3>2. nextFreeToken \in Ids
      BY <1>0, <3>1 DEF LoginAccepted
    <3>3. nextFreeToken' = nextFreeToken
      BY <3>1 DEF LoginAccepted
    <3> DEFINE tokens == [userToken EXCEPT ![nextFreeToken] = nextFreeToken]
               u == call[c].user
               old == userToId[u]
    <3>4. tokens \in [Ids -> Ids \cup {NoId}]
      BY <1>0, <3>2
    <3>5. \/ /\ userToken' = tokens
             /\ UNCHANGED <<idToConn, connToId, userToId, idToUser>>
          \/ EraseSession(u, old, idToConn[old], tokens)
          \/ UNCHANGED tables
      BY <3>1 DEF LoginAccepted
    <3> HIDE DEF tokens, u, old
    <3>6. CASE /\ userToken' = tokens
               /\ UNCHANGED <<idToConn, connToId, userToId, idToUser>>
      BY <1>0, <3>3, <3>4, <3>6
    <3>7. CASE EraseSession(u, old, idToConn[old], tokens)
      BY <1>0, <3>3, <3>4, <3>7
    <3>8. CASE UNCHANGED tables
      BY <1>0, <3>3, <3>8
    <3> QED
      BY <3>5, <3>6, <3>7, <3>8
  <2>2. CASE \E c \in Conns : InsertSession(c)
    <3>1. PICK c \in Conns : InsertSession(c)
      BY <2>2
    <3>2. call[c].op = "login"
      BY <3>1, <1>0 DEF InsertSession, CallInv
    <3>3. call[c].new = <<nextFreeToken, nextFreeToken>> /\ nextFreeToken \in Ids
          /\ call[c].user \in Users
      BY <3>1, <3>2, <1>0 DEF InsertSession, LoginInv
    <3> QED
      BY <1>0, <3>1, <3>3 DEF InsertSession
  <2>3. CASE \E c \in Conns : Logout(c)
    BY <1>0, <2>3 DEF Logout
  <2>4. CASE \E c \in Conns : CallOnClose(c)
    BY <1>0, <2>4 DEF CallOnClose
  <2>5. CASE \/ \E c \in Conns : LoginRefused(c) \/ Withdraw(c) \/ Announce(c)
                  \/ Answer(c) \/ AnswerFails(c) \/ Arrival(c)
             \/ ControlLink
    BY <1>0, <2>5 DEF LoginRefused, Withdraw, Announce, Answer, AnswerFails, Arrival,
       RequestLogin, RequestLogout, CloseConnection, ControlLink, ControlConnection,
       ControlBreaks, ControlCloses
  <2> QED
    BY <2>1, <2>2, <2>3, <2>4, <2>5 DEF Next, Handler
<1>f. astray' \in BOOLEAN
  <2> USE DEF NoId
  <2>1. ASSUME NEW c \in Conns, Handler(c) PROVE astray' \in BOOLEAN
    BY <1>0, <2>1 DEF Handler, LoginAccepted, LoginRefused, Logout, Withdraw,
       InsertSession, Announce, Answer, AnswerFails, CallOnClose
  <2>2. ASSUME NEW c \in Conns, Arrival(c) PROVE astray' = astray
    BY <2>2 DEF Arrival, RequestLogin, RequestLogout, CloseConnection
  <2> QED
    BY <1>0, <2>1, <2>2 DEF Next, ControlLink, ControlConnection, ControlBreaks,
       ControlCloses
<1> QED
  BY <1>a, <1>b, <1>c, <1>d, <1>e, <1>f

-----------------------------------------------------------------------------
(* The other conjuncts of IInv, one lemma per action.  The tables change   *)
(* in four places only: three of them erase a session.                     *)

(* Following a user of the tables to his id leads back, and the session    *)
(* has a connection and its token.                                         *)
LEMMA SessionOf ==
  ASSUME IInv, NEW i \in Ids, idToUser[i] # NoUser
  PROVE  /\ idToUser[i] \in Users /\ userToId[idToUser[i]] = i
         /\ idToConn[i] \in Conns
         /\ userToken[i] = i
         /\ i < nextFreeToken
<1>1. idToUser[i] \in Users /\ idToConn[i] \in Conns
  BY DEF IInv, TypeOK, SessionTablesAgree, IdsAgree
<1>2. userToId[idToUser[i]] = i
  BY <1>1 DEF IInv, SessionTablesAgree, UsersAgree
<1>3. userToken[i] = i
  BY DEF IInv, SessionTablesAgree, IdsAgree, FreshInv
<1>4. i < nextFreeToken
  BY DEF IInv, TypeOK, FreshInv, Ids
<1> QED
  BY <1>1, <1>2, <1>3, <1>4

(* If no request went astray, its connection leads back too.               *)
LEMMA ConnOf ==
  ASSUME IInv, ~astray, NEW i \in Ids, idToConn[i] # NoConn
  PROVE  connToId[idToConn[i]] = i
BY DEF IInv, SessionTablesAgree, ConnsAgree

(* Erasing one session leaves the tables in agreement, if the connection   *)
(* it is erased with is its own; if not, all but connectionToIdMap.        *)
LEMMA EraseTables ==
  ASSUME IInv, NEW u \in Users, NEW i \in Ids, NEW c \in Conns,
         NEW tokens \in [Ids -> Ids \cup {NoId}],
         userToId[u] = i, EraseSession(u, i, c, tokens)
  PROVE  /\ UsersAgree' /\ CountAgrees'
         /\ ConnsAgree /\ connToId[c] = i => ConnsAgree'
         /\ \A j \in Ids :
              /\ idToUser'[j] = IF j = i THEN NoUser ELSE idToUser[j]
              /\ idToConn'[j] = IF j = i THEN NoConn ELSE idToConn[j]
              /\ userToken'[j] = IF j = i THEN NoId ELSE tokens[j]
         /\ \A d \in Conns : connToId'[d] = IF d = c THEN NoId ELSE connToId[d]
         /\ \A v \in Users : userToId'[v] = IF v = u THEN NoId ELSE userToId[v]
         /\ \A d \in Conns : connToId'[d] # NoId =>
              /\ connToId'[d] < nextFreeToken
              /\ idToConn'[connToId'[d]] \in {NoConn, d}
<1>0. TypeOK /\ UsersAgree /\ CountAgrees
  BY DEF IInv, SessionTablesAgree
<1>1. /\ \A j \in Ids :
           /\ idToUser'[j] = IF j = i THEN NoUser ELSE idToUser[j]
           /\ idToConn'[j] = IF j = i THEN NoConn ELSE idToConn[j]
           /\ userToken'[j] = IF j = i THEN NoId ELSE tokens[j]
      /\ \A d \in Conns : connToId'[d] = IF d = c THEN NoId ELSE connToId[d]
      /\ \A v \in Users : userToId'[v] = IF v = u THEN NoId ELSE userToId[v]
  BY <1>0 DEF EraseSession, TypeOK
<1>2. NoId \notin Ids
  BY DEF NoId, Ids
<1>3. idToUser[i] = u
  BY <1>0, <1>2 DEF UsersAgree, HasSession
<1>4. UsersAgree'
  <2>1. ASSUME NEW v \in Users, userToId'[v] # NoId PROVE idToUser'[userToId'[v]] = v
    <3>1. v # u /\ userToId'[v] = userToId[v] /\ userToId[v] \in Ids
      BY <1>0, <1>1, <2>1 DEF TypeOK
    <3>2. idToUser[userToId[v]] = v
      BY <1>0, <2>1, <3>1 DEF UsersAgree, HasSession
    <3> QED
      BY <1>1, <1>3, <3>1, <3>2
  <2>2. ASSUME NEW j \in Ids, idToUser'[j] # NoUser PROVE userToId'[idToUser'[j]] = j
    <3>1. j # i /\ idToUser'[j] = idToUser[j] /\ idToUser[j] \in Users
      BY <1>0, <1>1, <2>2 DEF TypeOK
    <3>2. userToId[idToUser[j]] = j
      BY <1>0, <2>2, <3>1 DEF UsersAgree
    <3> QED
      BY <1>1, <3>1, <3>2
  <2> QED
    BY <2>1, <2>2 DEF UsersAgree, HasSession
<1>5. ASSUME ConnsAgree, connToId[c] = i PROVE ConnsAgree'
  <2>0. idToConn[i] = c
    BY <1>2, <1>5 DEF ConnsAgree
  <2>1. ASSUME NEW d \in Conns, connToId'[d] # NoId PROVE idToConn'[connToId'[d]] = d
    <3>1. d # c /\ connToId'[d] = connToId[d] /\ connToId[d] \in Ids
      BY <1>0, <1>1, <2>1 DEF TypeOK
    <3>2. idToConn[connToId[d]] = d
      BY <1>5, <2>1, <3>1 DEF ConnsAgree
    <3> QED
      BY <1>1, <2>0, <3>1, <3>2
  <2>2. ASSUME NEW j \in Ids, idToConn'[j] # NoConn PROVE connToId'[idToConn'[j]] = j
    <3>1. j # i /\ idToConn'[j] = idToConn[j] /\ idToConn[j] \in Conns
      BY <1>0, <1>1, <2>2 DEF TypeOK
    <3>2. connToId[idToConn[j]] = j
      BY <1>5, <2>2, <3>1 DEF ConnsAgree
    <3> QED
      BY <1>1, <1>5, <3>1, <3>2
  <2> QED
    BY <2>1, <2>2 DEF ConnsAgree
<1>6. CountAgrees'
  <2> DEFINE Online == {v \in Users : userToId[v] # NoId}
             Online2 == {v \in Users : userToId'[v] # NoId}
  <2>1. u \in Online /\ Online2 = Online \ {u}
    BY <1>1, <1>2
  <2>2. IsFiniteSet(Online)
    BY UsersAssumption, FS_Subset
  <2>3. Cardinality(Online2) = Cardinality(Online) - 1
    BY <2>1, <2>2, FS_RemoveElement
  <2> QED
    BY <1>0, <2>3 DEF CountAgrees, HasSession, EraseSession
<1>7. ASSUME NEW d \in Conns, connToId'[d] # NoId
      PROVE  /\ connToId'[d] < nextFreeToken
             /\ idToConn'[connToId'[d]] \in {NoConn, d}
  <2>1. connToId'[d] = connToId[d] /\ connToId[d] \in Ids /\ connToId[d] # NoId
    BY <1>0, <1>1, <1>7 DEF TypeOK
  <2>2. connToId[d] < nextFreeToken /\ idToConn[connToId[d]] \in {NoConn, d}
    BY <2>1 DEF IInv, EntryInv
  <2> QED
    BY <1>1, <2>1, <2>2
<1> QED
  BY <1>1, <1>4, <1>5, <1>6, <1>7

(* Everything in IInv but the types. *)
CoreInv ==
    /\ SessionTablesAgree
    /\ MutexInv /\ FreshInv /\ LoginInv /\ CallInv /\ EntryInv
    /\ NoUndefinedErase

(* A step that leaves the tables, enters no login and closes no connection *)
(* leaves what is said of the tables.                                      *)
LEMMA TablesStay ==
  ASSUME IInv, UNCHANGED <<tables, counts>>, astray => astray',
         MutexInv', LoginInv', CallInv', NoUndefinedErase',
         \A d \in Conns : pc'[d] = "closed" => pc[d] = "closed",
         \A d \in Conns, i \in Ids : Entering(d, i)' <=> Entering(d, i)
  PROVE  CoreInv'
<1> USE DEF tables, counts, HasSession
<1>1. UsersAgree' /\ CountAgrees' /\ (~astray' => ConnsAgree')
  BY DEF IInv, SessionTablesAgree, UsersAgree, ConnsAgree, CountAgrees
<1>2. IdsAgree'
  BY DEF IInv, SessionTablesAgree, IdsAgree
<1>3. FreshInv' /\ EntryInv'
  BY DEF IInv, FreshInv, EntryInv
<1> QED
  BY <1>1, <1>2, <1>3 DEF CoreInv, SessionTablesAgree

(* A login request arrives; no table changes.                              *)
LEMMA RequestLoginStep ==
  ASSUME IInv, status = "running", NEW c \in Conns, NEW u \in Users, RequestLogin(c, u)
  PROVE  CoreInv'
<1> USE DEF RequestLogin, Goto, Call, IInv, TypeOK
<1>1. MutexInv' /\ CallInv' /\ NoUndefinedErase'
  BY DEF MutexInv, CallInv, NoUndefinedErase
<1>2. LoginInv'
  BY DEF LoginInv, tables, counts
<1>3. \A d \in Conns, i \in Ids : Entering(d, i)' <=> Entering(d, i)
  BY DEF Entering
<1> QED
  BY <1>1, <1>2, <1>3, TablesStay

(* A logout request arrives; no table changes.                             *)
LEMMA RequestLogoutStep ==
  ASSUME IInv, status = "running", NEW c \in Conns, RequestLogout(c)
  PROVE  CoreInv'
<1>0. PICK id \in Ids : \E token \in {id, NoId} :
        call' = [call EXCEPT ![c] = Call("logout", NoUser, None, <<id, token>>, 0)]
  BY DEF RequestLogout
<1>a. /\ pc[c] = "idle" /\ pc' = [pc EXCEPT ![c] = "lock"]
      /\ UNCHANGED <<tables, counts, mutex, status, astray>>
  BY DEF RequestLogout, Goto
<1>b. /\ pc'[c] = "lock" /\ call'[c].op = "logout" /\ call'[c].old[1] \in Ids
      /\ \A d \in Conns : d # c => pc'[d] = pc[d] /\ call'[d] = call[d]
  BY <1>0, <1>a DEF Call, IInv, TypeOK
<1>1. MutexInv' /\ CallInv' /\ NoUndefinedErase'
  BY <1>a, <1>b DEF MutexInv, CallInv, NoUndefinedErase, IInv
<1>2. LoginInv'
  BY <1>a, <1>b DEF LoginInv, tables, counts, IInv
<1>3. \A d \in Conns, i \in Ids : Entering(d, i)' <=> Entering(d, i)
  BY <1>a, <1>b DEF Entering
<1> QED
  BY <1>a, <1>b, <1>1, <1>2, <1>3, TablesStay

(* A read error takes an idle connection offline, or the write of an       *)
(* answer fails and does.                                                  *)
LEMMA CloseConnectionStep ==
  ASSUME IInv, status = "running", NEW c \in Conns, CloseConnection(c) \/ AnswerFails(c)
  PROVE  CoreInv'
<1> USE DEF CloseConnection, AnswerFails, Goto, IInv, TypeOK
<1>1. MutexInv' /\ CallInv' /\ NoUndefinedErase'
  BY DEF MutexInv, CallInv, NoUndefinedErase
<1>2. LoginInv'
  BY DEF LoginInv, tables, counts
<1>3. \A d \in Conns, i \in Ids : Entering(d, i)' <=> Entering(d, i)
  BY DEF Entering
<1> QED
  BY <1>1, <1>2, <1>3, TablesStay

(* The ClientDisconnect message changes no table.                          *)
LEMMA WithdrawStep ==
  ASSUME IInv, status = "running", NEW c \in Conns, Withdraw(c)
  PROVE  CoreInv'
<1>0. /\ pc[c] = "withdraw" /\ UNCHANGED <<tables, counts, mutex, call, astray>>
      /\ status' # "undefined"
      /\ \/ pc' = pc
         \/ pc' = [pc EXCEPT ![c] = IF call[c].op = "login" THEN "insert" ELSE "answer"]
  BY DEF Withdraw, SendToControl, Goto, link
<1> USE DEF IInv, TypeOK
<1>1. MutexInv' /\ NoUndefinedErase'
  BY <1>0 DEF MutexInv, NoUndefinedErase
<1>2. CallInv'
  BY <1>0 DEF CallInv
<1>3. LoginInv'
  BY <1>0 DEF LoginInv, tables, counts
<1>4. \A d \in Conns, i \in Ids : Entering(d, i)' <=> Entering(d, i)
  BY <1>0 DEF Entering
<1> QED
  BY <1>0, <1>1, <1>2, <1>3, <1>4, TablesStay

(* The NewClient message changes no table.                                 *)
LEMMA AnnounceStep ==
  ASSUME IInv, status = "running", NEW c \in Conns, Announce(c)
  PROVE  CoreInv'
<1>0. /\ pc[c] = "announce" /\ UNCHANGED <<tables, counts, mutex, call, astray>>
      /\ status' # "undefined"
      /\ pc' = pc \/ pc' = [pc EXCEPT ![c] = "answer"]
  BY DEF Announce, SendToControl, Goto, link
<1> USE DEF IInv, TypeOK
<1>1. MutexInv' /\ NoUndefinedErase'
  BY <1>0 DEF MutexInv, NoUndefinedErase
<1>2. CallInv'
  BY <1>0 DEF CallInv
<1>3. LoginInv'
  BY <1>0 DEF LoginInv, tables, counts
<1>4. \A d \in Conns, i \in Ids : Entering(d, i)' <=> Entering(d, i)
  BY <1>0 DEF Entering
<1> QED
  BY <1>0, <1>1, <1>2, <1>3, <1>4, TablesStay

(* The answer gives the mutex back.                                        *)
LEMMA AnswerStep ==
  ASSUME IInv, status = "running", NEW c \in Conns, Answer(c)
  PROVE  CoreInv'
<1> USE DEF Answer, Goto, NoCall, Call, IInv, TypeOK
<1>1. MutexInv' /\ CallInv' /\ NoUndefinedErase'
  BY DEF MutexInv, CallInv, NoUndefinedErase
<1>2. LoginInv'
  BY DEF LoginInv, tables, counts
<1>3. \A d \in Conns, i \in Ids : Entering(d, i)' <=> Entering(d, i)
  BY DEF Entering
<1> QED
  BY <1>1, <1>2, <1>3, TablesStay

(* A refused login takes the mutex and changes no table.                   *)
LEMMA LoginRefusedStep ==
  ASSUME IInv, status = "running", NEW c \in Conns, LoginRefused(c)
  PROVE  CoreInv'
<1>0. PICK garbage \in Pairs :
        call' = [call EXCEPT ![c] = Call("login", call[c].user, garbage, None, 1)]
  BY DEF LoginRefused
<1>1. /\ pc[c] = "lock" /\ call[c].op = "login" /\ mutex = NoConn /\ mutex' = c
      /\ pc' = [pc EXCEPT ![c] = "announce"]
      /\ UNCHANGED <<tables, counts, status, astray>>
  BY DEF LoginRefused, Lock, Goto
<1>2. /\ pc'[c] = "announce" /\ call'[c].op = "login" /\ call'[c].code = 1
      /\ \A d \in Conns : d # c => pc'[d] = pc[d] /\ call'[d] = call[d]
  BY <1>0, <1>1 DEF Call, IInv, TypeOK
<1>3. MutexInv' /\ CallInv' /\ NoUndefinedErase'
  BY <1>1, <1>2, NoConnAssumption DEF IInv, MutexInv, CallInv, NoUndefinedErase
<1>4. LoginInv'
  BY <1>1, <1>2 DEF IInv, LoginInv, tables, counts
<1>5. \A d \in Conns, i \in Ids : Entering(d, i)' <=> Entering(d, i)
  BY <1>1, <1>2 DEF Entering
<1> QED
  BY <1>1, <1>2, <1>3, <1>4, <1>5, TablesStay

(* A handler that fails does so with the tables and every thread as they   *)
(* were, and after a request went astray.                                  *)
LEMMA FailStep ==
  ASSUME IInv, mutex = NoConn, UNCHANGED <<tables, counts, pc, call>>, astray'
  PROVE  CoreInv'
<1>1. \A d \in Conns : pc[d] \notin {"withdraw", "insert", "announce", "answer"}
  BY NoConnAssumption DEF IInv, MutexInv
<1>2. MutexInv' /\ CallInv' /\ NoUndefinedErase' /\ LoginInv'
  BY <1>1 DEF IInv, MutexInv, CallInv, NoUndefinedErase, LoginInv
<1>3. \A d \in Conns, i \in Ids : Entering(d, i)' <=> Entering(d, i)
  BY DEF Entering
<1> QED
  BY <1>2, <1>3, TablesStay

(* A login stores its token and erases the session its user had.           *)
LEMMA LoginAcceptedStep ==
  ASSUME IInv, status = "running", NEW c \in Conns, LoginAccepted(c)
  PROVE  CoreInv'
<1> DEFINE u == call[c].user
           id == nextFreeToken
           old == userToId[u]
           tokens == [userToken EXCEPT ![id] = id]
           body == IF HasSession(u) THEN <<old, userToken[old]>> ELSE None
<1>1. /\ pc[c] = "lock" /\ call[c].op = "login" /\ mutex = NoConn /\ mutex' = c
      /\ id \in Ids /\ u \in Users /\ nextFreeToken' = nextFreeToken /\ astray' = astray
  BY DEF LoginAccepted, Lock, IInv, TypeOK, LoginInv, Ids
<1>2. \A d \in Conns : pc[d] \notin {"withdraw", "insert", "announce", "answer"}
  BY <1>1, NoConnAssumption DEF IInv, MutexInv
<1>3. idToUser[id] = NoUser /\ idToConn[id] = NoConn /\ userToken[id] = NoId
  BY <1>1, <1>2 DEF IInv, TypeOK, SessionTablesAgree, IdsAgree, FreshInv, Entering
<1>4. ASSUME HasSession(u)
      PROVE  /\ old \in Ids /\ old # id /\ idToUser[old] = u
             /\ idToConn[old] \in Conns
             /\ ~astray => connToId[idToConn[old]] = old /\ EntriesOf(old)
  <2>1. old \in Ids /\ idToUser[old] = u
    BY <1>1, <1>4 DEF IInv, TypeOK, SessionTablesAgree, UsersAgree, HasSession
  <2>2. idToUser[old] # NoUser
    BY <2>1, <1>1, NoUserAssumption
  <2>3. idToConn[old] \in Conns /\ userToken[old] = old
    BY <2>1, <2>2, SessionOf
  <2>4. ~astray => connToId[idToConn[old]] = old
    BY <2>1, <2>3, ConnOf, NoConnAssumption
  <2>5. NoId \notin Ids
    BY DEF NoId, Ids
  <2> QED
    BY <1>3, <1>1, <2>1, <2>2, <2>3, <2>4, <2>5, NoConnAssumption DEF EntriesOf
<1>5. CASE HasSession(u) /\ ~EntriesOf(old)
  <2>1. UNCHANGED <<tables, counts, pc, call>>
    BY <1>5 DEF LoginAccepted, counts
  <2> QED
    BY <1>1, <1>4, <1>5, <2>1, FailStep
<1>6. CASE ~HasSession(u) \/ EntriesOf(old)
  <2>1. /\ call' = [call EXCEPT ![c] = Call("login", u, <<id, id>>, body, 0)]
        /\ pc' = [pc EXCEPT ![c] = IF HasSession(u) THEN "withdraw" ELSE "insert"]
        /\ UNCHANGED status
    BY <1>6 DEF LoginAccepted, Goto
  <2>2. HasSession(u) => EraseSession(u, old, idToConn[old], tokens)
    BY <1>6 DEF LoginAccepted
  <2>3. ~HasSession(u) => /\ userToken' = tokens
                          /\ UNCHANGED <<idToConn, connToId, userToId, idToUser, usersConnected>>
    BY DEF LoginAccepted
  <2>4. tokens \in [Ids -> Ids \cup {NoId}]
    BY <1>1 DEF IInv, TypeOK
  <2>5. /\ UsersAgree' /\ CountAgrees' /\ (~astray' => ConnsAgree')
        /\ userToId'[u] = NoId
        /\ \A d \in Conns : connToId'[d] \in {NoId, connToId[d]}
        /\ \A d \in Conns : connToId'[d] # NoId =>
              connToId'[d] < nextFreeToken /\ idToConn'[connToId'[d]] \in {NoConn, d}
        /\ \A j \in Ids :
             /\ idToUser'[j] = IF HasSession(u) /\ j = old THEN NoUser ELSE idToUser[j]
             /\ idToConn'[j] = IF HasSession(u) /\ j = old THEN NoConn ELSE idToConn[j]
             /\ userToken'[j] = IF HasSession(u) /\ j = old THEN NoId
                                ELSE IF j = id THEN id ELSE userToken[j]
    <3>0. \A j \in Ids : tokens[j] = IF j = id THEN id ELSE userToken[j]
      BY <1>1 DEF IInv, TypeOK
    <3>1. CASE HasSession(u)
      <4>1. EraseSession(u, old, idToConn[old], tokens)
        BY <2>2, <3>1
      <4>2. /\ UsersAgree' /\ CountAgrees'
            /\ ConnsAgree /\ connToId[idToConn[old]] = old => ConnsAgree'
            /\ \A j \in Ids :
                 /\ idToUser'[j] = IF j = old THEN NoUser ELSE idToUser[j]
                 /\ idToConn'[j] = IF j = old THEN NoConn ELSE idToConn[j]
                 /\ userToken'[j] = IF j = old THEN NoId ELSE tokens[j]
            /\ \A d \in Conns :
                 connToId'[d] = IF d = idToConn[old] THEN NoId ELSE connToId[d]
            /\ \A v \in Users : userToId'[v] = IF v = u THEN NoId ELSE userToId[v]
            /\ \A d \in Conns : connToId'[d] # NoId =>
                 connToId'[d] < nextFreeToken /\ idToConn'[connToId'[d]] \in {NoConn, d}
        <5> HIDE DEF u, old, tokens
        <5>1. old = userToId[u]
          BY DEF old
        <5> QED
          BY <1>1, <1>4, <2>4, <3>1, <4>1, <5>1, EraseTables
      <4>3. ~astray' => ConnsAgree'
        BY <1>1, <1>4, <3>1, <4>2 DEF IInv, SessionTablesAgree
      <4> QED
        BY <1>1, <1>4, <3>0, <3>1, <4>2, <4>3
    <3>2. CASE ~HasSession(u)
      <4>1. UsersAgree' /\ CountAgrees' /\ (~astray' => ConnsAgree')
        BY <1>1, <2>3, <3>2 DEF IInv, SessionTablesAgree, UsersAgree, ConnsAgree,
           CountAgrees, HasSession
      <4>2. \A d \in Conns : connToId'[d] # NoId =>
              connToId'[d] < nextFreeToken /\ idToConn'[connToId'[d]] \in {NoConn, d}
        BY <2>3, <3>2 DEF IInv, EntryInv
      <4> QED
        BY <1>1, <2>3, <3>0, <3>2, <4>1, <4>2 DEF HasSession
    <3> QED
      BY <3>1, <3>2
  <2>6. \A d \in Conns, i \in Ids : Entering(d, i)' <=> d = c /\ i = id
    BY <1>1, <1>2, <2>1 DEF IInv, TypeOK, Entering, Call
  <2>7. IdsAgree'
    <3> SUFFICES ASSUME NEW j \in Ids
        PROVE  /\ idToUser'[j] # NoUser <=> idToConn'[j] # NoConn
               /\ userToken'[j] # NoId <=> idToUser'[j] # NoUser \/ j = id
      BY <1>1, <2>6 DEF IdsAgree
    <3>1. idToUser[j] # NoUser <=> idToConn[j] # NoConn
      BY DEF IInv, SessionTablesAgree, IdsAgree
    <3>2. userToken[j] # NoId <=> idToUser[j] # NoUser
      BY <1>2 DEF IInv, SessionTablesAgree, IdsAgree, Entering
    <3>3. id # NoId
      BY <1>1 DEF Ids, NoId
    <3> QED
      BY <1>4, <2>5, <3>1, <3>2, <3>3
  <2>8. MutexInv' /\ CallInv' /\ NoUndefinedErase'
    BY <1>1, <1>2, <2>1 DEF IInv, TypeOK, MutexInv, CallInv, NoUndefinedErase, Call
  <2>9. FreshInv'
    BY <1>1, <2>5 DEF IInv, FreshInv
  <2>10. /\ \A d \in Conns : d # c => call'[d] = call[d] /\ pc'[d] = pc[d]
         /\ call'[c] = Call("login", u, <<id, id>>, body, 0)
         /\ pc'[c] \in {"withdraw", "insert"}
    BY <2>1 DEF IInv, TypeOK
  <2>11. LoginInv'
    BY <1>1, <1>2, <2>5, <2>10 DEF IInv, LoginInv, Call, Ids
  <2>12. EntryInv'
    BY <1>1, <2>5, <2>10 DEF IInv, EntryInv
  <2> QED
    BY <2>5, <2>7, <2>8, <2>9, <2>11, <2>12 DEF CoreInv, SessionTablesAgree
<1> QED
  BY <1>5, <1>6

(* A logout erases the session it names, is refused, or fails.             *)
LEMMA LogoutStep ==
  ASSUME IInv, status = "running", NEW c \in Conns, Logout(c)
  PROVE  CoreInv'
<1> DEFINE id == call[c].old[1]
           u == idToUser[id]
<1>1. /\ pc[c] = "lock" /\ call[c].op = "logout" /\ mutex = NoConn /\ mutex' = c
      /\ id \in Ids /\ nextFreeToken' = nextFreeToken
  BY DEF Logout, Lock, IInv, CallInv
<1>2. \A d \in Conns : pc[d] \notin {"withdraw", "insert", "announce", "answer"}
  BY <1>1, NoConnAssumption DEF IInv, MutexInv
<1>3. userToken[id] # NoId => /\ u \in Users /\ userToId[u] = id /\ HasSession(u)
                              /\ u # NoUser /\ idToConn[id] # NoConn
                              /\ ~astray => connToId[idToConn[id]] = id
  <2>1. userToken[id] # NoId => u # NoUser
    BY <1>1, <1>2 DEF IInv, SessionTablesAgree, IdsAgree, Entering
  <2>2. userToken[id] # NoId => u \in Users /\ userToId[u] = id /\ idToConn[id] # NoConn
    BY <1>1, <2>1, SessionOf, NoConnAssumption
  <2>3. userToken[id] # NoId /\ ~astray => connToId[idToConn[id]] = id
    BY <1>1, <2>2, ConnOf
  <2> QED
    BY <1>1, <2>1, <2>2, <2>3 DEF HasSession, NoId, Ids
<1>4. NoId \notin Ids
  BY DEF NoId, Ids
<1>5. CASE EraseSession(u, id, c, userToken) /\ userToken[id] # NoId
           /\ astray' = (astray \/ idToConn[id] # c)
           /\ pc' = [pc EXCEPT ![c] = "withdraw"] /\ UNCHANGED <<call, status>>
  <2>1. userToken \in [Ids -> Ids \cup {NoId}]
    BY DEF IInv, TypeOK
  <2>2. /\ UsersAgree' /\ CountAgrees'
        /\ ConnsAgree /\ connToId[c] = id => ConnsAgree'
        /\ \A j \in Ids :
             /\ idToUser'[j] = IF j = id THEN NoUser ELSE idToUser[j]
             /\ idToConn'[j] = IF j = id THEN NoConn ELSE idToConn[j]
             /\ userToken'[j] = IF j = id THEN NoId ELSE userToken[j]
        /\ \A d \in Conns : connToId'[d] = IF d = c THEN NoId ELSE connToId[d]
        /\ \A d \in Conns : connToId'[d] # NoId =>
             connToId'[d] < nextFreeToken /\ idToConn'[connToId'[d]] \in {NoConn, d}
    <3> HIDE DEF id, u
    <3> QED
      BY <1>1, <1>3, <1>5, <2>1, EraseTables
  <2>3. ~astray' => ConnsAgree'
    BY <1>3, <1>5, <2>2 DEF IInv, SessionTablesAgree
  <2>4. \A d \in Conns, i \in Ids : ~Entering(d, i)' /\ ~Entering(d, i)
    BY <1>1, <1>2, <1>5 DEF IInv, TypeOK, Entering
  <2>5. IdsAgree'
    BY <2>2, <2>4 DEF IInv, SessionTablesAgree, IdsAgree
  <2>6. MutexInv' /\ CallInv' /\ NoUndefinedErase' /\ FreshInv'
    BY <1>1, <1>2, <1>5, <2>2 DEF IInv, TypeOK, MutexInv, CallInv, NoUndefinedErase, FreshInv
  <2>7. LoginInv'
    BY <1>1, <1>2, <1>5, <2>2 DEF IInv, TypeOK, LoginInv
  <2>8. EntryInv'
    BY <1>1, <1>5, <2>2 DEF IInv, TypeOK, EntryInv
  <2> QED
    BY <2>2, <2>3, <2>5, <2>6, <2>7, <2>8 DEF CoreInv, SessionTablesAgree
<1>6. ASSUME NEW code \in {1, 2},
             call' = [call EXCEPT ![c] = Call("logout", NoUser, None, None, code)],
             pc' = [pc EXCEPT ![c] = "answer"],
             UNCHANGED <<tables, usersConnected, status, astray>>
      PROVE  CoreInv'
  <2>1. UNCHANGED <<tables, counts>>
    BY <1>1, <1>6 DEF counts
  <2>2. /\ pc'[c] = "answer" /\ call'[c].op = "logout"
        /\ \A d \in Conns : d # c => pc'[d] = pc[d] /\ call'[d] = call[d]
    BY <1>6 DEF Call, IInv, TypeOK
  <2>3. \A d \in Conns, i \in Ids : Entering(d, i)' <=> Entering(d, i)
    BY <1>1, <2>2 DEF Entering
  <2>4. MutexInv' /\ CallInv' /\ NoUndefinedErase'
    BY <1>1, <1>2, <1>6, <2>2 DEF IInv, MutexInv, CallInv, NoUndefinedErase
  <2>5. LoginInv'
    BY <1>1, <1>2, <2>1, <2>2 DEF IInv, LoginInv, tables, counts
  <2> QED
    BY <1>6, <2>1, <2>2, <2>3, <2>4, <2>5, TablesStay
<1>7. CASE /\ userToken[id] # NoId
           /\ ~ /\ u # NoUser /\ HasSession(u) /\ idToConn[id] # NoConn /\ connToId[c] # NoId
           /\ astray' = (astray \/ idToConn[id] # c)
           /\ UNCHANGED <<tables, usersConnected, pc, call>>
  <2>1. astray'
    BY <1>1, <1>3, <1>4, <1>7
  <2>2. UNCHANGED <<tables, counts, pc, call>>
    BY <1>1, <1>7 DEF counts
  <2> QED
    BY <1>1, <2>1, <2>2, FailStep
<1> QED
  BY <1>5, <1>6, <1>7 DEF Logout, Goto

(* A closing connection erases the session it carries.                     *)
LEMMA CallOnCloseStep ==
  ASSUME IInv, status = "running", NEW c \in Conns, CallOnClose(c)
  PROVE  CoreInv'
<1> DEFINE id == connToId[c]
           u == idToUser[id]
           Whole == /\ u # NoUser /\ userToken[id] # NoId
                    /\ idToConn[id] # NoConn /\ HasSession(u)
<1>1. /\ pc[c] = "closing" /\ mutex = NoConn
      /\ UNCHANGED <<nextFreeToken, mutex, call, astray>>
  BY DEF CallOnClose
<1>2. \A d \in Conns : pc[d] \notin {"withdraw", "insert", "announce", "answer"}
  BY <1>1, NoConnAssumption DEF IInv, MutexInv
<1>3. NoId \notin Ids
  BY DEF NoId, Ids
<1>4. id # NoId => id \in Ids
  BY DEF IInv, TypeOK
<1>5. id # NoId /\ ~astray => Whole
  <2>1. id # NoId /\ ~astray => idToConn[id] = c
    BY DEF IInv, SessionTablesAgree, ConnsAgree
  <2>2. id # NoId /\ ~astray => u # NoUser
    BY <1>4, <2>1, NoConnAssumption DEF IInv, SessionTablesAgree, IdsAgree
  <2> QED
    BY <1>3, <1>4, <2>1, <2>2, SessionOf, NoConnAssumption DEF HasSession
<1>6. CASE id # NoId /\ ~Whole
  <2>1. UNCHANGED <<tables, counts, pc, call>>
    BY <1>1, <1>6 DEF CallOnClose, counts
  <2> QED
    BY <1>1, <1>5, <1>6, <2>1, FailStep
<1>7. CASE id = NoId \/ Whole
  <2>1. /\ pc' = [pc EXCEPT ![c] = "closed"]
        /\ UNCHANGED status
        /\ id = NoId => UNCHANGED <<tables, usersConnected>>
        /\ id # NoId => EraseSession(u, id, c, userToken)
    BY <1>7 DEF CallOnClose, Goto
  <2>2. /\ UsersAgree' /\ CountAgrees' /\ (~astray' => ConnsAgree')
        /\ \A j \in Ids :
             /\ idToUser'[j] = IF j = id THEN NoUser ELSE idToUser[j]
             /\ idToConn'[j] = IF j = id THEN NoConn ELSE idToConn[j]
             /\ userToken'[j] = IF j = id THEN NoId ELSE userToken[j]
        /\ \A d \in Conns : connToId'[d] = IF d = c THEN NoId ELSE connToId[d]
        /\ \A d \in Conns : connToId'[d] # NoId =>
             connToId'[d] < nextFreeToken /\ idToConn'[connToId'[d]] \in {NoConn, d}
    <3>1. CASE id = NoId
      <4>1. UNCHANGED <<tables, counts>>
        BY <1>1, <2>1, <3>1 DEF counts
      <4>2. UsersAgree' /\ CountAgrees' /\ (~astray' => ConnsAgree')
        BY <1>1, <4>1 DEF IInv, SessionTablesAgree, UsersAgree, ConnsAgree,
           CountAgrees, HasSession, tables, counts
      <4>3. \A d \in Conns : connToId'[d] # NoId =>
              connToId'[d] < nextFreeToken /\ idToConn'[connToId'[d]] \in {NoConn, d}
        BY <4>1 DEF IInv, EntryInv, tables
      <4> QED
        BY <1>3, <3>1, <4>1, <4>2, <4>3 DEF tables
    <3>2. CASE id # NoId
      <4>1. userToken \in [Ids -> Ids \cup {NoId}]
        BY DEF IInv, TypeOK
      <4>2. u \in Users /\ userToId[u] = id /\ EraseSession(u, id, c, userToken)
        BY <1>3, <1>4, <1>7, <2>1, <3>2, SessionOf
      <4>3. /\ UsersAgree' /\ CountAgrees'
            /\ ConnsAgree /\ connToId[c] = id => ConnsAgree'
            /\ \A j \in Ids :
                 /\ idToUser'[j] = IF j = id THEN NoUser ELSE idToUser[j]
                 /\ idToConn'[j] = IF j = id THEN NoConn ELSE idToConn[j]
                 /\ userToken'[j] = IF j = id THEN NoId ELSE userToken[j]
            /\ \A d \in Conns : connToId'[d] = IF d = c THEN NoId ELSE connToId[d]
            /\ \A d \in Conns : connToId'[d] # NoId =>
                 connToId'[d] < nextFreeToken /\ idToConn'[connToId'[d]] \in {NoConn, d}
        <5> HIDE DEF u, id
        <5> QED
          BY <1>4, <3>2, <4>1, <4>2, EraseTables
      <4> QED
        BY <1>1, <4>3 DEF IInv, SessionTablesAgree
    <3> QED
      BY <3>1, <3>2
  <2>3. \A d \in Conns, i \in Ids : ~Entering(d, i)' /\ ~Entering(d, i)
    BY <1>1, <1>2, <2>1 DEF IInv, TypeOK, Entering
  <2>4. IdsAgree'
    BY <2>2, <2>3 DEF IInv, SessionTablesAgree, IdsAgree
  <2>5. MutexInv' /\ CallInv' /\ NoUndefinedErase' /\ FreshInv'
    BY <1>1, <2>1, <2>2 DEF IInv, TypeOK, MutexInv, CallInv, NoUndefinedErase, FreshInv
  <2>6. LoginInv'
    BY <1>1, <1>2, <2>1, <2>2 DEF IInv, TypeOK, LoginInv
  <2>7. EntryInv'
    BY <1>1, <2>1, <2>2 DEF IInv, TypeOK, EntryInv
  <2> QED
    BY <2>2, <2>4, <2>5, <2>6, <2>7 DEF CoreInv, SessionTablesAgree
<1> QED
  BY <1>6, <1>7

(* A login enters its session under the id of its token.                   *)
LEMMA InsertSessionStep ==
  ASSUME IInv, status = "running", NEW c \in Conns, InsertSession(c)
  PROVE  CoreInv'
<1> DEFINE u == call[c].user
           id == nextFreeToken
<1>1. /\ pc[c] = "insert" /\ call[c].op = "login" /\ mutex = c
      /\ u \in Users /\ id \in Ids /\ call[c].new = <<id, id>> /\ call[c].code = 0
      /\ userToId[u] = NoId
      /\ UNCHANGED <<userToken, mutex, status, call>>
      /\ astray' = (astray \/ connToId[c] # NoId)
  BY DEF InsertSession, IInv, MutexInv, CallInv, LoginInv, link
<1>2. idToUser[id] = NoUser /\ idToConn[id] = NoConn /\ id # NoId
  BY <1>1 DEF IInv, SessionTablesAgree, IdsAgree, FreshInv, NoId, Ids
<1>3. /\ connToId' = IF connToId[c] = NoId THEN [connToId EXCEPT ![c] = id] ELSE connToId
      /\ idToConn' = [idToConn EXCEPT ![id] = c]
      /\ userToId' = [userToId EXCEPT ![u] = id]
      /\ idToUser' = [idToUser EXCEPT ![id] = u]
      /\ nextFreeToken' = id + 1
      /\ usersConnected' = usersConnected + 1
      /\ pc' = [pc EXCEPT ![c] = "announce"]
  BY <1>1, <1>2 DEF InsertSession, Goto
<1>4. /\ \A j \in Ids : idToUser'[j] = IF j = id THEN u ELSE idToUser[j]
      /\ \A j \in Ids : idToConn'[j] = IF j = id THEN c ELSE idToConn[j]
      /\ \A d \in Conns : connToId'[d] = IF d = c /\ connToId[c] = NoId THEN id
                                         ELSE connToId[d]
      /\ \A v \in Users : userToId'[v] = IF v = u THEN id ELSE userToId[v]
      /\ \A d \in Conns : pc'[d] = IF d = c THEN "announce" ELSE pc[d]
  <2>0. /\ idToUser \in [Ids -> Users \cup {NoUser}] /\ userToId \in [Users -> Ids \cup {NoId}]
        /\ idToConn \in [Ids -> Conns \cup {NoConn}] /\ connToId \in [Conns -> Ids \cup {NoId}]
        /\ pc \in [Conns -> Places]
    BY DEF IInv, TypeOK
  <2>1. \A j \in Ids : idToUser'[j] = IF j = id THEN u ELSE idToUser[j]
    BY <1>3, <2>0
  <2>2. \A j \in Ids : idToConn'[j] = IF j = id THEN c ELSE idToConn[j]
    BY <1>3, <2>0
  <2>3. \A d \in Conns : connToId'[d] = IF d = c /\ connToId[c] = NoId THEN id ELSE connToId[d]
    BY <1>3, <2>0
  <2>4. \A v \in Users : userToId'[v] = IF v = u THEN id ELSE userToId[v]
    BY <1>3, <2>0
  <2>5. \A d \in Conns : pc'[d] = IF d = c THEN "announce" ELSE pc[d]
    BY <1>3, <2>0
  <2> QED
    BY <2>1, <2>2, <2>3, <2>4, <2>5
<1>5. UsersAgree'
  <2> USE DEF IInv, TypeOK, SessionTablesAgree, UsersAgree, HasSession
  <2>1. ASSUME NEW v \in Users, userToId'[v] # NoId PROVE idToUser'[userToId'[v]] = v
    <3>1. CASE v = u
      BY <1>1, <1>4, <3>1
    <3>2. CASE v # u
      <4>1. userToId'[v] = userToId[v] /\ userToId[v] \in Ids
        BY <1>4, <2>1, <3>2
      <4>2. idToUser[userToId[v]] = v
        BY <2>1, <4>1
      <4>3. userToId[v] # id
        BY <1>2, <4>2, NoUserAssumption
      <4> QED
        BY <1>4, <4>1, <4>2, <4>3
    <3> QED
      BY <3>1, <3>2
  <2>2. ASSUME NEW j \in Ids, idToUser'[j] # NoUser PROVE userToId'[idToUser'[j]] = j
    <3>1. CASE j = id
      BY <1>1, <1>4, <3>1
    <3>2. CASE j # id
      <4>1. idToUser'[j] = idToUser[j] /\ idToUser[j] \in Users
        BY <1>4, <2>2, <3>2
      <4>2. userToId[idToUser[j]] = j
        BY <2>2, <4>1
      <4>3. idToUser[j] # u
        BY <1>1, <4>2 DEF NoId, Ids
      <4> QED
        BY <1>4, <4>1, <4>2, <4>3
    <3> QED
      BY <3>1, <3>2
  <2> QED
    BY <2>1, <2>2
<1>6. ASSUME ~astray' PROVE ConnsAgree'
  <2>0. connToId[c] = NoId /\ ConnsAgree
    BY <1>1, <1>6 DEF IInv, SessionTablesAgree
  <2> USE DEF IInv, TypeOK, ConnsAgree
  <2>1. ASSUME NEW d \in Conns, connToId'[d] # NoId PROVE idToConn'[connToId'[d]] = d
    <3>1. CASE d = c
      BY <1>1, <1>4, <2>0, <3>1
    <3>2. CASE d # c
      <4>1. connToId'[d] = connToId[d] /\ connToId[d] \in Ids
        BY <1>4, <2>1, <3>2
      <4>2. idToConn[connToId[d]] = d
        BY <2>0, <2>1, <4>1
      <4>3. connToId[d] # id
        BY <1>2, <4>2, NoConnAssumption
      <4> QED
        BY <1>4, <4>1, <4>2, <4>3
    <3> QED
      BY <3>1, <3>2
  <2>2. ASSUME NEW j \in Ids, idToConn'[j] # NoConn PROVE connToId'[idToConn'[j]] = j
    <3>1. CASE j = id
      BY <1>1, <1>4, <2>0, <3>1
    <3>2. CASE j # id
      <4>1. idToConn'[j] = idToConn[j] /\ idToConn[j] \in Conns
        BY <1>4, <2>2, <3>2
      <4>2. connToId[idToConn[j]] = j
        BY <2>0, <2>2, <4>1
      <4>3. idToConn[j] # c
        BY <2>0, <4>2 DEF NoId, Ids
      <4> QED
        BY <1>4, <4>1, <4>2, <4>3
    <3> QED
      BY <3>1, <3>2
  <2> QED
    BY <2>1, <2>2
<1>7. CountAgrees'
  <2> DEFINE Online == {v \in Users : userToId[v] # NoId}
             Online2 == {v \in Users : userToId'[v] # NoId}
  <2>1. u \notin Online /\ Online2 = Online \cup {u}
    BY <1>1, <1>2, <1>4
  <2>2. IsFiniteSet(Online)
    BY UsersAssumption, FS_Subset
  <2>3. Cardinality(Online2) = Cardinality(Online) + 1
    BY <2>1, <2>2, FS_AddElement
  <2> QED
    BY <1>3, <2>3 DEF IInv, SessionTablesAgree, CountAgrees, HasSession
<1>8. IdsAgree'
  <2>1. \A d \in Conns, i \in Ids : ~Entering(d, i)'
    BY <1>1, <1>4, NoConnAssumption DEF IInv, MutexInv, Entering
  <2>2. \A d \in Conns, i \in Ids : Entering(d, i) <=> d = c /\ i = id
    BY <1>1, NoConnAssumption DEF IInv, MutexInv, Entering
  <2> SUFFICES ASSUME NEW j \in Ids
      PROVE  /\ idToUser'[j] # NoUser <=> idToConn'[j] # NoConn
             /\ userToken[j] # NoId <=> idToUser'[j] # NoUser
    BY <1>1, <2>1 DEF IdsAgree
  <2>3. /\ idToUser[j] # NoUser <=> idToConn[j] # NoConn
        /\ userToken[j] # NoId <=> idToUser[j] # NoUser \/ j = id
    BY <2>2 DEF IInv, SessionTablesAgree, IdsAgree
  <2>4. u # NoUser /\ c # NoConn
    BY <1>1, NoUserAssumption, NoConnAssumption
  <2> QED
    BY <1>4, <2>3, <2>4
<1>9. MutexInv' /\ CallInv' /\ NoUndefinedErase'
  BY <1>1, <1>4 DEF IInv, MutexInv, CallInv, NoUndefinedErase
<1>10. FreshInv'
  <2>1. \A j \in Ids : j >= nextFreeToken' => j >= nextFreeToken /\ j # id
    BY <1>1, <1>3 DEF Ids
  <2> QED
    BY <1>1, <1>4, <2>1 DEF IInv, FreshInv
<1>11. LoginInv'
  <2>1. \A d \in Conns : d # c => pc[d] \notin {"withdraw", "insert", "announce", "answer"}
    BY <1>1 DEF IInv, MutexInv
  <2> QED
    BY <1>1, <1>3, <1>4, <2>1 DEF IInv, TypeOK, LoginInv, Ids
<1>12. EntryInv'
  <2>1. ASSUME NEW d \in Conns, connToId'[d] # NoId
        PROVE  connToId'[d] < nextFreeToken' /\ idToConn'[connToId'[d]] \in {NoConn, d}
    <3>1. CASE d = c /\ connToId[c] = NoId
      BY <1>1, <1>3, <1>4, <3>1 DEF Ids
    <3>2. CASE ~(d = c /\ connToId[c] = NoId)
      <4>1. connToId'[d] = connToId[d]
        BY <1>4, <3>2
      <4>2. connToId[d] \in Ids /\ connToId[d] < id /\ idToConn[connToId[d]] \in {NoConn, d}
        BY <2>1, <4>1 DEF IInv, TypeOK, EntryInv
      <4>3. connToId[d] < id + 1 /\ connToId[d] # id
        BY <1>1, <4>2 DEF Ids
      <4> QED
        BY <1>3, <1>4, <4>1, <4>2, <4>3
    <3> QED
      BY <3>1, <3>2
  <2>2. \A d \in Conns : pc'[d] = "closed" => connToId'[d] = NoId
    BY <1>1, <1>4 DEF IInv, EntryInv
  <2> QED
    BY <2>1, <2>2 DEF EntryInv
<1> QED
  BY <1>5, <1>6, <1>7, <1>8, <1>9, <1>10, <1>11, <1>12
     DEF CoreInv, SessionTablesAgree

(* A step of the control link, or a stutter, disturbs nothing.             *)
LEMMA UnchangedStep ==
  ASSUME IInv, UNCHANGED <<tables, counts, mutex, status, pc, call, astray>>
  PROVE  CoreInv'
BY DEF IInv, CoreInv, SessionTablesAgree, UsersAgree, ConnsAgree, IdsAgree, CountAgrees,
   Entering, HasSession, MutexInv, FreshInv, LoginInv, CallInv, EntryInv,
   NoUndefinedErase, tables, counts

-----------------------------------------------------------------------------
(* IInv is inductive. *)
LEMMA Inductive == IInv /\ [Next]_vars => IInv'
<1> SUFFICES ASSUME IInv, [Next]_vars PROVE IInv'
  OBVIOUS
<1>1. CASE Next
  <2>1. CoreInv'
    <3>1. status = "running"
      BY <1>1 DEF Next
    <3>2. ASSUME ControlLink PROVE CoreInv'
      BY <3>2, UnchangedStep DEF ControlLink, ControlConnection, ControlBreaks, ControlCloses
    <3> QED
      BY <1>1, <3>1, <3>2, RequestLoginStep, RequestLogoutStep, CloseConnectionStep,
         WithdrawStep, AnnounceStep, AnswerStep, LoginRefusedStep,
         LoginAcceptedStep, LogoutStep, CallOnCloseStep, InsertSessionStep
         DEF Next, Handler, Arrival
  <2>2. usersConnected' \in Nat
    <3>1. IsFiniteSet({v \in Users : userToId'[v] # NoId})
      BY UsersAssumption, FS_Subset
    <3> QED
      BY <2>1, <3>1, FS_CardinalityType DEF CoreInv, SessionTablesAgree, CountAgrees, HasSession
  <2>3. TypeOK'
    BY <1>1, <2>2, TypeStep
  <2> QED
    BY <2>1, <2>3 DEF CoreInv, IInv
<1>2. CASE UNCHANGED vars
  <2>1. CoreInv'
    BY <1>2, UnchangedStep DEF vars
  <2>2. TypeOK'
    BY <1>2 DEF vars, tables, counts, link, IInv, TypeOK
  <2> QED
    BY <2>1, <2>2 DEF CoreInv, IInv
<1> QED
  BY <1>1, <1>2

(* IInv holds in every reachable state of the login server.                *)
LEMMA IInvAlways == Spec => []IInv
BY InitIInv, Inductive, PTL DEF Spec

(* Every variable of the login server keeps its type. *)
THEOREM TypeCorrect == Spec => []TypeOK
<1>1. IInv => TypeOK
  BY DEF IInv
<1> QED
  BY <1>1, IInvAlways, PTL

(* In every state four tables of Login hold the same sessions and          *)
(* usersConnected counts them, whatever any client asks: logouts of other  *)
(* connections' sessions and second logins on a connection included.  Such *)
(* requests are all that can make connectionToIdMap disagree.              *)
THEOREM TablesAlwaysAgree == Spec => []SessionTablesAgree
<1>1. IInv => SessionTablesAgree
  BY DEF IInv
<1> QED
  BY <1>1, IInvAlways, PTL

(* A handler erases or reads through the end() of a table only after a     *)
(* request went astray: LogoutRequest.cpp:25-27 and LoginRequest.cpp:62    *)
(* are the only ways in.                                                   *)
THEOREM NeverUndefined == Spec => []NoUndefinedErase
<1>1. IInv => NoUndefinedErase
  BY DEF IInv
<1> QED
  BY <1>1, IInvAlways, PTL

-----------------------------------------------------------------------------
(* What a client is told of its session is true while it is told. *)

(* An answer is owed to c for a login that was accepted. *)
Owed(c) == pc[c] \in {"announce", "answer"} /\ call[c].op = "login" /\ call[c].code = 0

LiveInv ==
    \A c \in Conns : Owed(c) =>
        /\ idToConn[call[c].new[1]] = c
        /\ idToUser[call[c].new[1]] = call[c].user
        /\ userToken[call[c].new[1]] = call[c].new[2]

(* A handler that takes loginMutex finds no answer owed, as the handler    *)
(* that owes one has the mutex.                                            *)
LEMMA FreeMutexOwesNothing ==
  ASSUME IInv, mutex = NoConn PROVE \A c \in Conns : ~Owed(c)
BY NoConnAssumption DEF IInv, MutexInv, Owed

LEMMA OnlyHolderOwes ==
  ASSUME IInv, NEW d \in Conns, mutex = d PROVE \A c \in Conns : Owed(c) => c = d
BY DEF IInv, MutexInv, Owed

(* Steps that leave the tables keep what was true of the answers owed, if  *)
(* they owe no new one.                                                    *)
LEMMA TablesStand ==
  ASSUME LiveInv, UNCHANGED tables,
         \A c \in Conns : Owed(c)' => Owed(c) /\ call'[c] = call[c]
  PROVE  LiveInv'
BY DEF LiveInv, tables

(* A login that enters its session owes a true answer. *)
LEMMA InsertIsLive ==
  ASSUME IInv, NEW d \in Conns, InsertSession(d)
  PROVE  LiveInv'
<1> DEFINE id == nextFreeToken
<1>1. /\ pc[d] = "insert" /\ call[d].op = "login" /\ mutex = d
      /\ call[d].user \in Users /\ id \in Ids /\ call[d].new = <<id, id>>
  BY DEF InsertSession, IInv, MutexInv, CallInv, LoginInv
<1>2. idToUser[id] = NoUser /\ idToConn[id] = NoConn
  BY <1>1 DEF IInv, SessionTablesAgree, IdsAgree, FreshInv, Ids
<1>3. userToken[id] = id
  BY <1>1 DEF IInv, SessionTablesAgree, IdsAgree, FreshInv, Entering
<1>4. /\ idToConn' = [idToConn EXCEPT ![id] = d]
      /\ idToUser' = [idToUser EXCEPT ![id] = call[d].user]
      /\ userToken' = userToken /\ call' = call
      /\ pc' = [pc EXCEPT ![d] = "announce"]
  BY <1>1, <1>2 DEF InsertSession, Goto
<1>5. idToConn'[id] = d /\ idToUser'[id] = call[d].user
  BY <1>1, <1>4 DEF IInv, TypeOK
<1>6. \A c \in Conns : Owed(c)' => c = d
  BY <1>1, <1>4, OnlyHolderOwes DEF Owed, IInv, TypeOK
<1> QED
  BY <1>1, <1>3, <1>4, <1>5, <1>6 DEF LiveInv

(* Every step keeps what was said of the answers owed. *)
LEMMA LiveStep == ASSUME IInv, LiveInv, Next PROVE LiveInv'
<1>1. ASSUME NEW d \in Conns, LoginAccepted(d) \/ LoginRefused(d) \/ Logout(d) \/ CallOnClose(d)
      PROVE  LiveInv'
  <2>1. \A c \in Conns : ~Owed(c)
    BY <1>1, FreeMutexOwesNothing DEF LoginAccepted, LoginRefused, Logout, CallOnClose, Lock
  <2>2. \A c \in Conns : c # d => pc'[c] = pc[c] /\ call'[c] = call[c]
    BY <1>1 DEF LoginAccepted, LoginRefused, Logout, CallOnClose, Goto, IInv, TypeOK
  <2>3. ~Owed(d)'
    <3>1. CASE LoginAccepted(d)
      BY <3>1 DEF LoginAccepted, Goto, Owed, IInv, TypeOK
    <3>2. CASE LoginRefused(d)
      BY <3>2 DEF LoginRefused, Goto, Owed, IInv, TypeOK, Call
    <3>3. CASE Logout(d)
      BY <3>3 DEF Logout, Goto, Owed, IInv, TypeOK, Call
    <3>4. CASE CallOnClose(d)
      BY <3>4 DEF CallOnClose, Goto, Owed, IInv, TypeOK
    <3> QED
      BY <1>1, <3>1, <3>2, <3>3, <3>4
  <2>4. \A c \in Conns : ~Owed(c)'
    BY <2>1, <2>2, <2>3 DEF Owed
  <2> QED
    BY <2>4 DEF LiveInv
<1>2. ASSUME NEW d \in Conns, InsertSession(d) PROVE LiveInv'
  BY <1>2, InsertIsLive
<1>3. ASSUME NEW d \in Conns, Withdraw(d) \/ Announce(d) \/ Answer(d) \/ AnswerFails(d)
      PROVE  LiveInv'
  <2>1. mutex = d /\ UNCHANGED tables
    BY <1>3 DEF Withdraw, Announce, Answer, AnswerFails, IInv, MutexInv, tables
  <2>2. \A c \in Conns : Owed(c) => c = d
    BY <2>1, OnlyHolderOwes
  <2>3. \A c \in Conns : c # d => pc'[c] = pc[c] /\ call'[c] = call[c]
    BY <1>3 DEF Withdraw, Announce, Answer, AnswerFails, SendToControl, Goto, IInv, TypeOK
  <2>4. Owed(d)' => Owed(d) /\ call'[d] = call[d]
    BY <1>3 DEF Withdraw, Announce, Answer, AnswerFails, SendToControl, Goto, IInv, TypeOK,
       Owed
  <2> QED
    BY <2>1, <2>2, <2>3, <2>4, TablesStand DEF Owed
<1>4. ASSUME NEW d \in Conns, Arrival(d) PROVE LiveInv'
  <2>1. UNCHANGED tables /\ pc'[d] \in {"lock", "closing"}
    BY <1>4 DEF Arrival, RequestLogin, RequestLogout, CloseConnection, Goto, IInv, TypeOK,
       tables
  <2>2. \A c \in Conns : c # d => pc'[c] = pc[c] /\ call'[c] = call[c]
    BY <1>4 DEF Arrival, RequestLogin, RequestLogout, CloseConnection, Goto, IInv, TypeOK
  <2> QED
    BY <2>1, <2>2, TablesStand DEF Owed
<1>5. ASSUME ControlLink PROVE LiveInv'
  BY <1>5, TablesStand DEF ControlLink, ControlConnection, ControlBreaks, ControlCloses, Owed,
     tables
<1> QED
  BY <1>1, <1>2, <1>3, <1>4, <1>5 DEF Next, Handler

(* From the moment a login has entered its session until its answer is     *)
(* written the session stands, whatever other clients do: the displacement *)
(* that would end it waits for loginMutex (LoginRequest.cpp:26-85).        *)
THEOREM AnsweredAlwaysLive == Spec => []AnsweredSessionIsLive
<1>1. Init => LiveInv
  BY DEF Init, LiveInv, Owed
<1>2. IInv /\ LiveInv /\ [Next]_vars => LiveInv'
  <2>1. IInv /\ LiveInv /\ UNCHANGED vars => LiveInv'
    BY DEF vars, LiveInv, Owed, tables
  <2> QED
    BY <2>1, LiveStep
<1>3. LiveInv => AnsweredSessionIsLive
  BY DEF LiveInv, Owed, AnsweredSessionIsLive
<1> QED
  BY IInvAlways, <1>1, <1>2, <1>3, PTL DEF Spec

-----------------------------------------------------------------------------
(* The implementation of SessionRegistry. *)

NoSession  == [id |-> NoId, conn |-> NoConn]
SessionOfUser(u) ==
    IF HasSession(u) THEN [id |-> userToId[u], conn |-> idToConn[userToId[u]]]
                     ELSE NoSession
session == [u \in Users |-> SessionOfUser(u)]
gone    == {c \in Conns : pc[c] = "closed"}

(* What a step of the registry says of session, issued, astray and gone.   *)
IsOf(c, u) == session[u] # NoSession /\ session[u].conn = c
Stands ==
    /\ session' = session /\ nextFreeToken' = nextFreeToken
    /\ astray' = astray /\ gone' = gone
Ends(u) ==
    /\ session[u] # NoSession
    /\ session' = [session EXCEPT ![u] = NoSession]
    /\ nextFreeToken' = nextFreeToken /\ astray' = astray /\ gone' = gone
Leaves(u, c) ==
    /\ session[u] # NoSession /\ c \notin gone
    /\ session' = [session EXCEPT ![u] = NoSession]
    /\ astray' = (astray \/ ~IsOf(c, u))
    /\ nextFreeToken' = nextFreeToken /\ gone' = gone
Strays(u, c) ==
    /\ session[u] # NoSession /\ c \notin gone /\ ~IsOf(c, u)
    /\ astray' = TRUE
    /\ session' = session /\ nextFreeToken' = nextFreeToken /\ gone' = gone
Drops(c) ==
    /\ c \notin gone
    /\ gone' = gone \cup {c}
    /\ \/ session' = session
       \/ \E u \in Users : IsOf(c, u) /\ session' = [session EXCEPT ![u] = NoSession]
    /\ ~astray => \A v \in Users : ~(session'[v] # NoSession /\ session'[v].conn = c)
    /\ nextFreeToken' = nextFreeToken /\ astray' = astray
Opens(u, c) ==
    /\ session[u] = NoSession /\ c \notin gone
    /\ session' = [session EXCEPT ![u] = [id |-> nextFreeToken, conn |-> c]]
    /\ nextFreeToken' = nextFreeToken + 1
    /\ astray' = (astray \/ \E v \in Users : IsOf(c, v))
    /\ gone' = gone

RegistryStep ==
    \/ Stands
    \/ \E u \in Users : Ends(u)
    \/ \E c \in Conns : Drops(c)
    \/ \E u \in Users, c \in Conns : Opens(u, c) \/ Leaves(u, c) \/ Strays(u, c)

(* A user has a session in the registry if the tables have an id for him.  *)
LEMMA SessionFacts ==
  ASSUME IInv
  PROVE  \A u \in Users :
            /\ session[u] # NoSession <=> HasSession(u)
            /\ HasSession(u) => /\ userToId[u] \in Ids /\ idToUser[userToId[u]] = u
                                /\ session[u].conn = idToConn[userToId[u]]
                                /\ idToConn[userToId[u]] \in Conns
<1> SUFFICES ASSUME NEW u \in Users
             PROVE  /\ session[u] # NoSession <=> HasSession(u)
                    /\ HasSession(u) => /\ userToId[u] \in Ids /\ idToUser[userToId[u]] = u
                                        /\ session[u].conn = idToConn[userToId[u]]
                                        /\ idToConn[userToId[u]] \in Conns
  OBVIOUS
<1>1. session[u] = SessionOfUser(u)
  BY DEF session
<1>2. CASE ~HasSession(u)
  BY <1>1, <1>2 DEF SessionOfUser
<1>3. CASE HasSession(u)
  <2>1. session[u] = [id |-> userToId[u], conn |-> idToConn[userToId[u]]]
    BY <1>1, <1>3 DEF SessionOfUser
  <2>2. session[u].id = userToId[u] /\ session[u].conn = idToConn[userToId[u]]
    BY <2>1
  <2>3. session[u] # NoSession
    BY <1>3, <2>2 DEF NoSession, HasSession
  <2>4. userToId[u] \in Ids /\ idToUser[userToId[u]] = u
    BY <1>3 DEF IInv, TypeOK, SessionTablesAgree, UsersAgree, HasSession
  <2>5. idToUser[userToId[u]] # NoUser
    BY <2>4, NoUserAssumption
  <2> QED
    BY <1>3, <2>2, <2>3, <2>4, <2>5, SessionOf
<1> QED
  BY <1>2, <1>3

(* Erasing the session of u from the tables ends it in the registry,       *)
(* whichever connection it is erased with.                                 *)
LEMMA EraseEnds ==
  ASSUME IInv, NEW u \in Users, NEW i \in Ids, NEW c \in Conns,
         NEW tokens \in [Ids -> Ids \cup {NoId}],
         userToId[u] = i, EraseSession(u, i, c, tokens)
  PROVE  /\ HasSession(u)
         /\ session' = [session EXCEPT ![u] = NoSession]
<1>1. HasSession(u)
  BY DEF HasSession, Ids, NoId
<1>2. /\ \A j \in Ids : idToConn'[j] = IF j = i THEN NoConn ELSE idToConn[j]
      /\ \A v \in Users : userToId'[v] = IF v = u THEN NoId ELSE userToId[v]
  BY DEF EraseSession, IInv, TypeOK
<1>3. \A v \in Users : session'[v] = IF v = u THEN NoSession ELSE session[v]
  <2> SUFFICES ASSUME NEW v \in Users
               PROVE  SessionOfUser(v)' = IF v = u THEN NoSession ELSE SessionOfUser(v)
    BY DEF session
  <2>1. CASE v = u
    BY <1>2, <2>1 DEF SessionOfUser, HasSession
  <2>2. CASE v # u
    <3>1. HasSession(v)' <=> HasSession(v)
      BY <1>2, <2>2 DEF HasSession
    <3>2. HasSession(v) => userToId[v] \in Ids /\ userToId[v] # i
      BY <2>2, <1>1, SessionFacts
    <3>3. HasSession(v) => userToId'[v] = userToId[v]
                           /\ idToConn'[userToId[v]] = idToConn[userToId[v]]
      BY <1>2, <2>2, <3>2
    <3> QED
      BY <2>2, <3>1, <3>3 DEF SessionOfUser
  <2> QED
    BY <2>1, <2>2
<1>4. session' = [v \in Users |-> session'[v]]
  BY DEF session
<1>5. session = [v \in Users |-> session[v]]
  BY DEF session
<1> QED
  BY <1>1, <1>3, <1>4, <1>5

(* Steps that leave the two tables session is made of, no id is given, no  *)
(* request goes astray and no connection closes: the registry stutters.    *)
LEMMA TablesStutter ==
  ASSUME userToId' = userToId, idToConn' = idToConn, nextFreeToken' = nextFreeToken,
         astray' = astray, gone' = gone
  PROVE  Stands
BY DEF Stands, session, SessionOfUser, HasSession

(* A handler that moves the thread of c without closing it.                *)
LEMMA GoneStands ==
  ASSUME IInv, NEW c \in Conns, NEW p \in Places, p # "closed", pc[c] # "closed",
         pc' = [pc EXCEPT ![c] = p]
  PROVE  gone' = gone
BY DEF gone, IInv, TypeOK

(* A login that displaces an earlier session of its user ends that one; if *)
(* connectionToIdMap has lost that session, the erase fails before it.     *)
LEMMA LoginEnds ==
  ASSUME IInv, status = "running", NEW c \in Conns, LoginAccepted(c)
  PROVE  RegistryStep
<1> DEFINE u == call[c].user
           id == nextFreeToken
           old == userToId[u]
           tokens == [userToken EXCEPT ![id] = id]
<1>1. /\ pc[c] = "lock" /\ id \in Ids /\ u \in Users /\ nextFreeToken' = nextFreeToken
      /\ astray' = astray
  <2>1. /\ pc[c] = "lock" /\ call[c].op = "login" /\ nextFreeToken < MaxToken
        /\ nextFreeToken' = nextFreeToken /\ astray' = astray
    BY DEF LoginAccepted
  <2>2. nextFreeToken \in 0 .. MaxToken /\ call[c].user \in Users
    BY <2>1 DEF IInv, TypeOK, LoginInv
  <2> QED
    BY <2>1, <2>2, BoundsAssumption DEF Ids
<1>2. gone' = gone
  <2>1. \/ pc' = [pc EXCEPT ![c] = "withdraw"]
        \/ pc' = [pc EXCEPT ![c] = "insert"]
        \/ pc' = pc
    BY DEF LoginAccepted, Goto
  <2> QED
    BY <1>1, <2>1, GoneStands DEF Places, gone
<1>3. CASE HasSession(u) /\ EntriesOf(old)
  <2>1. EraseSession(u, old, idToConn[old], tokens)
    BY <1>3 DEF LoginAccepted
  <2>2. tokens \in [Ids -> Ids \cup {NoId}]
    BY <1>1 DEF IInv, TypeOK
  <2>3. old \in Ids /\ idToConn[old] \in Conns
    BY <1>1, <1>3, SessionFacts
  <2>4. HasSession(u) /\ session' = [session EXCEPT ![u] = NoSession]
    <3> HIDE DEF u, old, tokens
    <3>1. old = userToId[u]
      BY DEF old
    <3> QED
      BY <1>1, <2>1, <2>2, <2>3, <3>1, EraseEnds
  <2>5. session[u] # NoSession
    BY <1>1, <1>3, SessionFacts
  <2>6. Ends(u)
    <3> HIDE DEF u
    <3> QED
      BY <1>1, <1>2, <2>4, <2>5 DEF Ends
  <2> QED
    BY <1>1, <2>6 DEF RegistryStep
<1>4. CASE ~(HasSession(u) /\ EntriesOf(old))
  <2>1. UNCHANGED <<userToId, idToConn>>
    BY <1>4 DEF LoginAccepted, tables
  <2> QED
    BY <1>1, <1>2, <2>1, TablesStutter DEF RegistryStep
<1> QED
  BY <1>3, <1>4

(* A logout ends the session it names, whosever that is, or changes        *)
(* nothing; the one the process does not survive came from a connection    *)
(* that the session is not of.                                             *)
LEMMA LogoutEnds ==
  ASSUME IInv, status = "running", NEW c \in Conns, Logout(c)
  PROVE  RegistryStep
<1> DEFINE id == call[c].old[1]
           u == idToUser[id]
           Whole == /\ u # NoUser /\ HasSession(u)
                    /\ idToConn[id] # NoConn /\ connToId[c] # NoId
<1>1. /\ pc[c] = "lock" /\ call[c].op = "logout" /\ mutex = NoConn
      /\ id \in Ids /\ nextFreeToken' = nextFreeToken
  BY DEF Logout, Lock, IInv, CallInv
<1>2. \A d \in Conns : pc[d] \notin {"withdraw", "insert", "announce", "answer"}
  BY <1>1, NoConnAssumption DEF IInv, MutexInv
<1>3. userToken[id] # NoId => /\ u \in Users /\ userToId[u] = id /\ HasSession(u)
                              /\ u # NoUser /\ idToConn[id] \in Conns
                              /\ ~astray => connToId[idToConn[id]] = id
  <2>1. userToken[id] # NoId => u # NoUser
    BY <1>1, <1>2 DEF IInv, SessionTablesAgree, IdsAgree, Entering
  <2>2. userToken[id] # NoId => u \in Users /\ userToId[u] = id /\ idToConn[id] \in Conns
    BY <1>1, <2>1, SessionOf
  <2>3. userToken[id] # NoId /\ ~astray => connToId[idToConn[id]] = id
    BY <1>1, <2>2, NoConnAssumption, ConnOf
  <2> QED
    BY <1>1, <2>1, <2>2, <2>3 DEF HasSession, NoId, Ids
<1>4. userToken[id] # NoId => session[u] # NoSession /\ session[u].conn = idToConn[id]
  BY <1>1, <1>3, SessionFacts
<1>5. gone' = gone /\ c \notin gone
  <2>1. \/ pc' = [pc EXCEPT ![c] = "withdraw"]
        \/ pc' = [pc EXCEPT ![c] = "answer"]
        \/ pc' = pc
    BY DEF Logout, Goto
  <2> QED
    BY <1>1, <2>1, GoneStands DEF Places, gone
<1>6. CASE /\ userToken[id] # NoId /\ EraseSession(u, id, c, userToken)
           /\ astray' = (astray \/ idToConn[id] # c)
  <2>1. userToken \in [Ids -> Ids \cup {NoId}]
    BY DEF IInv, TypeOK
  <2>2. session' = [session EXCEPT ![u] = NoSession]
    <3> HIDE DEF id, u
    <3> QED
      BY <1>1, <1>3, <1>6, <2>1, EraseEnds
  <2>3. IsOf(c, u) <=> idToConn[id] = c
    BY <1>4, <1>6 DEF IsOf
  <2>4. Leaves(u, c)
    <3> HIDE DEF id, u
    <3> QED
      BY <1>1, <1>4, <1>5, <1>6, <2>2, <2>3 DEF Leaves
  <2> QED
    BY <1>3, <1>6, <2>4 DEF RegistryStep
<1>7. CASE UNCHANGED <<tables, astray>>
  BY <1>1, <1>5, <1>7, TablesStutter DEF RegistryStep, tables
<1>8. CASE /\ userToken[id] # NoId /\ ~Whole
           /\ astray' = (astray \/ idToConn[id] # c)
           /\ UNCHANGED tables
  <2>1. CASE astray
    <3>1. astray' = astray
      BY <1>8, <2>1 DEF IInv, TypeOK
    <3> QED
      BY <1>7, <1>8, <3>1
  <2>2. CASE ~astray
    <3>1. idToConn[id] # c
      BY <1>1, <1>3, <1>8, <2>2, NoConnAssumption DEF Ids, NoId
    <3>2. ~IsOf(c, u) /\ astray' = TRUE
      BY <1>4, <1>8, <3>1 DEF IsOf
    <3>3. session' = session
      BY <1>8 DEF tables, session, SessionOfUser, HasSession
    <3>4. Strays(u, c)
      <4> HIDE DEF id, u
      <4> QED
        BY <1>1, <1>4, <1>5, <1>8, <3>2, <3>3 DEF Strays
    <3> QED
      BY <1>3, <1>8, <3>4 DEF RegistryStep
  <2> QED
    BY <2>1, <2>2
<1> QED
  BY <1>6, <1>7, <1>8 DEF Logout

(* A closing connection drops the session its entry names, and if no       *)
(* request went astray that is the one it carries.                         *)
LEMMA CloseDrops ==
  ASSUME IInv, status = "running", NEW c \in Conns, CallOnClose(c)
  PROVE  RegistryStep
<1> DEFINE id == connToId[c]
           u == idToUser[id]
           Whole == /\ u # NoUser /\ userToken[id] # NoId
                    /\ idToConn[id] # NoConn /\ HasSession(u)
<1>1. pc[c] = "closing" /\ nextFreeToken' = nextFreeToken /\ astray' = astray
  BY DEF CallOnClose
<1>2. NoId \notin Ids
  BY DEF NoId, Ids
<1>3. id # NoId => id \in Ids /\ idToConn[id] \in {NoConn, c}
  BY DEF IInv, TypeOK, EntryInv
<1>4. ~astray => \A v \in Users : IsOf(c, v) => userToId[v] = id /\ id # NoId
  <2> SUFFICES ASSUME ~astray, NEW v \in Users, IsOf(c, v)
               PROVE  userToId[v] = id /\ id # NoId
    OBVIOUS
  <2>1. userToId[v] \in Ids /\ idToConn[userToId[v]] = c
    BY SessionFacts DEF IsOf
  <2>2. connToId[c] = userToId[v]
    BY <2>1, NoConnAssumption, ConnOf
  <2> QED
    BY <1>2, <2>1, <2>2
<1>5. CASE id # NoId /\ ~Whole
  <2>1. UNCHANGED tables /\ pc' = pc
    BY <1>5 DEF CallOnClose
  <2> QED
    BY <1>1, <2>1, TablesStutter DEF RegistryStep, tables, gone
<1>6. CASE id = NoId \/ Whole
  <2>1. /\ pc' = [pc EXCEPT ![c] = "closed"]
        /\ id = NoId => UNCHANGED tables
        /\ id # NoId => EraseSession(u, id, c, userToken)
    BY <1>6 DEF CallOnClose, Goto
  <2>2. c \notin gone /\ gone' = gone \cup {c}
    BY <1>1, <2>1 DEF gone, IInv, TypeOK
  <2>3. CASE id = NoId
    <3>1. session' = session
      BY <2>1, <2>3 DEF tables, session, SessionOfUser, HasSession
    <3>2. ~astray => \A v \in Users : ~(session'[v] # NoSession /\ session'[v].conn = c)
      BY <1>4, <2>3, <3>1 DEF IsOf
    <3> QED
      BY <1>1, <2>2, <3>1, <3>2 DEF Drops, RegistryStep
  <2>4. CASE id # NoId
    <3>1. userToken \in [Ids -> Ids \cup {NoId}]
      BY DEF IInv, TypeOK
    <3>2. /\ u \in Users /\ userToId[u] = id /\ EraseSession(u, id, c, userToken)
          /\ idToConn[id] = c
      BY <1>2, <1>3, <1>6, <2>1, <2>4, SessionOf
    <3>3. HasSession(u) /\ session' = [session EXCEPT ![u] = NoSession]
      <4> HIDE DEF id, u
      <4> QED
        BY <1>3, <2>4, <3>1, <3>2, EraseEnds
    <3>4. IsOf(c, u)
      BY <3>2, <3>3, SessionFacts DEF IsOf
    <3>5. \A v \in Users : v # u => session'[v] = session[v]
      BY <3>3 DEF session
    <3>6. session'[u] = NoSession
      BY <3>2, <3>3 DEF session
    <3>7. ~astray => \A v \in Users : IsOf(c, v) => v = u
      <4> SUFFICES ASSUME ~astray, NEW v \in Users, IsOf(c, v) PROVE v = u
        OBVIOUS
      <4>1. userToId[v] = id
        BY <1>4
      <4>2. idToUser[userToId[v]] = v
        BY SessionFacts DEF IsOf
      <4> QED
        BY <4>1, <4>2
    <3>8. ~astray => \A v \in Users : ~(session'[v] # NoSession /\ session'[v].conn = c)
      <4> HIDE DEF u, id
      <4> QED
        BY <3>5, <3>6, <3>7 DEF IsOf
    <3>9. Drops(c)
      <4> HIDE DEF u, id
      <4> QED
        BY <1>1, <2>2, <3>2, <3>3, <3>4, <3>8 DEF Drops
    <3> QED
      BY <3>9 DEF RegistryStep
  <2> QED
    BY <2>3, <2>4
<1> QED
  BY <1>5, <1>6

(* A login that enters its session opens it: the user has none.            *)
LEMMA InsertOpens ==
  ASSUME IInv, status = "running", NEW c \in Conns, InsertSession(c)
  PROVE  RegistryStep
<1> DEFINE u == call[c].user
           id == nextFreeToken
<1>1. /\ pc[c] = "insert" /\ u \in Users /\ id \in Ids /\ call[c].new = <<id, id>>
      /\ userToId[u] = NoId
  BY DEF InsertSession, IInv, CallInv, LoginInv
<1>2. idToUser[id] = NoUser /\ idToConn[id] = NoConn
  <2>1. id >= nextFreeToken
    BY <1>1 DEF Ids
  <2> QED
    BY <1>1, <2>1 DEF IInv, SessionTablesAgree, IdsAgree, FreshInv
<1>3. /\ idToConn' = [idToConn EXCEPT ![id] = c]
      /\ userToId' = [userToId EXCEPT ![u] = id]
      /\ nextFreeToken' = id + 1
      /\ pc' = [pc EXCEPT ![c] = "announce"]
      /\ astray' = (astray \/ connToId[c] # NoId)
  BY <1>1, <1>2 DEF InsertSession, Goto
<1>4. gone' = gone /\ c \notin gone
  BY <1>1, <1>3, GoneStands DEF Places, gone
<1>5. session[u] = NoSession
  BY <1>1, SessionFacts DEF HasSession
<1>6. ~astray => (connToId[c] # NoId <=> \E v \in Users : IsOf(c, v))
  <2>1. ASSUME ~astray, connToId[c] # NoId PROVE \E v \in Users : IsOf(c, v)
    <3>1. connToId[c] \in Ids /\ idToConn[connToId[c]] = c
      BY <2>1 DEF IInv, TypeOK, SessionTablesAgree, ConnsAgree
    <3>2. idToUser[connToId[c]] # NoUser
      BY <3>1, NoConnAssumption DEF IInv, SessionTablesAgree, IdsAgree
    <3>3. PICK v \in Users : v = idToUser[connToId[c]] /\ userToId[v] = connToId[c]
      BY <3>1, <3>2, SessionOf
    <3>4. HasSession(v)
      BY <2>1, <3>3 DEF HasSession
    <3>5. IsOf(c, v)
      BY <3>1, <3>3, <3>4, SessionFacts DEF IsOf
    <3> QED
      BY <3>5
  <2>2. ASSUME ~astray, NEW v \in Users, IsOf(c, v) PROVE connToId[c] # NoId
    <3>1. userToId[v] \in Ids /\ idToConn[userToId[v]] = c
      BY <2>2, SessionFacts DEF IsOf
    <3>2. connToId[c] = userToId[v]
      BY <2>2, <3>1, NoConnAssumption, ConnOf
    <3> QED
      BY <3>1, <3>2 DEF Ids, NoId
  <2> QED
    BY <2>1, <2>2
<1>7. astray' = (astray \/ \E v \in Users : IsOf(c, v))
  BY <1>3, <1>6 DEF IInv, TypeOK
<1>8. \A v \in Users :
        session'[v] = IF v = u THEN [id |-> id, conn |-> c] ELSE session[v]
  <2> SUFFICES ASSUME NEW v \in Users
               PROVE  SessionOfUser(v)' = IF v = u THEN [id |-> id, conn |-> c]
                                                   ELSE SessionOfUser(v)
    BY DEF session
  <2>1. /\ \A j \in Ids : idToConn'[j] = IF j = id THEN c ELSE idToConn[j]
        /\ \A w \in Users : userToId'[w] = IF w = u THEN id ELSE userToId[w]
    BY <1>3 DEF IInv, TypeOK
  <2>2. CASE v = u
    <3>1. userToId'[v] = id /\ idToConn'[id] = c /\ id # NoId
      BY <1>1, <2>1, <2>2 DEF Ids, NoId
    <3> QED
      BY <2>2, <3>1 DEF SessionOfUser, HasSession
  <2>3. CASE v # u
    <3>1. userToId'[v] = userToId[v]
      BY <2>1, <2>3
    <3>2. HasSession(v) => userToId[v] \in Ids /\ idToUser[userToId[v]] = v
      BY SessionFacts
    <3>3. HasSession(v) => idToConn'[userToId[v]] = idToConn[userToId[v]]
      BY <1>2, <2>1, <3>2, NoUserAssumption
    <3> QED
      BY <2>3, <3>1, <3>3 DEF SessionOfUser, HasSession
  <2> QED
    BY <2>2, <2>3
<1>9. session' = [session EXCEPT ![u] = [id |-> id, conn |-> c]]
  <2>1. session = [v \in Users |-> session[v]] /\ session' = [v \in Users |-> session'[v]]
    BY DEF session
  <2> QED
    BY <1>8, <2>1
<1>10. Opens(u, c)
  <2> HIDE DEF u
  <2> QED
    BY <1>3, <1>4, <1>5, <1>7, <1>9 DEF Opens
<1> QED
  BY <1>1, <1>10 DEF RegistryStep

(* Every step of the login server is a step of the registry or none.       *)
LEMMA EveryStepMaps == ASSUME IInv, [Next]_vars PROVE RegistryStep
<1>1. ASSUME NEW c \in Conns, status = "running",
             LoginRefused(c) \/ Withdraw(c) \/ Announce(c) \/ Answer(c) \/ AnswerFails(c)
      PROVE  RegistryStep
  <2>1. UNCHANGED <<tables, nextFreeToken, astray>>
    BY <1>1 DEF LoginRefused, Withdraw, Announce, Answer, AnswerFails, counts
  <2>2. pc[c] \in {"lock", "withdraw", "announce", "answer"}
    BY <1>1 DEF LoginRefused, Withdraw, Announce, Answer, AnswerFails
  <2>3. \/ pc' = pc
        \/ \E p \in Places : p # "closed" /\ pc' = [pc EXCEPT ![c] = p]
    BY <1>1 DEF LoginRefused, Withdraw, Announce, Answer, AnswerFails, SendToControl, Goto,
       Places
  <2>4. gone' = gone
    BY <2>2, <2>3, GoneStands DEF gone
  <2> QED
    BY <2>1, <2>4, TablesStutter DEF RegistryStep, tables
<1>2. ASSUME NEW c \in Conns, Arrival(c) PROVE RegistryStep
  <2>1. UNCHANGED <<tables, nextFreeToken, astray>> /\ pc[c] = "idle"
    BY <1>2 DEF Arrival, RequestLogin, RequestLogout, CloseConnection, counts
  <2>2. \E p \in Places : p # "closed" /\ pc' = [pc EXCEPT ![c] = p]
    BY <1>2 DEF Arrival, RequestLogin, RequestLogout, CloseConnection, Goto, Places
  <2>3. gone' = gone
    BY <2>1, <2>2, GoneStands
  <2> QED
    BY <2>1, <2>3, TablesStutter DEF RegistryStep, tables
<1>3. ASSUME ControlLink \/ UNCHANGED vars PROVE RegistryStep
  BY <1>3, TablesStutter DEF ControlLink, ControlConnection, ControlBreaks, ControlCloses,
     vars, tables, counts, gone, RegistryStep
<1> QED
  BY <1>1, <1>2, <1>3, LoginEnds, LogoutEnds, CloseDrops, InsertOpens DEF Next, Handler

(* The session tables implement the SessionRegistry, whatever the clients  *)
(* ask on whichever connection and in whatever order: a user has at most   *)
(* one session, no id is given twice, a closing connection ends no session *)
(* of another, and until a request goes astray it leaves none of its own   *)
(* behind (LoginRequest.cpp:18-85, LogoutRequest.cpp:12-36,                *)
(* ClientClosedConnection.cpp:14-38).                                      *)
THEOREM TablesImplementRegistry == Spec => ImplementsRegistry
<1>1. Init => Registry!Init
  BY DEF Init, Registry!Init, HasSession
<1>2. IInv /\ [Next]_vars => [Registry!Next]_(Registry!vars)
  <2> SUFFICES ASSUME IInv, [Next]_vars PROVE [Registry!Next]_(Registry!vars)
    OBVIOUS
  <2>1. RegistryStep
    BY EveryStepMaps
  <2> QED
    BY <2>1 DEF RegistryStep, Stands, Ends, Leaves, Strays, Drops, Opens, IsOf, session, gone,
       SessionOfUser, NoSession, Registry!Next, Registry!vars, Registry!IsOf, Registry!End,
       Registry!Leave, Registry!Stray, Registry!Drop, Registry!Open
<1> QED
  BY IInvAlways, <1>1, <1>2, PTL DEF Spec, ImplementsRegistry, Registry!Spec
-----------------------------------------------------------------------------
(* What Control is told, in order. *)

Began(i) == [kind |-> "NewClient", body |-> <<i, i>>]
Ended(i) == [kind |-> "ClientDisconnect", body |-> <<i, i>>]
ToBegin(c, i) == pc[c] = "announce" /\ call[c].new = <<i, i>>
ToEnd(c, i)   == pc[c] = "withdraw" /\ call[c].old = <<i, i>>

NoneRefused == \A c \in Conns : call[c].op = "login" => call[c].code = 0

(* What a handler still has to withdraw is a session that is over.         *)
EndInv ==
    \A c \in Conns : pc[c] = "withdraw" =>
        \E i \in Ids : i < nextFreeToken /\ idToUser[i] = NoUser /\ ToEnd(c, i)

(* Every message is of a session that was given, and nobody is about to    *)
(* send it again; the session of a ClientDisconnect is over.               *)
MessageInv ==
    \A k \in 1 .. Len(sent) : \E i \in Ids :
        /\ i < nextFreeToken
        /\ \/ sent[k] = Began(i) /\ \A c \in Conns : ~ToBegin(c, i)
           \/ /\ sent[k] = Ended(i) /\ idToUser[i] = NoUser
              /\ \A c \in Conns : ~ToEnd(c, i)

OrderInv == NoneRefused /\ EndInv /\ MessageInv /\ AnnouncedInOrder

(* What a step may do to the sessions that were given, and to sent.        *)
Keeps ==
    /\ nextFreeToken <= nextFreeToken'
    /\ \A i \in Ids : i < nextFreeToken /\ idToUser[i] = NoUser => idToUser'[i] = NoUser
    /\ \A c \in Conns, i \in Ids :
          /\ ToEnd(c, i)' => ToEnd(c, i) \/ idToUser[i] # NoUser
          /\ i < nextFreeToken /\ ToBegin(c, i)' => ToBegin(c, i)
Sends ==
    \/ sent' = sent
    \/ \E c \in Conns, i \in Ids :
          /\ ToBegin(c, i) /\ idToUser[i] # NoUser /\ i < nextFreeToken
          /\ sent' = Append(sent, Began(i))
          /\ \A d \in Conns : pc'[d] # "announce"
          /\ idToUser' = idToUser
    \/ \E c \in Conns, i \in Ids :
          /\ ToEnd(c, i) /\ idToUser[i] = NoUser /\ i < nextFreeToken
          /\ sent' = Append(sent, Ended(i))
          /\ \A d \in Conns : pc'[d] # "withdraw"
          /\ idToUser' = idToUser

(* What is erased is to be withdrawn, or its connection closes; and what   *)
(* is to be withdrawn is, if the link to Control is up.                    *)
Accounts ==
    /\ \A i \in Ids : idToUser[i] # NoUser /\ idToUser'[i] = NoUser =>
          \/ \E c \in Conns : ToEnd(c, i)'
          \/ \E c \in Conns : pc[c] = "closing" /\ connToId[c] = i /\ pc'[c] = "closed"
    /\ \A c \in Conns, i \in Ids : ToEnd(c, i) =>
          \/ ToEnd(c, i)'
          \/ sent' = Append(sent, Ended(i))
          \/ control \in {"never", "broken"}
          \/ status' = "crashed"

Tells == Keeps /\ Sends /\ Accounts /\ NoneRefused' /\ EndInv'

(* A step that leaves the tables, sends nothing, and leaves who is to send *)
(* what.                                                                   *)
LEMMA QuietTells ==
  ASSUME IInv, EndInv, NoneRefused', UNCHANGED <<tables, nextFreeToken, sent>>,
         \A c \in Conns :
            pc'[c] \in {"withdraw", "announce"} \/ pc[c] = "withdraw" =>
                pc'[c] = pc[c] /\ call'[c] = call[c]
  PROVE  Tells
<1>1. \A c \in Conns, i \in Ids : ToEnd(c, i)' <=> ToEnd(c, i)
  BY DEF ToEnd
<1>2. \A c \in Conns, i \in Ids : ToBegin(c, i)' => ToBegin(c, i)
  BY DEF ToBegin
<1>3. nextFreeToken' = nextFreeToken /\ idToUser' = idToUser
  BY DEF tables
<1>4. Keeps
  <2>1. nextFreeToken <= nextFreeToken'
    BY <1>3 DEF IInv, TypeOK
  <2> QED
    BY <1>1, <1>2, <1>3, <2>1 DEF Keeps
<1>5. EndInv'
  BY <1>1, <1>3 DEF EndInv
<1>6. Accounts
  BY <1>1, <1>3 DEF Accounts
<1> QED
  BY <1>4, <1>5, <1>6 DEF Tells, Sends

(* The handlers that send nothing, by what they do to the tables.          *)
LEMMA RestTells ==
  ASSUME IInv, NoneRefused, EndInv,
         \/ \E c \in Conns : Answer(c) \/ AnswerFails(c) \/ Arrival(c)
         \/ ControlLink
  PROVE  Tells
<1>1. ASSUME NEW c \in Conns, Answer(c) \/ AnswerFails(c) PROVE Tells
  <2>1. UNCHANGED <<tables, nextFreeToken, sent>>
    BY <1>1 DEF Answer, AnswerFails, counts, link
  <2>2. pc[c] = "answer" /\ pc'[c] \in {"idle", "closing"}
        /\ (call'[c] = call[c] \/ call'[c] = NoCall)
    BY <1>1 DEF Answer, AnswerFails, Goto, IInv, TypeOK
  <2>3. \A d \in Conns : d # c => pc'[d] = pc[d] /\ call'[d] = call[d]
    BY <1>1 DEF Answer, AnswerFails, Goto, IInv, TypeOK
  <2>4. NoneRefused'
    BY <2>2, <2>3 DEF NoneRefused, NoCall, Call
  <2> QED
    BY <2>1, <2>2, <2>3, <2>4, QuietTells
<1>2. ASSUME NEW c \in Conns, Arrival(c) PROVE Tells
  <2>1. UNCHANGED <<tables, nextFreeToken, sent>>
    BY <1>2 DEF Arrival, RequestLogin, RequestLogout, CloseConnection, counts, link
  <2>2. /\ pc[c] = "idle" /\ pc'[c] \in {"lock", "closing"}
        /\ call'[c].op = "login" => call'[c].code = 0 \/ call'[c] = call[c]
    BY <1>2 DEF Arrival, RequestLogin, RequestLogout, CloseConnection, Goto, IInv, TypeOK,
       Call
  <2>3. \A d \in Conns : d # c => pc'[d] = pc[d] /\ call'[d] = call[d]
    BY <1>2 DEF Arrival, RequestLogin, RequestLogout, CloseConnection, Goto, IInv, TypeOK
  <2>4. NoneRefused'
    BY <2>2, <2>3 DEF NoneRefused
  <2> QED
    BY <2>1, <2>2, <2>3, <2>4, QuietTells
<1>3. ASSUME ControlLink PROVE Tells
  <2>1. UNCHANGED <<tables, nextFreeToken, sent, pc, call>>
    BY <1>3 DEF ControlLink, ControlConnection, ControlBreaks, ControlCloses, counts
  <2>2. NoneRefused'
    BY <2>1 DEF NoneRefused
  <2> QED
    BY <2>1, <2>2, QuietTells
<1> QED
  BY <1>1, <1>2, <1>3

(* A handler that waits for loginMutex finds nobody with a message to send.*)
LEMMA FreeMutexSendsNothing ==
  ASSUME IInv, mutex = NoConn
  PROVE  \A c \in Conns : pc[c] \notin {"withdraw", "insert", "announce", "answer"}
BY NoConnAssumption DEF IInv, MutexInv

LEMMA OnlyHolderSends ==
  ASSUME IInv, NEW c \in Conns, pc[c] \in {"withdraw", "insert", "announce", "answer"}
  PROVE  \A d \in Conns : d # c => pc[d] \notin {"withdraw", "insert", "announce", "answer"}
BY DEF IInv, MutexInv

(* A session is erased under loginMutex, and c is to withdraw it.          *)
LEMMA EraseTells ==
  ASSUME IInv, EndInv, mutex = NoConn, NoneRefused',
         NEW c \in Conns, NEW i \in Ids, idToUser[i] # NoUser,
         idToUser' = [idToUser EXCEPT ![i] = NoUser],
         UNCHANGED <<nextFreeToken, sent>>,
         \A d \in Conns : d # c => pc'[d] = pc[d] /\ call'[d] = call[d],
         \/ ToEnd(c, i)'
         \/ pc[c] = "closing" /\ connToId[c] = i /\ pc'[c] = "closed"
  PROVE  Tells
<1>1. \A d \in Conns, j \in Ids : ~ToEnd(d, j) /\ ~ToBegin(d, j)
  BY FreeMutexSendsNothing DEF ToEnd, ToBegin
<1>2. \A d \in Conns, j \in Ids : ~ToBegin(d, j)'
  BY FreeMutexSendsNothing DEF ToBegin, ToEnd
<1>3. \A d \in Conns : pc'[d] = "withdraw" => d = c /\ ToEnd(c, i)'
  BY FreeMutexSendsNothing DEF ToEnd
<1>4. \A d \in Conns, j \in Ids : ToEnd(d, j)' => j = i
  BY <1>3 DEF ToEnd
<1>5. /\ idToUser'[i] = NoUser /\ \A j \in Ids : j # i => idToUser'[j] = idToUser[j]
  BY DEF IInv, TypeOK
<1>6. i < nextFreeToken /\ nextFreeToken' = nextFreeToken /\ nextFreeToken <= nextFreeToken
  BY SessionOf DEF IInv, TypeOK
<1>7. Keeps
  BY <1>1, <1>2, <1>4, <1>5, <1>6 DEF Keeps
<1>8. EndInv'
  BY <1>3, <1>5, <1>6 DEF EndInv
<1>9. Accounts
  <2>1. ASSUME NEW j \in Ids, idToUser[j] # NoUser, idToUser'[j] = NoUser
        PROVE  \/ \E d \in Conns : ToEnd(d, j)'
               \/ \E d \in Conns : pc[d] = "closing" /\ connToId[d] = j /\ pc'[d] = "closed"
    <3>1. j = i
      BY <1>5, <2>1
    <3> QED
      BY <3>1
  <2> QED
    BY <1>1, <2>1 DEF Accounts
<1> QED
  BY <1>7, <1>8, <1>9 DEF Tells, Sends

LEMMA LoginAcceptedTells ==
  ASSUME IInv, NoneRefused, EndInv, NEW c \in Conns, LoginAccepted(c) PROVE Tells
<1> DEFINE u == call[c].user
           old == userToId[u]
           id == nextFreeToken
           tokens == [userToken EXCEPT ![id] = id]
<1>1. /\ pc[c] = "lock" /\ call[c].op = "login" /\ mutex = NoConn
      /\ UNCHANGED <<nextFreeToken, sent>>
      /\ u \in Users
  BY DEF LoginAccepted, Lock, link, IInv, LoginInv
<1>2. CASE /\ ~HasSession(u)
           /\ userToken' = tokens
           /\ call' = [call EXCEPT ![c] = Call("login", u, <<id, id>>, None, 0)]
           /\ Goto(c, "insert")
           /\ UNCHANGED <<idToConn, connToId, userToId, idToUser, usersConnected, status>>
  <2>1. pc'[c] = "insert" /\ \A d \in Conns : d # c => pc'[d] = pc[d] /\ call'[d] = call[d]
    BY <1>2 DEF Goto, IInv, TypeOK
  <2>2. NoneRefused'
    BY <1>2 DEF NoneRefused, IInv, TypeOK, Call
  <2>3. \A d \in Conns : pc'[d] \notin {"withdraw", "announce"}
    BY <1>1, <2>1, FreeMutexSendsNothing
  <2>4. \A d \in Conns : pc[d] # "withdraw"
    BY <1>1, FreeMutexSendsNothing
  <2>5. Keeps /\ Sends /\ Accounts /\ EndInv'
    BY <1>1, <1>2, <2>3, <2>4 DEF Keeps, Sends, Accounts, EndInv, ToEnd, ToBegin, IInv, TypeOK
  <2> QED
    BY <2>2, <2>5 DEF Tells
<1>3. CASE /\ HasSession(u)
           /\ EntriesOf(old)
           /\ EraseSession(u, old, idToConn[old], tokens)
           /\ call' = [call EXCEPT ![c] =
                         Call("login", u, <<id, id>>, <<old, userToken[old]>>, 0)]
           /\ Goto(c, "withdraw")
  <2>1. old \in Ids /\ idToUser[old] # NoUser
    BY <1>1, <1>3 DEF IInv, TypeOK, HasSession, EntriesOf
  <2>2. userToken[old] = old
    BY <2>1, SessionOf
  <2>3. idToUser' = [idToUser EXCEPT ![old] = NoUser]
    BY <1>3 DEF EraseSession
  <2>3a. /\ call' = [call EXCEPT ![c] = Call("login", u, <<id, id>>, <<old, old>>, 0)]
         /\ pc' = [pc EXCEPT ![c] = "withdraw"]
    BY <1>3, <2>2 DEF Goto
  <2> HIDE DEF old, u
  <2>3b. PICK i \in Ids : i = old
    BY <2>1
  <2>4. ToEnd(c, i)' /\ \A d \in Conns : d # c => pc'[d] = pc[d] /\ call'[d] = call[d]
    BY <2>3a, <2>3b DEF IInv, TypeOK, ToEnd, Call
  <2>5. NoneRefused'
    BY <1>3 DEF NoneRefused, IInv, TypeOK, Call
  <2> QED
    BY <1>1, <2>1, <2>3, <2>3b, <2>4, <2>5, EraseTells
<1>4. CASE UNCHANGED <<tables, usersConnected, pc, call>>
  <2>1. NoneRefused'
    BY <1>4 DEF NoneRefused
  <2> QED
    BY <1>1, <1>4, <2>1, QuietTells
<1> QED
  BY <1>2, <1>3, <1>4 DEF LoginAccepted

LEMMA LogoutTells ==
  ASSUME IInv, NoneRefused, EndInv, NEW c \in Conns, Logout(c) PROVE Tells
<1> DEFINE id == call[c].old[1]
           token == call[c].old[2]
<1>1. /\ pc[c] = "lock" /\ call[c].op = "logout" /\ mutex = NoConn
      /\ UNCHANGED <<nextFreeToken, sent>>
  BY DEF Logout, Lock, link
<1>2. id \in Ids
  BY <1>1 DEF IInv, CallInv
<1>3. CASE \E n \in 1 .. 2 :
              /\ call' = [call EXCEPT ![c] = Call("logout", NoUser, None, None, n)]
              /\ Goto(c, "answer")
              /\ UNCHANGED <<tables, usersConnected, status>>
  <2>1. pc'[c] = "answer" /\ \A d \in Conns : d # c => pc'[d] = pc[d] /\ call'[d] = call[d]
    BY <1>3 DEF Goto, IInv, TypeOK
  <2>2. NoneRefused'
    BY <1>3 DEF NoneRefused, IInv, TypeOK, Call
  <2> QED
    BY <1>1, <1>3, <2>1, <2>2, QuietTells
<1>4. CASE /\ userToken[id] # NoId /\ userToken[id] = token
           /\ idToUser[id] # NoUser
           /\ EraseSession(idToUser[id], id, c, userToken)
           /\ Goto(c, "withdraw")
           /\ UNCHANGED call
  <2>1. idToUser' = [idToUser EXCEPT ![id] = NoUser]
    BY <1>4 DEF EraseSession
  <2>2. token = id
    BY <1>2, <1>4 DEF IInv, FreshInv
  <2>3. call[c].old = <<id, id>>
    BY <2>2, CallsType DEF IInv, TypeOK, Pairs
  <2> HIDE DEF id
  <2>3a. PICK i \in Ids : i = id
    BY <1>2
  <2>4. ToEnd(c, i)' /\ \A d \in Conns : d # c => pc'[d] = pc[d] /\ call'[d] = call[d]
    BY <1>4, <2>3, <2>3a DEF Goto, IInv, TypeOK, ToEnd
  <2>5. NoneRefused'
    BY <1>4 DEF NoneRefused
  <2> QED
    BY <1>1, <1>4, <2>1, <2>3a, <2>4, <2>5, EraseTells
<1>5. CASE UNCHANGED <<tables, usersConnected, pc, call>>
  <2>1. NoneRefused'
    BY <1>5 DEF NoneRefused
  <2> QED
    BY <1>1, <1>5, <2>1, QuietTells
<1> QED
  <2>1. 1 \in 1 .. 2 /\ 2 \in 1 .. 2
    OBVIOUS
  <2> QED
    BY <1>3, <1>4, <1>5, <2>1 DEF Logout

LEMMA CallOnCloseTells ==
  ASSUME IInv, NoneRefused, EndInv, NEW c \in Conns, CallOnClose(c) PROVE Tells
<1> DEFINE id == connToId[c]
<1>1. /\ pc[c] = "closing" /\ mutex = NoConn
      /\ UNCHANGED <<nextFreeToken, sent, call>>
  BY DEF CallOnClose, link
<1>2. NoneRefused'
  BY <1>1 DEF NoneRefused
<1>3. CASE pc' = pc /\ UNCHANGED tables
  BY <1>1, <1>2, <1>3, QuietTells
<1>4. CASE Goto(c, "closed") /\ UNCHANGED tables
  <2>1. pc'[c] = "closed" /\ \A d \in Conns : d # c => pc'[d] = pc[d]
    BY <1>4 DEF Goto, IInv, TypeOK
  <2> QED
    BY <1>1, <1>2, <1>4, <2>1, QuietTells
<1>5. CASE /\ id # NoId /\ idToUser[id] # NoUser
           /\ EraseSession(idToUser[id], id, c, userToken)
           /\ Goto(c, "closed")
  <2>1. id \in Ids
    BY <1>5 DEF IInv, TypeOK
  <2>2. idToUser' = [idToUser EXCEPT ![id] = NoUser]
    BY <1>5 DEF EraseSession
  <2>3. pc'[c] = "closed" /\ \A d \in Conns : d # c => pc'[d] = pc[d]
    BY <1>5 DEF Goto, IInv, TypeOK
  <2> QED
    BY <1>1, <1>2, <1>5, <2>1, <2>2, <2>3, EraseTells
<1> QED
  BY <1>3, <1>4, <1>5 DEF CallOnClose

LEMMA InsertSessionTells ==
  ASSUME IInv, NoneRefused, EndInv, NEW c \in Conns, InsertSession(c) PROVE Tells
<1> DEFINE id == nextFreeToken
<1>1. /\ pc[c] = "insert" /\ call[c].op = "login"
      /\ call[c].user \in Users /\ id \in Ids /\ call[c].new = <<id, id>>
  BY DEF InsertSession, IInv, CallInv, LoginInv
<1>2. idToUser[id] = NoUser
  BY <1>1 DEF IInv, FreshInv, Ids
<1>3. /\ idToUser' = [idToUser EXCEPT ![id] = call[c].user]
      /\ nextFreeToken' = nextFreeToken + 1
      /\ pc' = [pc EXCEPT ![c] = "announce"]
      /\ UNCHANGED <<call, sent>>
  BY <1>1, <1>2 DEF InsertSession, Goto, link
<1>4. /\ pc'[c] = "announce" /\ \A d \in Conns : d # c => pc'[d] = pc[d]
      /\ \A d \in Conns : pc'[d] # "withdraw" /\ pc[d] # "withdraw"
      /\ \A d \in Conns : pc'[d] = "announce" => d = c
  BY <1>1, <1>3, OnlyHolderSends DEF IInv, TypeOK
<1>5. Keeps
  <2>1. \A d \in Conns, i \in Ids : ToBegin(d, i)' => i = id
    BY <1>1, <1>3, <1>4 DEF ToBegin
  <2>2. \A d \in Conns, i \in Ids : ~ToEnd(d, i)'
    BY <1>4 DEF ToEnd
  <2>3. id < id + 1 /\ id <= id + 1 /\ ~(id < id)
    BY <1>1 DEF Ids
  <2>4. \A i \in Ids : i < id => idToUser'[i] = idToUser[i]
    BY <1>3, <2>3 DEF IInv, TypeOK
  <2>5. \A d \in Conns, i \in Ids : i < id /\ ToBegin(d, i)' => ToBegin(d, i)
    BY <2>1, <2>3, Zenon
  <2>6. nextFreeToken <= nextFreeToken'
    BY <1>3, <2>3
  <2> QED
    BY <2>2, <2>4, <2>5, <2>6 DEF Keeps
<1>6. \A i \in Ids : idToUser'[i] = NoUser => idToUser[i] = NoUser
  BY <1>1, <1>3, NoUserAssumption DEF IInv, TypeOK
<1>7. Accounts
  BY <1>4, <1>6 DEF Accounts, ToEnd
<1>8. EndInv' /\ NoneRefused'
  BY <1>3, <1>4 DEF EndInv, NoneRefused
<1> QED
  BY <1>3, <1>5, <1>7, <1>8 DEF Tells, Sends

LEMMA WithdrawTells ==
  ASSUME IInv, NoneRefused, EndInv, NEW c \in Conns, Withdraw(c) PROVE Tells
<1>1. pc[c] = "withdraw" /\ UNCHANGED <<tables, nextFreeToken, call>>
  BY DEF Withdraw, counts
<1>2. PICK i \in Ids : i < nextFreeToken /\ idToUser[i] = NoUser /\ ToEnd(c, i)
  BY <1>1 DEF EndInv
<1>3. [kind |-> "ClientDisconnect", body |-> call[c].old] = Ended(i)
  BY <1>2 DEF ToEnd, Ended
<1> DEFINE next == IF call[c].op = "login" THEN "insert" ELSE "answer"
<1>4. SendToControl(c, "ClientDisconnect", call[c].old, next)
  BY DEF Withdraw
<1>5. NoneRefused'
  BY <1>1 DEF NoneRefused
<1>6. CASE status' = "crashed" /\ UNCHANGED <<link, pc>>
  BY <1>1, <1>5, <1>6, QuietTells DEF link
<1>7. CASE Goto(c, next)
  <2>1. pc'[c] \notin {"withdraw", "announce"} /\ \A d \in Conns : d # c => pc'[d] = pc[d]
    BY <1>7 DEF Goto, IInv, TypeOK
  <2>2. \A d \in Conns : pc'[d] \notin {"withdraw", "announce"}
    BY <1>1, <2>1, OnlyHolderSends
  <2>3. \A d \in Conns, j \in Ids : ToEnd(d, j) => d = c /\ j = i
    BY <1>1, <1>2, OnlyHolderSends DEF ToEnd
  <2>4. Keeps
    BY <1>1, <2>2 DEF Keeps, ToEnd, ToBegin, tables, IInv, TypeOK
  <2>5. EndInv'
    BY <2>2 DEF EndInv
  <2>6. sent' = sent \/ sent' = Append(sent, Ended(i))
    BY <1>3, <1>4 DEF SendToControl, link
  <2>7. Sends
    BY <1>1, <1>2, <2>2, <2>6 DEF Sends, tables
  <2>8. sent' = Append(sent, Ended(i)) \/ control \in {"never", "broken"} \/ status' = "crashed"
    BY <1>3, <1>4 DEF SendToControl, controlConnected
  <2>9. Accounts
    BY <1>1, <2>3, <2>8 DEF Accounts, tables
  <2> QED
    BY <1>5, <2>4, <2>5, <2>7, <2>9 DEF Tells
<1> QED
  BY <1>4, <1>6, <1>7 DEF SendToControl

LEMMA AnnounceTells ==
  ASSUME IInv, LiveInv, NoneRefused, EndInv, NEW c \in Conns, Announce(c) PROVE Tells
<1> DEFINE i == call[c].new[1]
<1>1. pc[c] = "announce" /\ UNCHANGED <<tables, nextFreeToken, call>>
  BY DEF Announce, counts
<1>2. call[c].op = "login" /\ call[c].code = 0 /\ call[c].new \in Pairs
  BY <1>1, CallsType DEF IInv, TypeOK, CallInv, NoneRefused
<1>3. i \in Ids /\ i < nextFreeToken
  BY <1>1, <1>2 DEF IInv, TypeOK, LoginInv, Ids
<1>4. idToUser[i] # NoUser /\ userToken[i] = call[c].new[2]
  BY <1>1, <1>2, <1>3, NoConnAssumption DEF LiveInv, Owed, IInv, SessionTablesAgree, IdsAgree
<1>5. call[c].new = <<i, i>>
  <2>1. call[c].new[2] = i
    BY <1>3, <1>4, SessionOf
  <2> QED
    BY <1>2, <2>1 DEF Pairs
<1> HIDE DEF i
<1>6. [kind |-> "NewClient", body |-> call[c].new] = Began(i)
  BY <1>5 DEF Began
<1>7. SendToControl(c, "NewClient", call[c].new, "answer")
  BY DEF Announce
<1>8. NoneRefused'
  BY <1>1 DEF NoneRefused
<1>9. CASE status' = "crashed" /\ UNCHANGED <<link, pc>>
  BY <1>1, <1>8, <1>9, QuietTells DEF link
<1>10. CASE Goto(c, "answer")
  <2>1. pc'[c] = "answer" /\ \A d \in Conns : d # c => pc'[d] = pc[d]
    BY <1>10 DEF Goto, IInv, TypeOK
  <2>2. \A d \in Conns : pc'[d] \notin {"withdraw", "announce"} /\ pc[d] # "withdraw"
    BY <1>1, <2>1, OnlyHolderSends
  <2>3. Keeps
    BY <1>1, <2>2 DEF Keeps, ToEnd, ToBegin, tables, IInv, TypeOK
  <2>4. EndInv'
    BY <2>2 DEF EndInv
  <2>5. sent' = sent \/ sent' = Append(sent, Began(i))
    BY <1>6, <1>7 DEF SendToControl, link
  <2>6. Sends
    BY <1>1, <1>3, <1>4, <1>5, <2>2, <2>5 DEF Sends, ToBegin, tables
  <2>7. Accounts
    BY <1>1, <2>2 DEF Accounts, ToEnd, tables
  <2> QED
    BY <1>8, <2>3, <2>4, <2>6, <2>7 DEF Tells
<1> QED
  BY <1>7, <1>9, <1>10 DEF SendToControl

(* If no login is refused, every step of the login server tells Control    *)
(* what it should.                                                         *)
LEMMA EveryStepTells ==
  ASSUME ~WrongPasswords, IInv, LiveInv, NoneRefused, EndInv, Next PROVE Tells
BY RestTells, LoginAcceptedTells, LogoutTells, CallOnCloseTells, InsertSessionTells,
   WithdrawTells, AnnounceTells DEF Next, Handler, LoginRefused

(* Two messages of one kind are of two sessions, and so are the two kinds. *)
LEMMA MessagesDiffer ==
  \A i, j \in Ids : /\ Began(i) # Ended(j)
                    /\ Began(i) = Began(j) => i = j
                    /\ Ended(i) = Ended(j) => i = j
                    /\ Began(i).kind = "NewClient" /\ Ended(i).kind = "ClientDisconnect"
                    /\ Began(i).body = Ended(j).body => i = j
                    /\ Began(i).body = Began(j).body => i = j
                    /\ Ended(i).body = Ended(j).body => i = j
BY DEF Began, Ended

(* Of one session nothing is sent after its ClientDisconnect, and nothing  *)
(* but that after its NewClient.                                           *)
LEMMA OrderStep ==
  ASSUME ~WrongPasswords, IInv, IInv', LiveInv, OrderInv, [Next]_vars PROVE OrderInv'
<1>1. CASE UNCHANGED vars
  <2> USE <1>1 DEF vars, tables, counts, link
  <2>1. NoneRefused' /\ EndInv'
    BY DEF OrderInv, NoneRefused, EndInv, ToEnd
  <2>2. MessageInv'
    BY DEF OrderInv, MessageInv, ToBegin, ToEnd
  <2>3. AnnouncedInOrder'
    BY DEF OrderInv, AnnouncedInOrder
  <2> QED
    BY <2>1, <2>2, <2>3 DEF OrderInv
<1>2. CASE Next
  <2>1. Keeps /\ Sends /\ NoneRefused' /\ EndInv'
    BY <1>2, EveryStepTells DEF Tells, OrderInv
  <2>2. /\ sent \in Seq(Messages) /\ nextFreeToken \in Int /\ nextFreeToken' \in Int
        /\ Ids \subseteq Int
    BY DEF IInv, TypeOK, Ids
  <2> DEFINE Belongs(m) == \E i \in Ids :
                /\ i < nextFreeToken
                /\ \/ m = Began(i) /\ \A c \in Conns : ~ToBegin(c, i)
                   \/ /\ m = Ended(i) /\ idToUser[i] = NoUser
                      /\ \A c \in Conns : ~ToEnd(c, i)
  <2> DEFINE BelongsNext(m) == \E i \in Ids :
                /\ i < nextFreeToken'
                /\ \/ m = Began(i) /\ \A c \in Conns : ~ToBegin(c, i)'
                   \/ /\ m = Ended(i) /\ idToUser'[i] = NoUser
                      /\ \A c \in Conns : ~ToEnd(c, i)'
  <2>3. ASSUME NEW m, Belongs(m) PROVE BelongsNext(m)
    <3>1. PICK i \in Ids :
             /\ i < nextFreeToken
             /\ \/ m = Began(i) /\ \A c \in Conns : ~ToBegin(c, i)
                \/ /\ m = Ended(i) /\ idToUser[i] = NoUser
                   /\ \A c \in Conns : ~ToEnd(c, i)
      BY <2>3
    <3>2. i < nextFreeToken'
      BY <2>1, <2>2, <3>1 DEF Keeps
    <3>3. (\A c \in Conns : ~ToBegin(c, i)) => \A c \in Conns : ~ToBegin(c, i)'
      BY <2>1, <3>1 DEF Keeps
    <3>4. idToUser[i] = NoUser /\ (\A c \in Conns : ~ToEnd(c, i))
             => idToUser'[i] = NoUser /\ \A c \in Conns : ~ToEnd(c, i)'
      BY <2>1, <3>1 DEF Keeps
    <3> QED
      BY <3>1, <3>2, <3>3, <3>4
  <2>4. \A k \in 1 .. Len(sent) : Belongs(sent[k])
    BY DEF OrderInv, MessageInv
  <2>5. ASSUME \A k \in 1 .. Len(sent') : BelongsNext(sent'[k]) PROVE MessageInv'
    BY <2>5 DEF MessageInv
  <2>6. \A j, k \in 1 .. Len(sent) :
           j < k /\ sent[j].body = sent[k].body
              => sent[j].kind = "NewClient" /\ sent[k].kind = "ClientDisconnect"
    BY <2>2 DEF OrderInv, AnnouncedInOrder
  <2>7. ASSUME \A j, k \in 1 .. Len(sent') :
                  j < k /\ sent'[j].body = sent'[k].body
                     => sent'[j].kind = "NewClient" /\ sent'[k].kind = "ClientDisconnect"
        PROVE  AnnouncedInOrder'
    <3>1. DOMAIN sent' = 1 .. Len(sent')
      BY DEF IInv, TypeOK
    <3> QED
      BY <2>7, <3>1 DEF AnnouncedInOrder
  <2>8. CASE sent' = sent
    BY <2>1, <2>3, <2>4, <2>5, <2>6, <2>7, <2>8, Zenon DEF OrderInv
  <2> DEFINE n == Len(sent)
  <2>9. ASSUME NEW m, sent' = Append(sent, m), BelongsNext(m),
               \A k \in 1 .. n : sent[k].body = m.body
                  => sent[k].kind = "NewClient" /\ m.kind = "ClientDisconnect"
        PROVE  OrderInv'
    <3>1. /\ n \in Nat /\ Len(sent') = n + 1 /\ sent'[n + 1] = m
          /\ \A k \in 1 .. n : sent'[k] = sent[k]
      BY <2>2, <2>9
    <3>2. \A k \in 1 .. Len(sent') : k \in 1 .. n \/ k = n + 1
      BY <3>1
    <3> HIDE DEF BelongsNext, Belongs, n
    <3>3. \A k \in 1 .. Len(sent') : BelongsNext(sent'[k])
      BY <2>3, <2>4, <2>9, <3>1, <3>2 DEF n
    <3>4. ASSUME NEW j \in 1 .. Len(sent'), NEW k \in 1 .. Len(sent'), j < k,
                 sent'[j].body = sent'[k].body
          PROVE  sent'[j].kind = "NewClient" /\ sent'[k].kind = "ClientDisconnect"
      <4>1. j \in 1 .. n /\ (k \in 1 .. n \/ k = n + 1)
        BY <3>1, <3>4
      <4>2. CASE k \in 1 .. n
        BY <2>6, <3>1, <3>4, <4>1, <4>2 DEF n
      <4>3. CASE k = n + 1
        BY <2>9, <3>1, <3>4, <4>1, <4>3
      <4> QED
        BY <4>1, <4>2, <4>3
    <3> QED
      BY <2>1, <2>5, <2>7, <3>3, <3>4 DEF OrderInv
  <2>10. ASSUME NEW c \in Conns, NEW i \in Ids,
                ToBegin(c, i), idToUser[i] # NoUser, i < nextFreeToken,
                sent' = Append(sent, Began(i)), \A d \in Conns : pc'[d] # "announce"
         PROVE  OrderInv'
    <3>1. BelongsNext(Began(i))
      <4>1. \A d \in Conns : ~ToBegin(d, i)'
        BY <2>10 DEF ToBegin
      <4>2. i < nextFreeToken'
        BY <2>1, <2>2, <2>10 DEF Keeps
      <4> QED
        BY <4>1, <4>2
    <3>2. \A k \in 1 .. n : sent[k].body # Began(i).body
      BY <2>4, <2>10, MessagesDiffer
    <3> QED
      BY <2>9, <2>10, <3>1, <3>2
  <2>11. ASSUME NEW c \in Conns, NEW i \in Ids,
                ToEnd(c, i), idToUser[i] = NoUser, i < nextFreeToken,
                sent' = Append(sent, Ended(i)), \A d \in Conns : pc'[d] # "withdraw",
                idToUser' = idToUser
         PROVE  OrderInv'
    <3>1. BelongsNext(Ended(i))
      <4>1. \A d \in Conns : ~ToEnd(d, i)'
        BY <2>11 DEF ToEnd
      <4>2. i < nextFreeToken'
        BY <2>1, <2>2, <2>11 DEF Keeps
      <4> QED
        BY <2>11, <4>1, <4>2
    <3>2. \A k \in 1 .. n : sent[k].body = Ended(i).body =>
             sent[k].kind = "NewClient" /\ Ended(i).kind = "ClientDisconnect"
      BY <2>4, <2>11, MessagesDiffer
    <3> QED
      BY <2>9, <2>11, <3>1, <3>2
  <2> QED
    BY <2>1, <2>8, <2>10, <2>11 DEF Sends
<1> QED
  BY <1>1, <1>2

LEMMA LiveAlways == Spec => []LiveInv
<1>1. Init => LiveInv
  BY DEF Init, LiveInv, Owed
<1>2. IInv /\ LiveInv /\ [Next]_vars => LiveInv'
  <2>1. IInv /\ LiveInv /\ UNCHANGED vars => LiveInv'
    BY DEF vars, LiveInv, Owed, tables
  <2> QED
    BY <2>1, LiveStep
<1> QED
  BY IInvAlways, <1>1, <1>2, PTL DEF Spec

LEMMA InitOrder == Init => OrderInv
BY DEF Init, OrderInv, NoneRefused, EndInv, MessageInv, AnnouncedInOrder, NoCall, Call

(* If the login server refuses no login, Control hears of one session at   *)
(* most that it began and then that it ended, whatever handlers interleave *)
(* and however often the link to Control breaks (LoginRequest.cpp:73 and   *)
(* LogoutRequest.cpp:47, both under loginMutex).                           *)
THEOREM AlwaysAnnouncedInOrder ==
  ASSUME ~WrongPasswords PROVE Spec => []AnnouncedInOrder
<1>1. Init => OrderInv
  BY InitOrder
<1>2. IInv /\ IInv' /\ LiveInv /\ OrderInv /\ [Next]_vars => OrderInv'
  BY OrderStep
<1>3. OrderInv => AnnouncedInOrder
  BY DEF OrderInv
<1> QED
  BY IInvAlways, LiveAlways, <1>1, <1>2, <1>3, PTL DEF Spec
=============================================================================
