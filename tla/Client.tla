------------------------------- MODULE Client -------------------------------
(***************************************************************************)
(* The client (cliente): one process, which logs in once and ends          *)
(* (main.cpp).  The main thread asks and polls mIsOnLogin until a listener *)
(* thread clears it or ten seconds are over, and then deletes the Client,  *)
(* connections included.  The listener of the link to the login server     *)
(* runs LoginRequestRcvd::exec, which opens the link to the router; the    *)
(* listener of that one runs ConnectCLientReceived::exec.  The three share *)
(* the members of Client, which no mutex protects.                         *)
(*                                                                         *)
(* Of the servers there is what the handlers see: at most one answer to    *)
(* the request, a router that accepts or not, at most one confirmation.    *)
(* A server may leave any call of this process without an answer for good: *)
(* the TLS handshake, a read, and the SSL_shutdown that waits for its      *)
(* close_notify return for certain only when it is gone.  The rest of a    *)
(* closing is in Connection: here it is a link marked closed, that wait,   *)
(* and the join of the listener.                                           *)
(***************************************************************************)
CONSTANTS Id, NoId          \* the id the login server gives, and -1

ASSUME IdAssumption == Id # NoId

VARIABLES
    main,           \* where the main thread is
    login, router,  \* where the two listener threads are
    mLogin,         \* the link to the login server: "null", "up" or "closed"
    mRouter,        \* Client::mRouter, and whether it was closed
    mIsOnLogin, mBadLogOn, mUserId,
    requested,      \* the login server has a request to answer
    greeted,        \* the router has a ConnectClient to confirm
    answer,         \* the answer that came: "none", "right" or "wrong"
    reached,        \* of the router: "unknown", "no", "yes" or "confirmed"
    gone,           \* the servers whose process has ended
    result          \* what login() has told

flags   == <<mIsOnLogin, mBadLogOn, mUserId>>
links   == <<mLogin, mRouter>>
peers   == <<requested, greeted, answer, reached, gone>>
vars    == <<main, login, router, flags, links, peers, result>>

Servers == {"login server", "router"}

Deleting == {"delete login", "shut login", "join login",
             "delete router", "shut router", "join router"}

Init ==
    /\ main = "connect"
    /\ login = "none" /\ router = "none"
    /\ mLogin = "null" /\ mRouter = "null"
    /\ mIsOnLogin = FALSE /\ mBadLogOn = FALSE /\ mUserId = NoId
    /\ requested = FALSE /\ greeted = FALSE
    /\ answer = "none" /\ reached = "unknown"
    /\ gone = {}
    /\ result = "none"

-----------------------------------------------------------------------------
(* The main thread. *)

SetLoginAddress ==
    /\ main = "connect"
    /\ \/ /\ "login server" \notin gone
          /\ mLogin' = "up" /\ login' = "idle"
          /\ main' = "ask"
          /\ UNCHANGED result
       \/ /\ result' = "no server"
          /\ main' = "delete login"
          /\ UNCHANGED <<mLogin, login>>
    /\ UNCHANGED <<router, flags, mRouter, peers>>

(* login() up to the send.  On a link that is down nothing is sent, and    *)
(* nothing is said of it.                                                  *)
Ask ==
    /\ main = "ask"
    /\ mIsOnLogin' = TRUE
    /\ main' = "send"
    /\ UNCHANGED <<login, router, mBadLogOn, mUserId, links, peers, result>>

SendRequest ==
    /\ main = "send"
    /\ requested' = (login # "over" /\ "login server" \notin gone)
    /\ main' = "wait"
    /\ UNCHANGED <<login, router, flags, links, greeted, answer, reached, gone, result>>

SeesTheEnd ==
    /\ main = "wait" /\ ~mIsOnLogin
    /\ main' = "judge"
    /\ UNCHANGED <<login, router, flags, links, peers, result>>

(* Variant of TimesOut: the difference of the times has the wrong sign.    *)
TimesOutNever ==
    /\ main = "wait" /\ mIsOnLogin
    /\ UNCHANGED vars

(* Ten seconds are over; a handler may still come between this test and    *)
(* the isOnLogin(false) of the next step.                                  *)
TimesOut ==
    /\ main = "wait" /\ mIsOnLogin
    /\ main' = "late"
    /\ UNCHANGED <<login, router, flags, links, peers, result>>

GivesUp ==
    /\ main = "late"
    /\ mIsOnLogin' = FALSE
    /\ result' = "timeout"
    /\ main' = "delete login"
    /\ UNCHANGED <<login, router, mBadLogOn, mUserId, links, peers>>

(* init() finds no game: mGame is assigned in setZone only, and setZone    *)
(* returns at once while there is none.  So login() never returns true.    *)
Judge ==
    /\ main = "judge"
    /\ result' = IF mBadLogOn THEN "refused" ELSE "no game"
    /\ main' = "delete login"
    /\ UNCHANGED <<login, router, flags, links, peers>>

(* Variant of DeleteLogin: the thread is not joined. *)
DeleteLoginOnly ==
    /\ main = "delete login"
    /\ mLogin' = IF mLogin = "up" THEN "closed" ELSE mLogin
    /\ main' = "delete router"
    /\ UNCHANGED <<login, router, flags, mRouter, peers, result>>

(* ~Client: the login link first, and the listener that may be opening the *)
(* other link at this moment, so that mRouter is not read too early.  A    *)
(* link that is online is shut down before its listener is joined.         *)
DeleteLogin ==
    /\ main = "delete login"
    /\ mLogin' = IF mLogin = "up" THEN "closed" ELSE mLogin
    /\ main' = CASE mLogin = "null" -> "delete router"
                 [] mLogin # "null" /\ login = "over" -> "join login"
                 [] OTHER -> "shut login"
    /\ UNCHANGED <<login, router, flags, mRouter, peers, result>>

(* SSL_shutdown returns: the close_notify of the server came, or an error. *)
ShutLogin ==
    /\ main = "shut login"
    /\ main' = "join login"
    /\ UNCHANGED <<login, router, flags, links, peers, result>>

JoinLogin ==
    /\ main = "join login" /\ login = "over"
    /\ main' = "delete router"
    /\ UNCHANGED <<login, router, flags, links, peers, result>>

DeleteRouter ==
    /\ main = "delete router"
    /\ mRouter' = IF mRouter = "up" THEN "closed" ELSE mRouter
    /\ main' = CASE mRouter = "null" -> "exit"
                 [] mRouter # "null" /\ router = "over" -> "join router"
                 [] OTHER -> "shut router"
    /\ UNCHANGED <<login, router, flags, mLogin, peers, result>>

ShutRouter ==
    /\ main = "shut router"
    /\ main' = "join router"
    /\ UNCHANGED <<login, router, flags, links, peers, result>>

JoinRouter ==
    /\ main = "join router" /\ router = "over"
    /\ main' = "exit"
    /\ UNCHANGED <<login, router, flags, links, peers, result>>

Main ==
    \/ SetLoginAddress \/ Ask \/ SendRequest \/ SeesTheEnd \/ TimesOut
    \/ GivesUp \/ Judge
    \/ DeleteLogin \/ ShutLogin \/ JoinLogin
    \/ DeleteRouter \/ ShutRouter \/ JoinRouter

-----------------------------------------------------------------------------
(* The listener of the link to the login server. *)

LoginAnswers ==
    /\ login = "idle" /\ requested
    /\ requested' = FALSE
    /\ \/ answer' = "wrong" /\ login' = "refuse"
       \/ answer' = "right" /\ login' = "accept"
    /\ UNCHANGED <<main, router, flags, links, greeted, reached, gone, result>>

(* LoginRequestRcvd::exec, with mAnswerCode # 0 ... *)

(* Variant of Refuse: the main thread is released before it is told. *)
RefuseLate ==
    /\ \/ /\ login = "refuse"
          /\ mIsOnLogin' = FALSE
          /\ login' = "refused"
          /\ UNCHANGED mBadLogOn
       \/ /\ login = "refused"
          /\ mBadLogOn' = TRUE
          /\ login' = "idle"
          /\ UNCHANGED mIsOnLogin
    /\ UNCHANGED <<main, router, mUserId, links, peers, result>>

Refuse ==
    /\ login = "refuse"
    /\ mBadLogOn' = TRUE
    /\ login' = "release"
    /\ UNCHANGED <<main, router, mIsOnLogin, mUserId, links, peers, result>>

Release ==
    /\ login = "release"
    /\ mIsOnLogin' = FALSE
    /\ login' = "idle"
    /\ UNCHANGED <<main, router, mBadLogOn, mUserId, links, peers, result>>

(* ... and with 0. *)
Accept ==
    /\ login = "accept"
    /\ mBadLogOn' = FALSE
    /\ login' = "identify"
    /\ UNCHANGED <<main, router, mIsOnLogin, mUserId, links, peers, result>>

Identify ==
    /\ login = "identify"
    /\ mUserId' = Id
    /\ login' = "dial"
    /\ UNCHANGED <<main, router, mIsOnLogin, mBadLogOn, links, peers, result>>

(* Variant of Dial: it does not return when the router is not reached.     *)
DialOn ==
    /\ login = "dial"
    /\ \/ "router" \notin gone /\ reached' = "yes" /\ router' = "idle"
       \/ reached' = "no" /\ UNCHANGED router
    /\ login' = "install"
    /\ UNCHANGED <<main, flags, links, requested, greeted, answer, gone, result>>

(* connect() starts the listener of the new link. *)
Dial ==
    /\ login = "dial"
    /\ \/ /\ "router" \notin gone
          /\ reached' = "yes" /\ router' = "idle" /\ login' = "install"
       \/ reached' = "no" /\ login' = "release" /\ UNCHANGED router
    /\ UNCHANGED <<main, flags, links, requested, greeted, answer, gone, result>>

(* routerConnection; it is the first, so there is none to close before.    *)
Install ==
    /\ login = "install"
    /\ mRouter' = "up"
    /\ login' = "greet"
    /\ UNCHANGED <<main, router, flags, mLogin, peers, result>>

Greet ==
    /\ login = "greet"
    /\ greeted' = (router # "over" /\ "router" \notin gone)
    /\ login' = "idle"
    /\ UNCHANGED <<main, router, flags, links, requested, answer, reached, gone, result>>

(* The link is lost, or closed by this side. *)
LoginStops ==
    /\ login = "idle"
    /\ login' = "over"
    /\ UNCHANGED <<main, router, flags, links, peers, result>>

LoginHandler ==
    \/ Refuse \/ Release \/ Accept \/ Identify \/ Dial \/ Install \/ Greet

-----------------------------------------------------------------------------
(* The listener of the link to the router. *)

RouterConfirms ==
    /\ router = "idle" /\ greeted
    /\ greeted' = FALSE
    /\ reached' = "confirmed"
    /\ router' = "test"
    /\ UNCHANGED <<main, login, flags, links, requested, answer, gone, result>>

(* ConnectCLientReceived::exec; setZone does nothing, see Judge. *)
TestConfirmation ==
    /\ router = "test"
    /\ router' = IF mUserId = Id /\ mIsOnLogin THEN "end" ELSE "idle"
    /\ UNCHANGED <<main, login, flags, links, peers, result>>

EndLogin ==
    /\ router = "end"
    /\ mIsOnLogin' = FALSE
    /\ router' = "idle"
    /\ UNCHANGED <<main, login, mBadLogOn, mUserId, links, peers, result>>

RouterStops ==
    /\ router = "idle"
    /\ router' = "over"
    /\ UNCHANGED <<main, login, flags, links, peers, result>>

RouterHandler == TestConfirmation \/ EndLogin

-----------------------------------------------------------------------------
(* The process of a server ends, and with it the link. *)
ServerGoes(s) ==
    /\ s \notin gone
    /\ gone' = gone \cup {s}
    /\ UNCHANGED <<main, login, router, flags, links,
                   requested, greeted, answer, reached, result>>

Next ==
    \/ Main
    \/ LoginAnswers \/ LoginHandler \/ LoginStops
    \/ RouterConfirms \/ RouterHandler \/ RouterStops
    \/ \E s \in Servers : ServerGoes(s)

Spec == Init /\ [][Next]_vars

(* A thread is in a call that only the server at the other end can end:    *)
(* the connect and handshake of main and of the login listener, and the    *)
(* SSL_shutdown of main.                                                   *)
MainWaits ==
    \/ main \in {"connect", "shut login"} /\ "login server" \notin gone
    \/ main = "shut router" /\ "router" \notin gone

DialWaits == login = "dial" /\ "router" \notin gone

(* The threads of this process run.  Of a server nothing is asked, but     *)
(* that the calls of OpenSSL see the end of its process.                   *)
FairSpec ==
    /\ Spec
    /\ WF_vars(~MainWaits /\ Main)
    /\ WF_vars(~DialWaits /\ LoginHandler)
    /\ WF_vars(RouterHandler)
    /\ WF_vars("login server" \in gone /\ LoginStops)
    /\ WF_vars("router" \in gone /\ RouterStops)

-----------------------------------------------------------------------------
(* Properties. *)

Booleans ==
    /\ mIsOnLogin \in BOOLEAN /\ mBadLogOn \in BOOLEAN
    /\ requested \in BOOLEAN /\ greeted \in BOOLEAN

Kinds ==
    /\ main \in {"connect", "ask", "send", "wait", "late", "judge", "exit"} \cup Deleting
    /\ gone \subseteq Servers
    /\ login \in {"none", "idle", "refuse", "release", "accept", "identify",
                  "dial", "install", "greet", "over"}
    /\ router \in {"none", "idle", "test", "end", "over"}
    /\ mLogin \in {"null", "up", "closed"} /\ mRouter \in {"null", "up", "closed"}
    /\ mUserId \in {Id, NoId}
    /\ answer \in {"none", "right", "wrong"}
    /\ reached \in {"unknown", "no", "yes", "confirmed"}
    /\ result \in {"none", "no server", "timeout", "refused", "no game"}

(* Each variable has a value of its kind, and a router that could not be   *)
(* reached has neither a listener here nor a link (InstLogin.cpp:39-43).   *)
TypeOK ==
    /\ Booleans /\ Kinds
    /\ reached \in {"unknown", "no"} => router = "none" /\ mRouter = "null"

(* What login() says of the outcome is what happened: a refusal only when  *)
(* the login server refused, and a game that cannot start only after a     *)
(* right answer and a router that confirmed it or was out of reach         *)
(* (the flags of Client.cpp:170-183 are set on other threads).             *)
OutcomeIsTrue ==
    /\ result = "refused" => answer = "wrong"
    /\ result = "no game" => answer = "right" /\ reached \in {"no", "confirmed"}

(* No listener runs a handler, or ever will, once ~Client is through: the  *)
(* handlers use the object.  A link to the router that a late answer opens *)
(* while the object is being deleted is closed too (Client.cpp:104-110).   *)
NoHandlerAfterDelete ==
    main = "exit" =>
        /\ login \in {"none", "over"} /\ router \in {"none", "over"}
        /\ mLogin # "up" /\ mRouter # "up"

(* Main waits for a server: in its own call, or for a listener that does,  *)
(* in SSL_read or in the handshake with the router.                        *)
WaitsForServer ==
    \/ MainWaits
    \/ /\ main = "join login"
       /\ DialWaits \/ (login = "idle" /\ "login server" \notin gone)
    \/ main = "join router" /\ router = "idle" /\ "router" \notin gone

(* The process ends, answered or not (the ten seconds of Client.cpp:162),  *)
(* unless it waits for good in a call of OpenSSL on the link of a server   *)
(* that is still there (TCPConnectionSecurity.cpp:141-149, 192 and 352).   *)
(* Nothing else can keep it: no flag, handler or join.                     *)
ClientExits == <>[](main = "exit" \/ WaitsForServer)
=============================================================================
