--------------------------- MODULE Announcements ---------------------------
(***************************************************************************)
(* What the login server announces on its way through Control to the       *)
(* router: LoginServer, the two handlers of Control that pass a message on *)
(* (NewUserRcvd and DisconnectUserRcvd), and the table of users of Router. *)
(*                                                                         *)
(* Each link is a queue, read by one listener thread of its receiver, which*)
(* runs one message after the other.  When Control goes away, what it has  *)
(* not handled is lost, and the router's listener of its link may still    *)
(* have messages to read while that of the next Control's link reads too.  *)
(* Control runs on when its link to the router fails, and even when it     *)
(* never came up; what it sends then is lost.                              *)
(*                                                                         *)
(* Control gives the router users only, so its tables of zones and of      *)
(* servers stay empty (Control.cpp:231 and 251 are commented out), and the *)
(* setUserToZone that follows an addUser finds no zone.                    *)
(***************************************************************************)
EXTENDS LoginServer

VARIABLES
    done,           \* how many of the messages in sent Control has handled
    toRouter,       \* on the link from Control to the router
    stale,          \* on the link that an earlier Control had
    routerUp,       \* does Control's link to the router carry messages?
    mUsers, live, routerToken, routerStatus,    \* of the router, see Router
    vanished,       \* history: the sessions that ended with their connection
    lost,           \* history: the messages that never reach the router
    overtaken       \* history: the sessions whose end the router read on
                    \* one link before their beginning on the other

transit == <<done, toRouter, stale, routerUp>>
router  == <<mUsers, live, routerToken, routerStatus>>
history == <<vanished, lost, overtaken>>
systemVars == <<vars, transit, router, history>>

R == INSTANCE Router WITH
        Users <- Ids, Tokens <- Ids, Zones <- {}, Servers <- {},
        Links <- {}, Clients <- {},
        token <- routerToken, status <- routerStatus,
        zoneOf <- [i \in Ids |-> NoId], usersIn <- <<>>,
        mZones <- {}, server <- <<>>, newServer <- <<>>, inTransfer <- {},
        mServers <- {}, zonesOf <- <<>>, connected <- {},
        todo <- <<>>, args <- <<>>, held <- <<>>, closed <- {}

SystemInit ==
    /\ Init
    /\ done = 0 /\ toRouter = <<>> /\ stale = <<>>
    /\ routerUp = FALSE
    /\ mUsers = {} /\ live = {}
    /\ routerToken = [i \in Ids |-> NoId]
    /\ routerStatus = "running"
    /\ vanished = {} /\ lost = {} /\ overtaken = {}

-----------------------------------------------------------------------------
(* The login server.  Its handlers end a session without a message in      *)
(* callOnClose only, and write to a Control that is gone before they know. *)

Sending(c) ==
    IF pc[c] = "withdraw" THEN [kind |-> "ClientDisconnect", body |-> call[c].old]
    ELSE [kind |-> "NewClient", body |-> call[c].new]

LoginHandler(c) ==
    /\ status = "running"
    /\ Handler(c)
    /\ vanished' = IF pc[c] = "closing" THEN vanished \cup ({connToId[c]} \ {NoId})
                   ELSE vanished
    /\ lost' = IF pc[c] \in {"withdraw", "announce"} /\ control = "broken"
                 THEN lost \cup {Sending(c)} ELSE lost
    /\ UNCHANGED <<transit, router, overtaken>>

LoginInput ==
    /\ status = "running"
    /\ (\E c \in Conns : Arrival(c)) \/ ControlCloses
    /\ UNCHANGED <<transit, router, history>>

(* A Control connects to the game servers, to login and to the router, in  *)
(* that order, and goes on without those that it cannot reach; login hears *)
(* of it after that.                                                       *)
ControlArrives ==
    /\ status = "running"
    /\ ControlConnection
    /\ IF control' = "up" THEN routerUp' \in BOOLEAN ELSE UNCHANGED routerUp
    /\ UNCHANGED <<done, toRouter, stale, router, history>>

-----------------------------------------------------------------------------
(* Control. *)

(* Variant of ControlForwards: each message has a thread of its own, and   *)
(* the second may be handled first.                                        *)
ControlForwardsAny ==
    /\ control = "up" /\ routerUp
    /\ done < Len(sent)
    /\ done' = done + 1
    /\ \/ toRouter' = Append(toRouter, sent[done + 1])
       \/ toRouter' = <<sent[done + 1]>> \o toRouter
    /\ UNCHANGED <<vars, stale, routerUp, router, history>>

(* NewUserRcvd::exec and DisconnectUserRcvd::exec: the message goes on as  *)
(* RouterNewUser or RouterDeleteUser, or is lost on a link that is down.   *)
(* The zone of the user, which Control looks up, and the message to the    *)
(* game server are not of interest here; when they bring Control down, it  *)
(* is a ControlGoes.                                                       *)
ControlForwards ==
    /\ control = "up"
    /\ done < Len(sent)
    /\ done' = done + 1
    /\ IF routerUp
         THEN toRouter' = Append(toRouter, sent[done + 1]) /\ UNCHANGED lost
         ELSE lost' = lost \cup {sent[done + 1]} /\ UNCHANGED toRouter
    /\ UNCHANGED <<vars, stale, routerUp, router, vanished, overtaken>>

(* Of what was sent to the router the end is lost, all but n messages. *)
LostAfter(n) == {toRouter[k] : k \in n + 1 .. Len(toRouter)}

(* The link to the router fails. *)
RouterLinkBreaks ==
    /\ control = "up" /\ routerUp
    /\ routerUp' = FALSE
    /\ \E n \in 0 .. Len(toRouter) :
         /\ toRouter' = SubSeq(toRouter, 1, n)
         /\ lost' = lost \cup LostAfter(n)
    /\ UNCHANGED <<vars, done, stale, router, vanished, overtaken>>

(* Control is gone with what it has not handled: a failure, or its write   *)
(* through the NULL ssl of a router link that it has closed.  Bound: the   *)
(* router has read the link of the Control before.                         *)
ControlGoes ==
    /\ status = "running"
    /\ ControlBreaks
    /\ stale = <<>>
    /\ done' = Len(sent)
    /\ \E n \in 0 .. Len(toRouter) :
         /\ stale' = SubSeq(toRouter, 1, n)
         /\ lost' = lost \cup LostAfter(n) \cup {sent[k] : k \in done + 1 .. Len(sent)}
    /\ toRouter' = <<>>
    /\ routerUp' = FALSE
    /\ UNCHANGED <<router, vanished, overtaken>>

-----------------------------------------------------------------------------
(* The router: AddUserRcvd::exec and DelUserRcvd::exec. *)

Exec(message) ==
    IF message.kind = "NewClient" THEN R!AddUser(message.body[1], message.body[2])
    ELSE R!DelUser(NoConn, message.body[1])

(* Variant of RouterReads: what has come together is taken for one message.*)
RouterReadsOne ==
    /\ routerStatus = "running"
    /\ toRouter # <<>>
    /\ Exec(Head(toRouter))
    /\ toRouter' = <<>>
    /\ UNCHANGED <<vars, done, stale, routerUp, history>>

RouterReads ==
    /\ routerStatus = "running"
    /\ toRouter # <<>>
    /\ Exec(Head(toRouter))
    /\ toRouter' = Tail(toRouter)
    /\ overtaken' =
         IF /\ Head(toRouter).kind = "ClientDisconnect"
            /\ \E k \in DOMAIN stale : stale[k].body = Head(toRouter).body
           THEN overtaken \cup {Head(toRouter).body[1]} ELSE overtaken
    /\ UNCHANGED <<vars, done, stale, routerUp, vanished, lost>>

RouterReadsStale ==
    /\ routerStatus = "running"
    /\ stale # <<>>
    /\ Exec(Head(stale))
    /\ stale' = Tail(stale)
    /\ UNCHANGED <<vars, done, toRouter, routerUp, history>>

-----------------------------------------------------------------------------
SystemNext ==
    \/ \E c \in Conns : LoginHandler(c)
    \/ LoginInput
    \/ ControlArrives \/ ControlForwards \/ ControlGoes
    \/ RouterLinkBreaks
    \/ RouterReads \/ RouterReadsStale

SystemSpec == SystemInit /\ [][SystemNext]_systemVars

(* The fairness of LoginServer, and listener threads that read on. *)
FairSystemSpec ==
    /\ SystemSpec
    /\ \A c \in Conns : SF_systemVars(LoginHandler(c))
    /\ WF_systemVars(ControlForwards)
    /\ WF_systemVars(RouterReads)
    /\ WF_systemVars(RouterReadsStale)

-----------------------------------------------------------------------------
(* Properties. *)

(* The users of the router are sessions that the login server gave, each   *)
(* with its token; one that was taken out has no session in any table; and *)
(* nothing that arrives, in whatever order two Controls sent it, makes the *)
(* router use a User it has deleted (Router.cpp:208 and 238, which look at *)
(* an entry without an object).                                            *)
RouterFollowsLogin ==
    /\ routerStatus = "running"
    /\ live \subseteq mUsers
    /\ mUsers \subseteq 0 .. nextFreeToken - 1
    /\ \A i \in mUsers : routerToken[i] = i
    /\ \A i \in mUsers \ live :
           idToUser[i] = NoUser /\ idToConn[i] = NoConn /\ userToken[i] = NoId

Beginning(i) == [kind |-> "NewClient", body |-> <<i, i>>]
Ending(i)    == [kind |-> "ClientDisconnect", body |-> <<i, i>>]

(* With no message under way, a user whom the router still has without a   *)
(* session is one whose connection was lost, of which callOnClose tells    *)
(* Control nothing (ClientClosedConnection.cpp:12), or one whose end was   *)
(* lost on the way or overtook its beginning: as long as the links carry   *)
(* what is written to them, nobody else is forgotten, whatever Controls    *)
(* come and go.                                                            *)
GhostsAreExplained ==
    /\ mutex = NoConn /\ status = "running"
    /\ done = Len(sent) /\ toRouter = <<>> /\ stale = <<>>
    => \A i \in live :
           idToUser[i] # NoUser \/ i \in vanished \/ Ending(i) \in lost \/ i \in overtaken

(* An announced session becomes a user of the router, unless the message   *)
(* was lost on a link or with a Control that went away.                    *)
AnnouncedIsRouted ==
    \A i \in Ids :
        (\E k \in DOMAIN sent : sent[k] = Beginning(i))
            ~> (i \in mUsers \/ Beginning(i) \in lost)
=============================================================================
