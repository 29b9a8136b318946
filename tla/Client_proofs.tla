---------------------------- MODULE Client_proofs ----------------------------
(***************************************************************************)
(* The safety properties of Client, from an inductive invariant: who may   *)
(* be where while the Client is deleted, and what the flags mean at each   *)
(* point of the handlers.                                                  *)
(***************************************************************************)
EXTENDS Client, TLAPS

(* While main is at a point of ~Client, the listeners it has joined are    *)
(* over, and the links it has yet to close are as setLoginAddress and      *)
(* routerConnection left them.                                             *)
TeardownInv ==
    /\ mLogin = "null" <=> login = "none"
    /\ main = "connect" => mLogin = "null"
    /\ mLogin = "closed" => main \in Deleting \cup {"exit"} /\ main # "delete login"
    /\ main \in {"delete router", "shut router", "join router", "exit"} =>
           login \in {"none", "over"} /\ mLogin # "up"
    /\ main \in {"shut login", "join login"} => mLogin = "closed"
    /\ main \in {"shut router", "join router"} => mRouter = "closed"
    /\ mRouter = "closed" => main \in {"shut router", "join router", "exit"}
    /\ main = "exit" => router \in {"none", "over"} /\ mRouter # "up"

(* A link to the router is installed by the handler that opened it. *)
RouterInv ==
    /\ router # "none" /\ mRouter = "null" => login = "install"
    /\ login = "none" => router = "none"
    /\ reached \in {"unknown", "no"} => router = "none" /\ mRouter = "null"
    /\ login \in {"install", "greet"} => router # "none"

(* There is one request and one answer. *)
AnswerInv ==
    /\ main \in {"connect", "ask", "send"} =>
           ~requested /\ login \in {"none", "idle", "over"} /\ answer = "none"
    /\ main = "send" => mIsOnLogin
    /\ requested => answer = "none"
    /\ reached # "unknown" => answer = "right"
    /\ login = "refuse" => answer = "wrong"
    /\ login \in {"accept", "identify", "dial", "install", "greet"} => answer = "right"
    /\ login \in {"accept", "identify", "dial"} => reached = "unknown"
    /\ router \in {"test", "end"} => reached = "confirmed"

(* What is known when mIsOnLogin is cleared by a handler. *)
Decided ==
    \/ answer = "wrong" /\ mBadLogOn
    \/ answer = "right" /\ reached \in {"no", "confirmed"}

FlagsInv ==
    /\ mBadLogOn => answer = "wrong"
    /\ login = "release" => Decided
    /\ main = "wait" /\ ~mIsOnLogin => Decided
    /\ main = "judge" => Decided

IInv ==
    /\ TypeOK
    /\ TeardownInv /\ RouterInv /\ AnswerInv /\ FlagsInv
    /\ OutcomeIsTrue

-----------------------------------------------------------------------------
(* A new process is in a state of the invariant. *)
LEMMA InitIInv == Init => IInv
BY DEF Init, IInv, TypeOK, Booleans, Kinds, TeardownInv, RouterInv, AnswerInv, FlagsInv,
       Decided, OutcomeIsTrue, Deleting

(* The Boolean variables stay Boolean. *)
LEMMA BooleanStep == Booleans /\ [Next]_vars => Booleans'
<1> SUFFICES ASSUME Booleans, [Next]_vars PROVE Booleans'
  OBVIOUS
<1> USE DEF Booleans, flags, links, peers
<1>1. CASE SetLoginAddress
  BY <1>1 DEF SetLoginAddress
<1>2. CASE Ask
  BY <1>2 DEF Ask
<1>3. CASE SendRequest
  BY <1>3 DEF SendRequest
<1>4. CASE SeesTheEnd
  BY <1>4 DEF SeesTheEnd
<1>5. CASE TimesOut
  BY <1>5 DEF TimesOut
<1>6. CASE GivesUp
  BY <1>6 DEF GivesUp
<1>7. CASE Judge
  BY <1>7 DEF Judge
<1>8. CASE DeleteLogin
  BY <1>8 DEF DeleteLogin
<1>9. CASE JoinLogin
  BY <1>9 DEF JoinLogin
<1>10. CASE DeleteRouter
  BY <1>10 DEF DeleteRouter
<1>11. CASE JoinRouter
  BY <1>11 DEF JoinRouter
<1>12. CASE LoginAnswers
  BY <1>12 DEF LoginAnswers
<1>13. CASE Refuse
  BY <1>13 DEF Refuse
<1>14. CASE Release
  BY <1>14 DEF Release
<1>15. CASE Accept
  BY <1>15 DEF Accept
<1>16. CASE Identify
  BY <1>16 DEF Identify
<1>17. CASE Dial
  BY <1>17 DEF Dial
<1>18. CASE Install
  BY <1>18 DEF Install
<1>19. CASE Greet
  BY <1>19 DEF Greet
<1>20. CASE LoginStops
  BY <1>20 DEF LoginStops
<1>21. CASE RouterConfirms
  BY <1>21 DEF RouterConfirms
<1>22. CASE TestConfirmation
  BY <1>22 DEF TestConfirmation
<1>23. CASE EndLogin
  BY <1>23 DEF EndLogin
<1>24. CASE RouterStops
  BY <1>24 DEF RouterStops
<1>25. CASE ShutLogin
  BY <1>25 DEF ShutLogin
<1>26. CASE ShutRouter
  BY <1>26 DEF ShutRouter
<1>27. CASE \E s \in Servers : ServerGoes(s)
  BY <1>27 DEF ServerGoes
<1>28. CASE UNCHANGED vars
  BY <1>28 DEF vars
<1> QED
  BY <1>1, <1>2, <1>3, <1>4, <1>5, <1>6, <1>7, <1>8, <1>9,
     <1>10, <1>11, <1>12, <1>13, <1>14, <1>15, <1>16, <1>17, <1>18,
     <1>19, <1>20, <1>21, <1>22, <1>23, <1>24, <1>25, <1>26, <1>27, <1>28
  DEF Next, Main, LoginHandler, RouterHandler

(* Every other variable keeps its kind of value. *)
LEMMA KindsStep == Kinds /\ [Next]_vars => Kinds'
<1> USE DEF Kinds, Deleting, flags, links, peers
<1>1. Kinds /\ SetLoginAddress => Kinds'
  BY DEF SetLoginAddress
<1>2. Kinds /\ Ask => Kinds'
  BY DEF Ask
<1>3. Kinds /\ SendRequest => Kinds'
  BY DEF SendRequest
<1>4. Kinds /\ SeesTheEnd => Kinds'
  BY DEF SeesTheEnd
<1>5. Kinds /\ TimesOut => Kinds'
  BY DEF TimesOut
<1>6. Kinds /\ GivesUp => Kinds'
  BY DEF GivesUp
<1>7. Kinds /\ Judge => Kinds'
  BY DEF Judge
<1>8. Kinds /\ DeleteLogin => Kinds'
  BY DEF DeleteLogin
<1>9. Kinds /\ JoinLogin => Kinds'
  BY DEF JoinLogin
<1>10. Kinds /\ DeleteRouter => Kinds'
  BY DEF DeleteRouter
<1>11. Kinds /\ JoinRouter => Kinds'
  BY DEF JoinRouter
<1>12. Kinds /\ LoginAnswers => Kinds'
  BY DEF LoginAnswers
<1>13. Kinds /\ Refuse => Kinds'
  BY DEF Refuse
<1>14. Kinds /\ Release => Kinds'
  BY DEF Release
<1>15. Kinds /\ Accept => Kinds'
  BY DEF Accept
<1>16. Kinds /\ Identify => Kinds'
  BY DEF Identify
<1>17. Kinds /\ Dial => Kinds'
  BY DEF Dial
<1>18. Kinds /\ Install => Kinds'
  BY DEF Install
<1>19. Kinds /\ Greet => Kinds'
  BY DEF Greet
<1>20. Kinds /\ LoginStops => Kinds'
  BY DEF LoginStops
<1>21. Kinds /\ RouterConfirms => Kinds'
  BY DEF RouterConfirms
<1>22. Kinds /\ TestConfirmation => Kinds'
  BY DEF TestConfirmation
<1>23. Kinds /\ EndLogin => Kinds'
  BY DEF EndLogin
<1>24. Kinds /\ RouterStops => Kinds'
  BY DEF RouterStops
<1>25. Kinds /\ ShutLogin => Kinds'
  BY DEF ShutLogin
<1>26. Kinds /\ ShutRouter => Kinds'
  BY DEF ShutRouter
<1>27. Kinds /\ (\E s \in Servers : ServerGoes(s)) => Kinds'
  <2> SUFFICES ASSUME Kinds, NEW s \in Servers, ServerGoes(s) PROVE Kinds'
    OBVIOUS
  <2>1. gone' \subseteq Servers
    BY DEF ServerGoes
  <2>2. /\ main' = main /\ login' = login /\ router' = router
        /\ mLogin' = mLogin /\ mRouter' = mRouter /\ mUserId' = mUserId
        /\ answer' = answer /\ reached' = reached /\ result' = result
    BY DEF ServerGoes
  <2>3. main' \in {"connect", "ask", "send", "wait", "late", "judge", "exit"} \cup Deleting
    BY <2>2
  <2>4. /\ login' \in {"none", "idle", "refuse", "release", "accept", "identify",
                       "dial", "install", "greet", "over"}
        /\ router' \in {"none", "idle", "test", "end", "over"}
    BY <2>2
  <2>5. /\ mLogin' \in {"null", "up", "closed"} /\ mRouter' \in {"null", "up", "closed"}
        /\ mUserId' \in {Id, NoId}
        /\ answer' \in {"none", "right", "wrong"}
    BY <2>2
  <2>6. /\ reached' \in {"unknown", "no", "yes", "confirmed"}
        /\ result' \in {"none", "no server", "timeout", "refused", "no game"}
    BY <2>2
  <2> QED
    BY <2>1, <2>3, <2>4, <2>5, <2>6
<1>28. Kinds /\ UNCHANGED vars => Kinds'
  BY DEF vars
<1> HIDE DEF Kinds, Deleting, flags, links, peers
<1> QED
  BY <1>1, <1>2, <1>3, <1>4, <1>5, <1>6, <1>7, <1>8, <1>9,
     <1>10, <1>11, <1>12, <1>13, <1>14, <1>15, <1>16, <1>17, <1>18,
     <1>19, <1>20, <1>21, <1>22, <1>23, <1>24, <1>25, <1>26, <1>27, <1>28
  DEF Next, Main, LoginHandler, RouterHandler

(* Every step keeps what is known of the links and their listeners. *)
LEMMA TeardownStep ==
    Kinds /\ TeardownInv /\ RouterInv /\ AnswerInv /\ [Next]_vars
        => TeardownInv' /\ RouterInv'
<1> SUFFICES ASSUME Kinds, TeardownInv, RouterInv, AnswerInv, [Next]_vars
             PROVE  TeardownInv' /\ RouterInv'
  OBVIOUS
<1> USE DEF Kinds, TeardownInv, RouterInv, AnswerInv, Deleting, flags, links, peers
<1>1. CASE SetLoginAddress
  BY <1>1 DEF SetLoginAddress
<1>2. CASE Ask
  BY <1>2 DEF Ask
<1>3. CASE SendRequest
  BY <1>3 DEF SendRequest
<1>4. CASE SeesTheEnd
  BY <1>4 DEF SeesTheEnd
<1>5. CASE TimesOut
  BY <1>5 DEF TimesOut
<1>6. CASE GivesUp
  BY <1>6 DEF GivesUp
<1>7. CASE Judge
  BY <1>7 DEF Judge
<1>8. CASE DeleteLogin
  BY <1>8 DEF DeleteLogin
<1>9. CASE JoinLogin
  BY <1>9 DEF JoinLogin
<1>10. CASE DeleteRouter
  BY <1>10 DEF DeleteRouter
<1>11. CASE JoinRouter
  BY <1>11 DEF JoinRouter
<1>12. CASE LoginAnswers
  BY <1>12 DEF LoginAnswers
<1>13. CASE Refuse
  BY <1>13 DEF Refuse
<1>14. CASE Release
  BY <1>14 DEF Release
<1>15. CASE Accept
  BY <1>15 DEF Accept
<1>16. CASE Identify
  BY <1>16 DEF Identify
<1>17. CASE Dial
  BY <1>17 DEF Dial
<1>18. CASE Install
  BY <1>18 DEF Install
<1>19. CASE Greet
  BY <1>19 DEF Greet
<1>20. CASE LoginStops
  BY <1>20 DEF LoginStops
<1>21. CASE RouterConfirms
  BY <1>21 DEF RouterConfirms
<1>22. CASE TestConfirmation
  BY <1>22 DEF TestConfirmation
<1>23. CASE EndLogin
  BY <1>23 DEF EndLogin
<1>24. CASE RouterStops
  BY <1>24 DEF RouterStops
<1>25. CASE ShutLogin
  BY <1>25 DEF ShutLogin
<1>26. CASE ShutRouter
  BY <1>26 DEF ShutRouter
<1>27. CASE \E s \in Servers : ServerGoes(s)
  BY <1>27 DEF ServerGoes
<1>28. CASE UNCHANGED vars
  BY <1>28 DEF vars
<1> QED
  BY <1>1, <1>2, <1>3, <1>4, <1>5, <1>6, <1>7, <1>8, <1>9,
     <1>10, <1>11, <1>12, <1>13, <1>14, <1>15, <1>16, <1>17, <1>18,
     <1>19, <1>20, <1>21, <1>22, <1>23, <1>24, <1>25, <1>26, <1>27, <1>28
  DEF Next, Main, LoginHandler, RouterHandler

(* Every step keeps what is known of the answer and of the flags. *)
LEMMA AnswerStep ==
    TeardownInv /\ RouterInv /\ AnswerInv /\ FlagsInv /\ OutcomeIsTrue /\ [Next]_vars
        => AnswerInv' /\ FlagsInv' /\ OutcomeIsTrue'
<1> SUFFICES ASSUME TeardownInv, RouterInv, AnswerInv, FlagsInv, OutcomeIsTrue,
                    [Next]_vars
             PROVE  AnswerInv' /\ FlagsInv' /\ OutcomeIsTrue'
  OBVIOUS
<1> USE DEF TeardownInv, RouterInv, AnswerInv, FlagsInv, Decided, OutcomeIsTrue,
            Deleting, flags, links, peers
<1>1. CASE SetLoginAddress
  BY <1>1 DEF SetLoginAddress
<1>2. CASE Ask
  BY <1>2 DEF Ask
<1>3. CASE SendRequest
  BY <1>3 DEF SendRequest
<1>4. CASE SeesTheEnd
  BY <1>4 DEF SeesTheEnd
<1>5. CASE TimesOut
  BY <1>5 DEF TimesOut
<1>6. CASE GivesUp
  BY <1>6 DEF GivesUp
<1>7. CASE Judge
  BY <1>7 DEF Judge
<1>8. CASE DeleteLogin
  BY <1>8 DEF DeleteLogin
<1>9. CASE JoinLogin
  BY <1>9 DEF JoinLogin
<1>10. CASE DeleteRouter
  BY <1>10 DEF DeleteRouter
<1>11. CASE JoinRouter
  BY <1>11 DEF JoinRouter
<1>12. CASE LoginAnswers
  BY <1>12 DEF LoginAnswers
<1>13. CASE Refuse
  BY <1>13 DEF Refuse
<1>14. CASE Release
  BY <1>14 DEF Release
<1>15. CASE Accept
  BY <1>15 DEF Accept
<1>16. CASE Identify
  BY <1>16 DEF Identify
<1>17. CASE Dial
  BY <1>17 DEF Dial
<1>18. CASE Install
  BY <1>18 DEF Install
<1>19. CASE Greet
  BY <1>19 DEF Greet
<1>20. CASE LoginStops
  BY <1>20 DEF LoginStops
<1>21. CASE RouterConfirms
  BY <1>21 DEF RouterConfirms
<1>22. CASE TestConfirmation
  BY <1>22 DEF TestConfirmation
<1>23. CASE EndLogin
  BY <1>23 DEF EndLogin
<1>24. CASE RouterStops
  BY <1>24 DEF RouterStops
<1>25. CASE ShutLogin
  BY <1>25 DEF ShutLogin
<1>26. CASE ShutRouter
  BY <1>26 DEF ShutRouter
<1>27. CASE \E s \in Servers : ServerGoes(s)
  <2>1. PICK s \in Servers : ServerGoes(s)
    BY <1>27
  <2>2. UNCHANGED <<main, login, router, mLogin, mRouter, mIsOnLogin, mBadLogOn, mUserId,
                    requested, answer, reached, result>>
    BY <2>1 DEF ServerGoes
  <2> QED
    BY <2>2
<1>28. CASE UNCHANGED vars
  BY <1>28 DEF vars
<1> QED
  BY <1>1, <1>2, <1>3, <1>4, <1>5, <1>6, <1>7, <1>8, <1>9,
     <1>10, <1>11, <1>12, <1>13, <1>14, <1>15, <1>16, <1>17, <1>18,
     <1>19, <1>20, <1>21, <1>22, <1>23, <1>24, <1>25, <1>26, <1>27, <1>28
  DEF Next, Main, LoginHandler, RouterHandler

(* Every step of the three threads keeps the invariant. *)
LEMMA Inductive == IInv /\ [Next]_vars => IInv'
BY BooleanStep, KindsStep, TeardownStep, AnswerStep DEF IInv, TypeOK, RouterInv

(* The invariant holds in every state of every client. *)
LEMMA IInvAlways == Spec => []IInv
BY InitIInv, Inductive, PTL DEF Spec

(* Every variable of a client keeps its kind of value. *)
THEOREM TypeCorrect == Spec => []TypeOK
<1>1. IInv => TypeOK
  BY DEF IInv
<1> QED
  BY IInvAlways, <1>1, PTL

(* What login() tells is what happened (Client.cpp:170-185), whenever the  *)
(* answers come.                                                           *)
THEOREM OutcomeAlwaysTrue == Spec => []OutcomeIsTrue
<1>1. IInv => OutcomeIsTrue
  BY DEF IInv
<1> QED
  BY IInvAlways, <1>1, PTL

(* When ~Client is through no handler runs and no link is left open        *)
(* (Client.cpp:104-114): the login link is deleted, and its thread joined, *)
(* before mRouter is read.                                                 *)
THEOREM TeardownIsComplete == Spec => []NoHandlerAfterDelete
<1>1. IInv => NoHandlerAfterDelete
  BY DEF IInv, TypeOK, TeardownInv, NoHandlerAfterDelete
<1> QED
  BY IInvAlways, <1>1, PTL
=============================================================================
