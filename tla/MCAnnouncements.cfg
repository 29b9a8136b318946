SPECIFICATION FairSystemSpec
CONSTANTS
    Users = {u1}
    Conns = {c1, c2}
    NoUser = NoUser
    NoConn = NoConn
    MaxToken = 2
    MaxSent = 4
    AnswerMayFail = FALSE
    ControlMayFail = TRUE
    WrongPasswords = FALSE
INVARIANT AnnouncedInOrder
INVARIANT RouterFollowsLogin
INVARIANT GhostsAreExplained
PROPERTY RequestAnswered
PROPERTY AnnouncedIsRouted
CHECK_DEADLOCK FALSE
