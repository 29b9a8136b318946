SPECIFICATION FairSpec
CONSTANTS
    Users = {u1, u2}
    Conns = {c1, c2}
    NoUser = NoUser
    NoConn = NoConn
    MaxToken = 2
    MaxSent = 4
    AnswerMayFail = TRUE
    ControlMayFail = FALSE
    WrongPasswords = FALSE
PROPERTY RequestAnswered
CHECK_DEADLOCK FALSE
