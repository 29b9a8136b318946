SPECIFICATION Spec
CONSTANTS
    Users = {u1, u2}
    Conns = {c1, c2}
    NoUser = NoUser
    NoConn = NoConn
    MaxToken = 3
    MaxSent = 1
    AnswerMayFail = TRUE
    ControlMayFail = FALSE
    WrongPasswords = TRUE
SYMMETRY Symmetry
INVARIANT TypeOK
INVARIANT SessionTablesAgree
INVARIANT NoUndefinedErase
INVARIANT AnsweredSessionIsLive
PROPERTY ImplementsRegistry
CHECK_DEADLOCK FALSE
