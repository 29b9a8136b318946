SPECIFICATION FairSpec
CONSTANTS
    NServers = 3
    NZones = 2
    One = 4
    Loads = {0, 3}
    NoServer = NoServer
    Router = Router
    MaxComing = 2
    MaxTotal = 0
    ConnectMayFail = TRUE
    LinkMayDrop = TRUE
INVARIANT TypeOK
INVARIANT AssignmentComplete
INVARIANT WaitedAnswerIsComing
INVARIANT FirstRoundHasTheLoads
INVARIANT FirstTotalsAreSums
INVARIANT AllAnsweredEndsTheWait
PROPERTY RoundsRecur
CHECK_DEADLOCK FALSE
