SPECIFICATION FairSpec
CONSTANTS
    Conns = {c1, c2}
    Written = {c2}
    Dialed = {c2}
    Writers = {w}
    Manager = Manager
    Nobody = Nobody
    Bidirectional = TRUE
CHECK_DEADLOCK FALSE
INVARIANT TypeOK
INVARIANT ClosedIsQuiet
INVARIANT CloseIsReported
PROPERTY ListenerEnds
PROPERTY ImplementsLifecycle
