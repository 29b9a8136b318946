SPECIFICATION Spec
CONSTANTS
    NServers = 2
    NZones = 4
    One = 4
    Loads = {0, 3}
    NoServer = NoServer
    Router = Router
    MaxComing = 4
    MaxTotal = 6
    ConnectMayFail = FALSE
    LinkMayDrop = FALSE
INVARIANT MovesAZoneOfTheSource
CHECK_DEADLOCK FALSE
