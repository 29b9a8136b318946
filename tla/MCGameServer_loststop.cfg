SPECIFICATION FairSpec
CONSTANTS
    Zones = {0}
    Callers = {k1, k2}
    Nobody = Nobody
    InitMayFail = FALSE
    GameMayEnd = FALSE
PROPERTY StopReturns
