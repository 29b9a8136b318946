SPECIFICATION FairSpec
CONSTANTS
    Zones = {0, 1}
    Callers = {k1, k2}
    Nobody = Nobody
    InitMayFail = TRUE
    GameMayEnd = TRUE
INVARIANT TypeOK
INVARIANT GameOutlivesThread
INVARIANT TableIsExact
PROPERTY OnlyDetachedZonesGo
PROPERTY StopBetweenStepsEnds
