SPECIFICATION FairSpec
CONSTANTS
    Conns = {k1, k2}
    Grace = 3
    HeaderTimeout = 1
INVARIANTS
    TypeOK
    CleanExit
    OnlyAReasonSpoilsAStop
    AnnouncedIsReachable
PROPERTIES
    NothingJoinsTheDrain
    StopEnds
