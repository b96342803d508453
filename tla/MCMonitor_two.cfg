CONSTANTS
    s1 = s1
    s2 = s2
    t1 = t1
    t2 = t2
    None = None
    Server <- Servers
    Seeds <- OneSeed
    Thread <- Threads
    Connecting <- OneConnects
SPECIFICATION FairSpec
CHECK_DEADLOCK FALSE
INVARIANTS
    MonitorIsSound
    WaitersAreRemembered
PROPERTIES
    WaitersAreWoken
    StopEnds
