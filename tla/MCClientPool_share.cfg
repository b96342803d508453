SPECIFICATION PoolFairSpec
CONSTANTS
    T1 = T1
    T2 = T2
    T3 = T3
    T4 = T4
    C1 = C1
    C2 = C2
    C3 = C3
    Borrower <- FourThreads
    Client <- ThreeClients
    MinSizes <- ZeroToTwo
    MaxSizes <- OneOrTwo
    MaxHeld = 2
INVARIANT PoolIsSound
PROPERTIES
    OnlyRaisingMaxStrands
    WaitersGetClients
