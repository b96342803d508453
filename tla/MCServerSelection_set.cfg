SPECIFICATION FairSpec
CONSTANTS
    None = None
    Seed <- MCSeed
    Known <- MCKnown
    Scanned <- MCScanned
    Prefs <- MCPrefs
    LocalThreshold = 2
    Heartbeat = 2
    MinHeartbeat = 1
    Timeout = 2
    ConnectTimeout = 1
    LockTime = 1
    IdleWrite = 4
    SmallestStaleness = 5
    MaxTime = 4
CHECK_DEADLOCK FALSE
INVARIANTS
    SelectionIsSound
    CaughtUpIsUsable
    KnowledgeIsRecent
PROPERTIES
    KeepsTime
