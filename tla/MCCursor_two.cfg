CONSTANTS
    Cursor <- Two
    Queries <- BesideExhaust
    c1 = c1
    c2 = c2
    None = None
    Scans = FALSE
    MaxDocs <- ThreeAndOne
    MaxCalls = 4
SPECIFICATION FairSpec
CHECK_DEADLOCK FALSE
INVARIANTS
    CursorsAreSound
    
    NothingLeaks
PROPERTIES
    ReturnsResultSet
    IterationEnds
