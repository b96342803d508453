SPECIFICATION FairSpec
CONSTANTS
    c1 = c1
    c2 = c2
    c3 = c3
    None = None
    Cmd <- MCCmd
    First <- MCFirst
    Tls = TRUE
    Request <- MCRequest
    LengthSize = 2
    RestSize = 1
CHECK_DEADLOCK FALSE
INVARIANTS
    
    OutcomesAreTrue
PROPERTY RunEnds
