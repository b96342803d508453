CONSTANTS
    A = A
    B = B
    S = S
    None = None
    Dangling = Dangling
    Address <- TwoHosts
    SetName <- OneSet
    Reply <- TwoHostReplies
    Seeding <- TwoSeeds
    MaxServerId = 4
SPECIFICATION TopologySpec
CHECK_DEADLOCK FALSE
INVARIANTS
    AssertionsHold
