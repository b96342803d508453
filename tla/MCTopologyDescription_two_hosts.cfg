CONSTANTS
    A = A
    B = B
    S = S
    T = T
    None = None
    Dangling = Dangling
    Address <- TwoHosts
    SetName <- TwoSets
    Reply <- TwoHostReplies
    Seeding <- TwoHostSeedings
    MaxServerId = 3
SPECIFICATION Spec
CHECK_DEADLOCK FALSE
INVARIANTS
    WellFormed
    AtMostOnePrimary
    PrimaryHoldsMaxElection
    PrimaryListsEveryServer
PROPERTIES
    ElectionNeverGoesBack
    IdentityIsFinal
