CONSTANTS
    n1 = n1
    n2 = n2
    None = None
    Wire <- MCWire
    Settings <- MCSettings
    Options <- MCOptions
    Name <- MCName
    MaxUsers <- MCMaxUsers
SPECIFICATION Spec
INVARIANTS
    AnswersAreTrue
    ConcernsAreKept
    CatalogueIsKept
CHECK_DEADLOCK FALSE
