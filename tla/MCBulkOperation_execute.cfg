SPECIFICATION FairSpec
CONSTANTS
    Operation <- Mixed
    Server = {"old", "write commands", "collation"}
    Acknowledgement = {TRUE, FALSE}
    AppendLimit = 3
    MaxDocumentSize = 2
    Slack = 1
    MaxMessageSize = 4
    MaxWriteBatchSize = 2
    MaxOperations = 3
CHECK_DEADLOCK FALSE
INVARIANTS
    BulkIsSound
    ResultIsExact
    SuccessMeansApplied
    OrderedStopsAtCommands
PROPERTY ExecuteReturns
