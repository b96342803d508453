SPECIFICATION Spec
CONSTANTS
    Operation <- Plain
    Server = {"write commands"}
    Acknowledgement = {TRUE}
    AppendLimit = 3
    MaxDocumentSize = 2
    Slack = 1
    MaxMessageSize = 4
    MaxWriteBatchSize = 2
    MaxOperations = 3
INVARIANT
    OrderedStops
CHECK_DEADLOCK FALSE
