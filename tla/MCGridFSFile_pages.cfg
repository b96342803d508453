SPECIFICATION FairSpec
CONSTANTS
    None = None
    Writes <- MCWrites
    Reads <- MCReads
    ChunkSize = 2
    ChunksPerBatch = 1
    ServerBatch = 2
    MaxLength = 5
    MaxFailures = 1
CHECK_DEADLOCK FALSE
INVARIANT FileIsSound
PROPERTIES
    IsByteFile
    OnlyReadsForget
    
