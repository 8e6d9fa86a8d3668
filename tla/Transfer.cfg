SPECIFICATION FairSpec
CONSTANTS
    Path = {"p", "q"}
    Content <- Contents
    Puller = {1, 2}
    Current = 2
    BlockSize = 2
    MaxChunkLen = 2
    ServeQueueDepth = 1
    MaxFetches = 2
    MaxEdits = 1
    Absent = Absent
CHECK_DEADLOCK FALSE
INVARIANT TypeOK
INVARIANT NoStaleAnswer
INVARIANT CleanFetchVerifies
PROPERTY ImplementsFileFetch
PROPERTY FetchesEnd
