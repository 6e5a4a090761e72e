SPECIFICATION FairSpec
CONSTANTS
    MaxSize = 5
    CHUNK_SIZE = 2
    SocketBuffer = 3
    StdioBuffer = 1
INVARIANTS DownloadedIsIntact
CHECK_DEADLOCK FALSE
