SPECIFICATION FairSpec
CONSTANTS
    MaxSize = 6
    CHUNK_SIZE = 2
    SocketBuffer = 3
    StdioBuffer = 2
INVARIANTS AcknowledgedPutIsIntact UnsplitFileIsPrefix
PROPERTIES ServerLeavesPut DownloadReturnsUnlessSplit
CHECK_DEADLOCK FALSE
