SPECIFICATION DiscoverySpec
CONSTANTS
    IdBits = 4
    BUCKET_COUNT = 3
    K_VALUE = 2
    own_id <- MCOwnId
    Peers <- MCPeers
    QUEUE = 2
    interval_secs = 1
    MaxSetBack = 1
INVARIANTS OnlyTheTableWritten
CHECK_DEADLOCK FALSE
