SPECIFICATION LookupLiveSpec
CONSTANTS
    IdBits = 3
    BUCKET_COUNT = 3
    K_VALUE = 3
    own_id <- MCOwnId
    Peers <- MCPeers
    Keys <- MCKeys
    MaxOpenSockets = 1
    MaxAnswer = 2
INVARIANTS EveryoneIsAsked AnswersReachTheTable OnlyTheTableRepeats ReturnsTheClosestHeard
PROPERTIES LookupReturns
