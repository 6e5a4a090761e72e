SPECIFICATION FairSpec
CONSTANTS
    c1 = c1
    c2 = c2
    c3 = c3
    NoFd = NoFd
    Conns <- MCThree
    RpcConns <- MCRpc
    MAX_SOCK = 4
    MAX_WAIT_CON = 1
INVARIANTS OpenIsListed ReadyIsReady
PROPERTIES ClosedAfterPeer RoundsGoOn
CHECK_DEADLOCK FALSE
