SPECIFICATION FairSpec
CONSTANTS
    c1 = c1
    c2 = c2
    Conns <- MCTwo
    Streams <- MCStreams
    MAX_RPC_PACKET_SIZE = 4
    BUF_SIZE = 4
INVARIANTS ExecutedInOrder TornOnlyAtTheEnd
PROPERTIES ArrivedAreServed
CHECK_DEADLOCK FALSE
