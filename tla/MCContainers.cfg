SPECIFICATION ContainersSpec
CONSTANTS
    Elements <- MCElements
    Distance <- MCDistance
    MaxSize = 5
    Keys = {1, 2, 3}
    Values = {1, 2}
    NoValue = 0
    HashValues <- MCHashes
    MinBuckets = 2
    MaxBuckets = 8
    Nodes = {n1, n2, n3}
    NULL = NULL
INVARIANTS SameElements SortedWhenDone MapSound BothWaysTheSame
PROPERTIES MapCallsReturn IsAMap
CHECK_DEADLOCK FALSE
