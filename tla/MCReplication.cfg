SPECIFICATION FairSpec
CONSTANTS
    n1 = n1
    n2 = n2
    Nodes <- MCTwo
    K_VALUE = 3
    Cuts = TRUE
    DiskErrors = TRUE
    MaxUploads = 1
    MaxStops = 2
INVARIANTS OwnersFit OwnersHaveTheFile
PROPERTIES ThreadReturns
