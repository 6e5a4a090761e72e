SPECIFICATION Spec
CONSTANTS
    n1 = n1
    n2 = n2
    Nodes <- MCTwo
    K_VALUE = 2
    Cuts = FALSE
    DiskErrors = FALSE
    MaxUploads = 1
    MaxStops = 0
INVARIANTS AllOwnersAreTold
