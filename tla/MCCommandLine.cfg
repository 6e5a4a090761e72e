SPECIFICATION FairSpec
CONSTANTS
    Names <- MCNames
    LinkOf <- MCLinkOf
    InLink <- MCInLink
    InRequest <- MCInRequest
    c1 = c1
    c2 = c2
    Contents = {c1, c2}
    UserFiles <- MCUserFiles
    Empty = Empty
    Absent = Absent
    Directory = Directory
    Mixed = Mixed
    MaxUploads = 2
    MaxOffers = 1
    MaxShares = 2
    MaxEdits = 1
INVARIANTS LinkNamesTheCopy OwnedAreHere DownloadBringsTheLinked
PROPERTIES MenuComesBack
CHECK_DEADLOCK FALSE
