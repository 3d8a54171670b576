SPECIFICATION FairSpec
CONSTANTS
    Name <- Names
    Path <- Tree
    File <- FilePaths
    Anchor <- NoAnchor
    Requests <- SomeRequests
    Trees <- FewTrees
    MaxRound = 1
    MaxChange = 2
    MaxFault = 0
PROPERTIES RoundEnds
CHECK_DEADLOCK FALSE
