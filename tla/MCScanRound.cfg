SPECIFICATION FairSpec
CONSTANTS
    Name <- Names
    Path <- Tree
    File <- FilePaths
    Anchor <- AnchorA
    Requests <- SomeRequests
    Trees <- FewTrees
    MaxRound = 2
    MaxChange = 2
    MaxFault = 1
INVARIANTS TypeOK OwedIsRecorded SteadyEntriesStay
PROPERTIES RoundEndsIfReadable
CHECK_DEADLOCK FALSE
