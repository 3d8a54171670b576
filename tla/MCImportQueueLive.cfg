SPECIFICATION FairSpec
CONSTANTS
    l1 = l1
    l2 = l2
    b1 = b1
    b2 = b2
    Library <- OneLibrary
    Book <- OneBook
    BookLibrary <- AllInOne
    FileBook <- NoFile
    RequestWork <- UsualWork
    MaxTask = 4
    MaxRequest = 2
    MaxFault = 1
    MaxFileOp = 1
PROPERTIES ImportsShareLibraries QueuedIsServed RunningIsClosed
CHECK_DEADLOCK FALSE
