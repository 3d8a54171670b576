SPECIFICATION Spec
CONSTANTS
    l1 = l1
    l2 = l2
    b1 = b1
    b2 = b2
    Library <- TwoLibraries
    Book <- TwoBooks
    BookLibrary <- OneEach
    FileBook <- NoFile
    RequestWork <- AllWork
    MaxTask = 4
    MaxRequest = 2
    MaxFault = 1
    MaxFileOp = 1
INVARIANTS TypeOK
PROPERTIES KeepsPromise
CHECK_DEADLOCK FALSE
