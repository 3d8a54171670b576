SPECIFICATION Spec
CONSTANTS
    l1 = l1
    l2 = l2
    b1 = b1
    b2 = b2
    Library <- OneLibrary
    Book <- OneBook
    BookLibrary <- AllInOne
    FileBook <- EveryFile
    RequestWork <- UsualWork
    MaxTask = 4
    MaxRequest = 3
    MaxFault = 1
    MaxFileOp = 0
PROPERTIES SucceededScanClearsGap
CHECK_DEADLOCK FALSE
