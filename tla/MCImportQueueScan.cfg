SPECIFICATION Spec
CONSTANTS
    l1 = l1
    l2 = l2
    b1 = b1
    b2 = b2
    Library <- OneLibrary
    Book <- TwoBooks
    BookLibrary <- AllInOne
    FileBook <- SecondIsFile
    RequestWork <- UsualWork
    MaxTask = 5
    MaxRequest = 2
    MaxFault = 1
    MaxFileOp = 0
INVARIANTS RunningIsOwned GapCoversOwed CompletedIsCurrent
PROPERTIES SuccessIsIdentified SucceededScanIsComplete ScanQueuesUnidentified
CHECK_DEADLOCK FALSE
