SPECIFICATION Spec
CONSTANTS
    shelf = shelf
    attic = attic
    Library = {shelf, attic}
    Op = {1, 2}
    Plan <- ThePlan
    MaxMoveFault = 2
INVARIANTS OutcomeIsTrue MovingIsLocked BooksKeepCompanions
PROPERTIES SettledEntriesStay FilesMoveOnce ClaimedMovesEnd
CHECK_DEADLOCK FALSE
