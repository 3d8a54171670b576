SPECIFICATION Spec
CONSTANTS
    tale = tale
    first = first
    second = second
    Book = {tale}
    Job = {first, second}
    BookOf <- Owner
    Retries = 1
    MaxTask = 3
    MaxImport = 1
    MaxLookupFault = 1
INVARIANTS JobsHaveTasks CompletedIsApplied
PROPERTIES ImportsComeFirst LookupsEnd
CHECK_DEADLOCK FALSE
