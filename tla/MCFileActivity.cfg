SPECIFICATION Spec
CONSTANTS
    shelf = shelf
    attic = attic
    plan = plan
    fresh = fresh
    tale = tale
    sidecar = sidecar
    story = story
    bytes = bytes
    Library = {shelf, attic}
    Op = {1}
    Plan <- ThePlan
    MaxMoveFault = 1
    Deletion = {plan}
    Doomed <- TheDoomed
    MaxDeletionFault = 1
    Upload = {fresh}
    Purpose <- ThePurpose
    UploadLibrary <- TheUploadLibrary
    Chunk = {bytes}
    Promised <- ThePromise
    UploadCount = 1
    MaxUploadFault = 1
    Intent = {tale}
    Expansion <- TheExpansion
    Standard = {story}
    WriteLibrary <- TheWriteLibrary
    TargetCapacity = 2
    MaxWriteFault = 1
    Relocates <- TheRelocates
    MaxRequest = 2
    MaxFault = 1
INVARIANTS ActivityTypeOK LibrariesAreShared DeletionIsTrue
PROPERTIES SharesLibraries NewSourceStays LibrariesReopen
CHECK_DEADLOCK FALSE
