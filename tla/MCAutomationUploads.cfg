SPECIFICATION Spec
CONSTANTS
    book = book
    cover = cover
    lib = lib
    right = right
    wrong = wrong
    Upload = {book, cover}
    Purpose <- Purposes
    UploadLibrary <- Where
    Chunk = {right, wrong}
    Promised <- Digest
    UploadCount = 1
    MaxUploadFault = 2
INVARIANTS PublishedIsPromised UploadOutcomeIsTrue PublishedOnce
PROPERTIES ConfirmedChunksStay StagingIsRemoved
CHECK_DEADLOCK FALSE
