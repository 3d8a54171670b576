SPECIFICATION Spec
CONSTANTS
    tale = tale
    opf1 = opf1
    opf2 = opf2
    story = story
    shelf = shelf
    Intent = {tale}
    Expansion <- TheExpansion
    Standard = {story}
    WriteLibrary <- TheWriteLibrary
    TargetCapacity = 2
    MaxWriteFault = 2
INVARIANTS WriteOutcomeIsTrue CountersCoverRows
PROPERTIES ReplacedOnce TargetsEnd
CHECK_DEADLOCK FALSE
