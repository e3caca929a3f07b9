SPECIFICATION Spec
CONSTANTS
    a = a
    b = b
    c = c
    Ids = {a, b, c}
    Empty = Empty
    NoFile = NoFile
    long = long
    beginning = beginning
    Texts = {Empty, long, beginning}
    ReadBack <- LongIsCut
INVARIANTS
    SlotsFilled
    UnmodifiedIsOnDisk
    ExitKeepsTabs
PROPERTIES
    ImplementsSavedTabs
CHECK_DEADLOCK FALSE
SYMMETRY IdSymmetry
