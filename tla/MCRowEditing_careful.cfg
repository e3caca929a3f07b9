SPECIFICATION CarefulSpec
CONSTANTS
    a = a
    b = b
    MaxKey = 4
    Vals = {a, b}
    DefaultVal = a
    InitialRows = 3
    Step = 4
    MaxLoad = 5
    Failing = {"statement", "load"}
    MaxGrid = 5
INVARIANTS
    GridShowsTable
    InsertedIsCurrent
PROPERTIES
    DeletesSelected
    SelectionStays
    DraftsKept
