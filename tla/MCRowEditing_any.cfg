SPECIFICATION Spec
CONSTANTS
    a = a
    b = b
    MaxKey = 3
    Vals = {a, b}
    DefaultVal = a
    InitialRows = 2
    Step = 1
    MaxLoad = 3
    Failing = {"statement", "reload", "load"}
    MaxGrid = 2
INVARIANT
    RowsInRange
PROPERTY
    InsertedOnce
