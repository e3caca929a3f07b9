SPECIFICATION Spec
CONSTANTS
    a = a
    b = b
    MaxKey = 3
    Vals = {a, b}
    DefaultVal = a
    InitialRows = 2
    Step = 3
    MaxLoad = 4
    Failing = {}
    MaxGrid = 3
PROPERTY
    DeletesSelected
