SPECIFICATION Spec
CONSTANTS
    StopOnError = TRUE
    Uninitialised <- MCUninitialised
    t1 = t1
    t2 = t2
    c1 = c1
    c2 = c2
    b1 = b1
    b2 = b2
    Tabs = {t1, t2}
    FirstTab = t1
    Connections = {c1}
    Batches = {b1, b2}
    Size <- BothShort
    None = None
    MaxSessions = 2
    Droppable = {1}
SYMMETRY Interchangeable
PROPERTIES
    HandleProtected
    TabsFeedResults
CHECK_DEADLOCK FALSE
