SPECIFICATION FairSpec
CONSTANTS
    StopOnError = TRUE
    Uninitialised <- MCUninitialised
    MaxStatements = 4
INVARIANTS
    ReportsMatchResults
    CountersAgree
    FailureEndsBatch
    ReturnsComplete
    AbortStopsSoon
PROPERTY
    RunReturns
