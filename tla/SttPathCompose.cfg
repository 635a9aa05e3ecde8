SPECIFICATION Spec
CONSTANTS
    Requests = {r1, r2}
    Capacity = 1
    Setups <- ComposeSetups
    Queries <- MCQueries
    NoQuery = NoQuery
    Ring <- MCRing
    MaxQuery = 2
    Ageing = {r1}
    NaN = NaN
    NoModel = NoModel
    Devices = 2
    MaxAudio = 3
    MaxCrashes = 1
    SharedDir = FALSE
INVARIANT
    FailureHasCause
CHECK_DEADLOCK FALSE
