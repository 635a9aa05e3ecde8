SPECIFICATION FairSpec
CONSTANTS
    Requests = {r1, r2}
    Capacity = 1
    Setups <- MCSetups
    Queries <- MCQueries
    NoQuery = NoQuery
    Ring <- MCRing
    MaxQuery = 2
    Ageing = {r1}
    NaN = NaN
    NoModel = NoModel
    Devices = 2
    MaxAudio = 3
    MaxCrashes = 1
    SharedDir = TRUE
INVARIANTS
    TypeOK
    FailureHasCause
    ModelLoadedOnce
    AnswersMatchEffects
PROPERTIES
    AnswersStand
    PollerLearns
CHECK_DEADLOCK FALSE
