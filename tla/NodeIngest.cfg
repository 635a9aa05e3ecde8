SPECIFICATION Spec
CONSTANTS
    Nodes = {n1}
    Lengths <- OtherBuild
    MaxSeconds = 2
    MaxSent = 3
    MaxRestarts = 1
    MaxArrivals = 4
    MaxTime = 1
INVARIANTS
    TypeOK
    AudioIsCounted
    CountersAddUp
    LossIsKnown
    RingIsRecentAudio
PROPERTIES
    AnswersAreWhole
CHECK_DEADLOCK FALSE
