SPECIFICATION FairSpec
CONSTANTS
    QueueDepth = 1
    Descriptors = 2
    MaxPackets = 1
    MaxOthers = 0
    MaxRetargets = 2
PROPERTIES
    UplinkGoesOn
