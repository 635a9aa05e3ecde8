SPECIFICATION FairSpec
CONSTANTS
    QueueDepth = 2
    Descriptors = 3
    MaxPackets = 3
    MaxOthers = 1
    MaxRetargets = 1
INVARIANTS
    TypeOK
    EveryPacketCounted
    SocketsBounded
    TargetFollows
PROPERTIES
    LeavesInOrder
    UplinkRecovers
