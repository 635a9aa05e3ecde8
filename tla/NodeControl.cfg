SPECIFICATION FairSpec
CONSTANTS
    Setups = {"form"}
    Targets = {"target"}
    Absent = "absent"
    QueueDepth = 1
    DefaultStreaming = "ON"
    MaxCommands = 3
    MaxSaves = 1
    MaxFaults = 1
INVARIANTS
    TypeOK
    RamIsWhatBootReads
    LastCommandWins
    StreamingFollows
PROPERTIES
    SavedBoots
    StatusFollows
CHECK_DEADLOCK FALSE
