SPECIFICATION FairSpec
CONSTANTS
    JobIds = {j1, j2}
    Clients = {c1, c2}
    Paths = {p1, p2}
    NoJob = NoJob
    NoPath = NoPath
    QueueSize = 0
    JobTtl = 1
    ClipTtl = 1
    MaxStall = 1
    MaxTime = 1
    AskOnce = TRUE
    Replies <- WellFormedReplies
PROPERTIES
    ImplementsService
