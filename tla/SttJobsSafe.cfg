SPECIFICATION Spec
CONSTANTS
    JobIds = {j1, j2}
    Clients = {c1, c2}
    Paths = {p1, p2}
    NoJob = NoJob
    NoPath = NoPath
    QueueSize = 1
    JobTtl = 1
    ClipTtl = 2
    MaxStall = 1
    MaxTime = 3
    AskOnce = TRUE
    Replies <- AllReplies
SYMMETRY Symmetry
INVARIANTS
    TypeOK
    NoAcceptedJobLost
    ReferencedClipKept
PROPERTIES
    ClipKeptForTtl
    ResultsKeptForTtl
