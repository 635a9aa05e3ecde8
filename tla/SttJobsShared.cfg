SPECIFICATION Spec
CONSTANTS
    JobIds = {j1, j2}
    Clients = {c1, c2}
    Paths = {p1}
    NoJob = NoJob
    NoPath = NoPath
    QueueSize = 1
    JobTtl = 2
    ClipTtl = 2
    MaxStall = 1
    MaxTime = 3
    AskOnce = FALSE
    Replies <- WellFormedReplies
SYMMETRY Symmetry
INVARIANTS
    ReferencedClipKept
