SPECIFICATION FairSpec
CONSTANTS
    Requests = {r1, r2}
    Paths = {p1, p2}
    NoPath = NoPath
    ClipTtl = 2
    MaxStall = 1
    MaxSweep = 1
    MaxCrashes = 1
    Shared = {p2}
INVARIANTS
    TypeOK
    HeldClipIsWhole
    MetadataHasWav
PROPERTIES
    ClipsAreSwept
    WavsAreSwept
