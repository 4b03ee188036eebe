\* Downloads, evictions, cleanups, saves and restarts, with any answers of the query node.
SPECIFICATION Spec
CONSTANTS
    None = None
    a = a  b = b  c = c
    r1 = r1  r2 = r2  r3 = r3  r4 = r4
    Objects = {a, b}
    Size <- TwoObjects
    Chunk = 1
    StorageLimit = 2
    MaxCachedItemSize = 2
    MaxConcurrent = 2
    CACHE_GROUPS_COUNT = 3
    Requests = {r1, r2, r3}
    Streams = {TRUE, FALSE}
    Events = {"obligations", "cleanup", "save", "restart"}
    MaxPopularity = 2
SYMMETRY RequestSymmetry
INVARIANTS
    TypeOK
    SpaceAccountedWhenFresh
    CacheMatchesFiles
    AvailableVerified
    PendingHasDownload
PROPERTIES
    LimitKept
\* When all requests are answered the node waits for the next.
CHECK_DEADLOCK FALSE
