\* The second of two requests learns too late that the object was missing.
SPECIFICATION Spec
CONSTANTS
    None = None
    a = a  b = b  c = c
    r1 = r1  r2 = r2  r3 = r3  r4 = r4
    Objects = {a}
    Size <- OneObject
    Chunk = 2
    StorageLimit = 9
    MaxCachedItemSize = 9
    MaxConcurrent = 2
    CACHE_GROUPS_COUNT = 4
    Requests = {r1, r2}
    Streams = {TRUE}
    Events = {}
    MaxPopularity = 1
INVARIANTS
    SpaceAccounted
\* When all requests are answered the node waits for the next.
CHECK_DEADLOCK FALSE
