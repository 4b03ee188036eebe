\* Every request is answered, with one download at a time and an object that is only proxied.
SPECIFICATION FairSpec
CONSTANTS
    None = None
    a = a  b = b  c = c
    r1 = r1  r2 = r2  r3 = r3  r4 = r4
    Objects = {a, b, c}
    Size <- TwoAndProxied
    Chunk = 2
    StorageLimit = 5
    MaxCachedItemSize = 5
    MaxConcurrent = 1
    CACHE_GROUPS_COUNT = 3
    Requests = {r1, r2, r3, r4}
    Streams = {TRUE, FALSE}
    Events = {}
    MaxPopularity = 2
PROPERTIES
    RequestsAnswered
\* When all requests are answered the node waits for the next.
CHECK_DEADLOCK FALSE
