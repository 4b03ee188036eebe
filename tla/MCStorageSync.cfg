\* Two workers synchronize two objects that are uploaded here and elsewhere.
SPECIFICATION FairSpec
CONSTANTS
    None = None
    a = a  b = b
    u1 = u1  u2 = u2
    w1 = w1  w2 = w2
    p = p  q = q
    Objects = {a, b}
    Uploads = {u1}
    Workers = {w1, w2}
    Operators = {p}
    Events = {}
    MaxFaults = 1
    MaxRestarts = 1
PROPERTIES
    Replicated
    SyncIsRound
