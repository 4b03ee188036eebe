\* Is an object accepted only when its data is in the data folder?
SPECIFICATION Spec
CONSTANTS
    None = None
    a = a  b = b
    u1 = u1  u2 = u2
    w1 = w1  w2 = w2
    p = p  q = q
    Objects = {a}
    Uploads = {u1}
    Workers = {w1}
    Operators = {p}
    Events = {}
    MaxFaults = 1
    MaxRestarts = 0
INVARIANTS
    AcceptedIsStored
