\* Two uploads of an object race with each other, with its synchronization, with events on the chain and with a restart.
SPECIFICATION Spec
CONSTANTS
    None = None
    a = a  b = b
    u1 = u1  u2 = u2
    w1 = w1  w2 = w2
    p = p  q = q
    Objects = {a}
    Uploads = {u1, u2}
    Workers = {w1}
    Operators = {p, q}
    Events = {"delete", "unassign"}
    MaxFaults = 1
    MaxRestarts = 1
SYMMETRY NodeSymmetry
INVARIANTS
    TypeOK
    FilesVerified
    AcceptedHeld
    NoncesDistinct
    FilesListed
