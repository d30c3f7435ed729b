SPECIFICATION Spec
CONSTANTS
    p1 = p1
    p2 = p2
    u1 = u1
    u2 = u2
    w1 = w1
    w2 = w2
    w3 = w3
    Procs = {p1, p2}
    Urls = {u1, u2}
    Ids = {w1, w2, w3}
    MaxCrashes = 2
SYMMETRY Symmetry
INVARIANTS CreatedIsRegistered
CHECK_DEADLOCK FALSE
