SPECIFICATION Spec
CONSTANTS
    s1 = s1
    s2 = s2
    Senders = {s1}
    Media = {}
    MaxRetries = 5
    MaxConnects = 2
    MaxBlips = 1
INVARIANTS NoDoubleDelivery
CHECK_DEADLOCK FALSE
