SPECIFICATION LiveSpec
CONSTANTS
    s1 = s1
    s2 = s2
    Senders = {s1, s2}
    Media = {s1}
    MaxRetries = 3
    MaxConnects = 2
    MaxBlips = 2
INVARIANTS TypeOK  OncePerClient
PROPERTIES SendReturns
CHECK_DEADLOCK FALSE
