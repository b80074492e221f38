SPECIFICATION FairSpec
CONSTANTS
    d1 = d1
    u1 = u1
    u2 = u2
    w1 = w1
    w2 = w2
    Devices = {d1}
    Users = {u1, u2}
    Owner <- MCOwner
    Streams = {w1, w2}
    UserOf <- MCUserOf
    MaxQueue = 1
    MaxReadings = 1
    MaxRounds = 1
PROPERTIES
    GoneIsRemoved
CHECK_DEADLOCK FALSE
