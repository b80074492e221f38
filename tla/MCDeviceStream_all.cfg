SPECIFICATION MCSpec
CONSTANTS
    d1 = d1
    u1 = u1
    u2 = u2
    w1 = w1
    w2 = w2
    Devices = {d1}
    Users = {u1, u2}
    Owner <- MCOwner
    Streams = {w1, w2}
    UserOf <- MCUserOf
    MaxQueue = 2
    MaxReadings = 2
    MaxRounds = 3
INVARIANTS
    TypeOK
    StreamIsolation
    SentInOrder
PROPERTIES
    StreamDrains
    FeedSpec
CHECK_DEADLOCK FALSE
