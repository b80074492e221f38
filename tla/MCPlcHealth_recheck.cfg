SPECIFICATION Spec
CONSTANTS
    q1 = q1
    q2 = q2
    q3 = q3
    k1 = k1
    Requests = {q1, q2, q3}
    Plcs = {k1}
    PlcOf <- MCPlcOf
    Forced = {q3}
    TTL = 2
    MaxTime = 3
    MaxVersion = 1
PROPERTIES
    NoProbeWhileFresh
CHECK_DEADLOCK FALSE
