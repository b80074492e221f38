SPECIFICATION FairSpec
CONSTANTS
    d1 = d1
    NoPlc = NoPlc
    Devices = {d1}
    Plcs = {p1}
    Addresses = {1}
    Values = {v1, v2}
    DeviceOf <- MCDeviceOf
    Requests = {r1, r2}
    MaxVersion = 4
    MaxRestarts = 1
INVARIANTS
    TypeOK
    NoOrphans
    StaleHasCause
PROPERTIES
    StaleMapHeals
CHECK_DEADLOCK FALSE
