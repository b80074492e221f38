SPECIFICATION FairSpec
CONSTANTS
    r1 = r1
    t1 = t1
    d1 = d1
    d2 = d2
    Pubs <- MCPubs
    RestPubs = {r1}
    Devices = {d1, d2}
    Target <- MCTarget
    MaxMid = 3
    MaxRestarts = 1
INVARIANTS
    TypeOK
    ConfirmedHasAck
    ConfirmedIsOwnUntilReuse
    NoRowOutlivesDevice
PROPERTIES
    LedgerSpec
    VisibleRowIsConfirmed
