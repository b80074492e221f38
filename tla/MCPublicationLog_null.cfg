SPECIFICATION Spec
CONSTANTS
    r1 = r1
    t1 = t1
    d1 = d1
    d2 = d2
    Pubs <- MCPubs
    RestPubs = {r1}
    Devices = {d1, d2}
    Target <- MCTarget
    MaxMid = 2
    MaxRestarts = 0
INVARIANTS
    NullMeansAwaiting
