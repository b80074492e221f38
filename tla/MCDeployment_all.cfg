SPECIFICATION MCSpec
CONSTANTS
    None = None
    NoHost = NoHost
    NoCert = NoCert
    Monitor = monitor
    t1 = t1
    t2 = t2
    t3 = t3
    t4 = t4
    Tasks = {t1, t2, t3, t4}
    PoolSize = 4
    u1 = u1
    u2 = u2
    w1 = w1
    k1 = k1
    k2 = k2
    k3 = k3
    h1 = h1
    Users = {u1, u2}
    Passwords = {w1, w2}
    Tokens = {k1, k2, k3}
    MaxBatch = 2
    Hosts = {h1, h2}
    MaxTroubles = 3
INVARIANTS
    TypeOK
    OldPasswordTokensRaced
    HoldsWhatItUses
    BatchAccounted
    LinkOutlivesSessions
    ServedCertificateIsCurrent
PROPERTIES
    OnlyOwnerRevokes
    DeactivationIsFinal
    WritersTakeTurns
    BookSpec
    RequestsAnswered
    ShutdownEnds
    BrokerComesUp
CHECK_DEADLOCK FALSE
