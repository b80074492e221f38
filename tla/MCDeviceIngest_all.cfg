SPECIFICATION FairSpec
CONSTANTS
    d1 = d1
    s1 = s1
    t1 = t1
    m1 = m1
    Devices = {d1}
    Sessions = {s1}
    Readings = {t1, m1}
    Tcp = {t1}
    QoS1 = {t1}
    SessionOf <- MCSessionOf
    DeviceOf <- MCDeviceOf
    Timeout = 1
    MaxKeys = 1
    MaxRestarts = 1
INVARIANTS
    TypeOK
    StoredUnderLiveDevice
PROPERTIES
    InactiveNotRevived
    OfflineOnlyWhenSilent
    SilentGoesOffline
    StoreSpec
CHECK_DEADLOCK FALSE
