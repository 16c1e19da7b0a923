SPECIFICATION FairSpec
CONSTANTS
    d1 = d1
    d2 = d2
    u1 = u1
    u2 = u2
    s1 = s1
    s2 = s2
    s3 = s3
    NoUnit = NoUnit
    NoHandle = NoHandle
    Nobody = Nobody
    Main = Main
    Watchdog = Watchdog
    Devices = {d1, d2}
    Units = {u1, u2}
    Uri <- Discovered
    Sessions = {s1, s2}
    DeviceOf <- AllOnFirst
    MaxFlakes = 1
    MaxUnplugs = 1
INVARIANTS TypeOK ClaimsExclusive OpenedOnce OnlineLive
PROPERTIES DevicesRecover
CHECK_DEADLOCK FALSE
