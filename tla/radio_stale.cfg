SPECIFICATION Spec
CONSTANTS
    d1 = d1
    d2 = d2
    u1 = u1
    u2 = u2
    s1 = s1
    s2 = s2
    s3 = s3
    NoUnit = NoUnit
    NoHandle = NoHandle
    Nobody = Nobody
    Main = Main
    Watchdog = Watchdog
    Devices = {d1, d2}
    Units = {u1, u2}
    Uri <- OneNamed
    Sessions = {s1, s2, s3}
    DeviceOf <- AllOnFirst
    MaxFlakes = 2
    MaxUnplugs = 0
INVARIANTS ReadersValid
CHECK_DEADLOCK FALSE
