CONSTANTS
    low = low  other = other  narrow = narrow  pinned = pinned  wide = wide
    off = off  coh = coh  cal = cal  solo = solo
    devS = devS  devI = devI  devJ = devJ
    Tasks = {low, other, narrow, pinned, wide, off, coh, cal, solo}
    NoTask = NoTask
    Devices = {devS, devI, devJ}
    NoDevice = NoDevice
    Group = {devI, devJ}
    Guard = 8
    Horizon = 1
    MaxRequests = 3
    Dev <- MCDev
    Req <- MCReq
SPECIFICATION Spec
CHECK_DEADLOCK FALSE
INVARIANTS TypeOK  SlotsAccounted PackingExact DeviceCleared WindowCovers
PROPERTY RankRespected
