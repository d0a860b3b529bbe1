SPECIFICATION SyncSpec
CONSTANTS
    k1 = k1
    a1 = a1
    Keys = {k1}
    Toolless = {k1}
    Grace <- mcGrace
    AppIds = {a1}
    MaxSeq = 1
    MaxHour = 0
    MaxShift = 0
    MaxSyncUpsets = 1
    LateUpset = TRUE
PROPERTY DeviceCatchesUp
CHECK_DEADLOCK FALSE
