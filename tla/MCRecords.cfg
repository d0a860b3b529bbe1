SPECIFICATION mcSpec
CONSTANTS
    s1 = s1
    u1 = u1
    None = None
    Schedules <- mcSchedules
    Jobs <- mcNone
    Setups <- mcSetups
    Size <- mcSize
    Doubtful <- Keys
    MaxTime = 2
    MaxResults = 2
    JournalMax = 4
    MaxSlots = 2
    RejectLimit = 1
    MaxCrashes = 1
    MaxFaults = 1
    MaxOutages = 1
    MayBeRevoked = FALSE
    Slots = {2, 5}
    Gaps = {3}
    FireWindow = 2
    CallTimeout = 1
    MaxScan = 1
    MaxWall = 6
    MaxFileEvents = 2
    PinNames = {"p"}
    MaxAge = 2
    Skew = 1
    MaxHour = 7
    Lists <- mcLists
    MaxStorageFaults = 1
    SatzIds = {"i1", "i2"}
    Roboter = {"a", "b"}
    Amounts = {10, 20}
    Hoechstens = 2
    MaxLaeufe = 2
    MaxHands = 1
CHECK_DEADLOCK FALSE
INVARIANTS
    RunsSound
    TickerKeeps
    NoReplay
    BookedOnce
PROPERTIES
    LatestAnswerCounts
