SPECIFICATION mcSpec
CONSTANTS
    None = None
    Throttle = 2
    MaxBack = 1
    FirstUse = FALSE
    MaxCommands = 3
    MaxFaults = 2
    MaxRestarts = 2
    MaxLost = 1
    k1 = k1
    a1 = a1
    Keys = {k1}
    Toolless = {k1}
    Grace <- mcGrace
    AppIds = {a1}
    MaxSeq = 1
    MaxHour = 3
    MaxShift = 1
    MaxSyncUpsets = 1
    LateUpset = FALSE
    MaxQuestions = 2
    QuestionRuns = 2
    EventCap = 3
    MaxLinks = 2
CHECK_DEADLOCK FALSE
INVARIANTS
    HaltKeeps
    QuestionSound
PROPERTIES
    BoxLearns
    OfflineWithinGrace
    NothingComesBack
    DeviceCatchesUp
