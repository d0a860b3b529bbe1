SPECIFICATION mcSpec
CONSTANTS
    p1 = p1
    p2 = p2
    p3 = p3
    l1 = l1
    r1 = r1
    u1 = u1
    u2 = u2
    c1 = c1
    c2 = c2
    Plans = {p1, p2, p3}
    LibLocks = {l1}
    LockOf <- mcLockOf
    Good = {p1, p2}
    Borrowers = {r1}
    MaxLibFaults = 2
    Urls = {u1, u2}
    Commits = {c1, c2}
    Wishes <- mcWishes
    Valid = {c1, c2}
    MaxPinEvents = 1
    Offers = {"x"}
    MaxSteps = 2
    MaxToolCalls = 1
    MaxPages = 2
    Texts = {"A", "B"}
    ActionsPerDay = 2
    HttpPerDay = 5
    MaxRequests = 2
    MaxPostUpsets = 1
    Reads = {"r1", "r2"}
    Workplaces = {"w1"}
    MaxQueued = 1
    DailyCap = 3
    MaxAges = 3
    Statements = {"s1", "s2"}
    Unreadable = {}
    MaxNumber = 2
    BankKeys <- mcKeys
    MaxFetches = 2
    MaxEbicsUpsets = 1
    PkgFiles = {"p", "q", "r"}
    CourierLists <- mcCourierLists
    PackageLimit = 2
    TotalLimit = 3
    LockLines <- mcLines
    MaxLines = 4
    WheelFiles <- mcWheels
    Headers <- mcHeaders
    MaxEntries = 2
    MaxLockFiles = 2
    MaxFileBytes = 2
    MaxWheelBytes = 2
    MaxLockBytes = 3
CHECK_DEADLOCK FALSE
INVARIANTS
    OnlyProvedRuns
    SealedIsSound
    InboxKeepsLimit
    AgentSound
    NotExecutedIsTrue
    GrantKept
    EbicsKeeps
PROPERTIES
    BorrowedStays
    LibsGoOn
    RejectedIsWithdrawn
