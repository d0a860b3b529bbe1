SPECIFICATION FetchAlone
CONSTANTS
    Statements = {"s1", "s2"}
    Unreadable = {}
    MaxNumber = 2
    BankKeys <- mcKeys
    MaxFetches = 2
    MaxEbicsUpsets = 1
INVARIANT StatementsKept
CHECK_DEADLOCK FALSE
