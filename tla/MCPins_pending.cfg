SPECIFICATION PinsSpec
CONSTANTS
    u1 = u1
    c1 = c1
    c2 = c2
    Urls = {u1}
    Commits = {c1, c2}
    Wishes <- mcWishes
    Valid = {c1, c2}
    MaxPinEvents = 1
PROPERTY WantedGetsListed
