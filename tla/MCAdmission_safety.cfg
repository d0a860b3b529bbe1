CONSTANTS
  None = None
  Watched = FALSE
  Revocable = TRUE
  MaxMinute = 2
  MaxRuns = 2
  MaxVersion = 2
  MaxSetups = 1
  MaxManifest = 1
  p1 = p1
  p2 = p2
  c1 = c1
  c2 = c2
  a1 = a1
  a2 = a2
  Persons = {p1, p2}
  Device = Device
  Nobody = Nobody
  Calls = {c1, c2}
  MaxGateway = 2
  OutCap = 1
  MaxClicks = 2
  MaxTokens = 1
  LostGrants = FALSE
  MaxAsks = 1
  MaxFrames = 2
  AppNames = {a1, a2}
  MaxBundles = 2
  ListCap = 1
  MaxFailed = 2
  Scenes = {"admission", "persons", "messages", "exchange", "apps"}
SPECIFICATION mcSafety
INVARIANTS
  PageKeepsPerson
  HaltIsTrue
  OneWindowUpToDate
PROPERTIES
  ImplementsGate
  StartsAreFresh
CHECK_DEADLOCK FALSE
