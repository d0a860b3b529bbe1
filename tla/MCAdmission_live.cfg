CONSTANTS
  None = None
  Watched = TRUE
  Revocable = TRUE
  MaxMinute = 1
  MaxRuns = 2
  MaxVersion = 1
  MaxSetups = 1
  MaxManifest = 0
  p1 = p1
  p2 = p2
  c1 = c1
  c2 = c2
  a1 = a1
  a2 = a2
  Persons = {p1}
  Device = Device
  Nobody = Nobody
  Calls = {c1, c2}
  MaxGateway = 2
  OutCap = 1
  MaxClicks = 2
  MaxTokens = 0
  LostGrants = FALSE
  MaxAsks = 1
  MaxFrames = 2
  AppNames = {a1}
  MaxBundles = 2
  ListCap = 1
  MaxFailed = 2
  Scenes = {"admission", "persons", "apps"}
SPECIFICATION mcSpec
PROPERTIES
  RevokedEndsRuns
  SetupGivesBack
  LoginEnds
  WithdrawnCloses
CHECK_DEADLOCK FALSE
