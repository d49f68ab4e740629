CONSTANTS
  h1 = h1
  h2 = h2
  k1 = k1
  k2 = k2
  pw = pw
  badpw = badpw
  None = None
  HubProfiles <- RenamedV2
  MyPassword = pw
  MyVersion = 3
  Threaded = TRUE
  Prompt = FALSE
  MaxConns = 4
  MaxRetries = 0
SPECIFICATION FairSpec
INVARIANTS
  HelloReadable
PROPERTIES
  SessionUp
CHECK_DEADLOCK FALSE
