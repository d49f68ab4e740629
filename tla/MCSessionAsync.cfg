CONSTANTS
  h1 = h1
  h2 = h2
  k1 = k1
  k2 = k2
  pw = pw
  badpw = badpw
  None = None
  HubProfiles <- OwnHubs
  MyPassword = pw
  MyVersion = 3
  Threaded = FALSE
  Prompt = TRUE
  MaxConns = 1
  MaxRetries = 3
SPECIFICATION FairSpec
INVARIANTS
  HelloReadable
PROPERTIES
  SessionUp
CHECK_DEADLOCK FALSE
