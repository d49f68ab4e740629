CONSTANTS
  h1 = h1
  h2 = h2
  k1 = k1
  k2 = k2
  pw = pw
  badpw = badpw
  None = None
  HubProfiles <- StableV3
  MyPassword = pw
  MyVersion = 3
  Threaded = TRUE
  Prompt = TRUE
  MaxConns = 2
  MaxRetries = 2
SPECIFICATION FairSpec
PROPERTIES
  SessionUp
CHECK_DEADLOCK FALSE
