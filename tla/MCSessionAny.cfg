CONSTANTS
  h1 = h1
  h2 = h2
  k1 = k1
  k2 = k2
  pw = pw
  badpw = badpw
  None = None
  HubProfiles <- AnyHub
  MyPassword = pw
  MyVersion = 3
  Threaded = TRUE
  Prompt = FALSE
  MaxConns = 2
  MaxRetries = 2
SPECIFICATION Spec
INVARIANTS
  TransportAuthenticated
  EventMeansSecure
PROPERTIES
  PinStable
CHECK_DEADLOCK FALSE
