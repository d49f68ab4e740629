CONSTANTS
  None = None
  MaxConnects = 2
  MaxRetries = 1
  MaxData = 2
SPECIFICATION FairSpec
INVARIANTS
  KeysAgree
PROPERTIES
  EndsInDispatchOnly
  ConnectReturns
  ShutdownHeeded
CHECK_DEADLOCK FALSE
