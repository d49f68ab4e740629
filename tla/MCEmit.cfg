CONSTANTS
  s1 = s1
  s2 = s2
  Senders = {s1, s2}
  MaxConns = 3
  Metas <- SomeMetas
  Payloads <- SomePayloads
  Seconds = {0, 5, 10, 11, 15, 1000, 3000}
  Unset = Unset
  Junk = Junk
  MaxText = 2
SPECIFICATION FairSpec
INVARIANTS
  NonceUnique
  WireReadable
  EmitNeverCrashes
  WireRoundTrips
  KeepaliveIsSane
  CiphersRoundTrip
PROPERTIES
  EmitReturns
CHECK_DEADLOCK FALSE
