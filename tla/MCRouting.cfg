CONSTANTS
  h1 = h1
  hk1 = hk1
  a1 = a1
  pk1 = pk1
  pk2 = pk2
  p1 = p1
  p2 = p2
  None = None
  Hubs = {h1}
  HubKeys = {hk1}
  Aliases = {a1}
  PublicKeys = {pk1, pk2}
  Peers = {p1, p2}
SYMMETRY PeersAndKeys
SPECIFICATION Spec
INVARIANTS
  RoutingTypeOK
PROPERTIES
  TrustedOnTheWay
  NoEcho
  PinForgottenOnlyByCommand
CHECK_DEADLOCK FALSE
