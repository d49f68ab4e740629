CONSTANTS
  s1 = s1
  s2 = s2
  Senders = {s1, s2}
  MaxConns = 1
  Metas <- SomeMetas
  Payloads <- SomePayloads
  Seconds = {0, 1000}
  Unset = Unset
  Junk = Junk
  MaxText = 2
SPECIFICATION Spec
INVARIANTS
  InSendOrder
CHECK_DEADLOCK FALSE
