CONSTANTS
  w1 = w1
  l1 = l1
  l2 = l2
  speak = speak
  other = other
  Waiters = {w1}
  Listeners = {l1, l2}
  Outer <- BusAndUserland
  Inner = {speak, other}
  Wanted = {speak}
  NoOne = NoOne
  AnyType = AnyType
  Dict = Dict
  MaxMsgs = 2
SPECIFICATION FairSpec
INVARIANTS
  TypeOK
  NoAnswerMissed
  ListenerPersists
  NothingLeftBehind
PROPERTIES
  ShutdownFinal
  WaitReturns
CHECK_DEADLOCK FALSE
