CONSTANTS
  n1 = n1
  n2 = n2
  n3 = n3
  f1 = f1
  f2 = f2
  f3 = f3
  Nodes = {n1, n2, n3}
  Floods = {f1, f2, f3}
  NoFlood = NoFlood
  CacheSize = 2
  MaxAnswers = 2
  MaxPings = 9
SPECIFICATION FairSpec
INVARIANTS
  TypeOK
  FloodsFarApart
  RespondsOnce
PROPERTIES
  FloodDiesOut
  MapComplete
CHECK_DEADLOCK FALSE
