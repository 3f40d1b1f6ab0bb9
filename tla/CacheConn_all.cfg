\* Every method of the class, over some seconds of three ticks, against a server
\* that comes and goes.
SPECIFICATION FairSpec
CONSTANTS
  Methods <- AllMethods
  HasPassword = TRUE
  TicksPerSecond = 3
  MaxTime = 11
  MaxN = 2
INVARIANTS
  TypeOK
  AtMostOnce
  ConnectsSpread
PROPERTIES
  DeadContextIsDropped
