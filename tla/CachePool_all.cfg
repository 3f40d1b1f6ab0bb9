\* Five threads, one of them with a timeout, compete for a pool that may grow from
\* one connection to two and may be destroyed; a destroyed pool stops.
SPECIFICATION FairSpec
CONSTANTS
  t1 = t1
  t2 = t2
  t3 = t3
  t4 = t4
  t5 = t5
  none = none
  Thread <- Callers
  Timed <- Impatient
  MinConn = 1
  MaxConn = 2
  Destroyable = TRUE
  NoThread = none
INVARIANTS
  TypeOK
  Ownership
  NoLostWakeup
PROPERTIES
  ImplementsPool
  NothingLentAfterAbort
  NullOnlyWhenJustified
  ConnectionsKeepMoving
  DestroyEnds
CHECK_DEADLOCK FALSE
