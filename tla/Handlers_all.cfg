\* Every handler over pools of one connection; everything fails.
SPECIFICATION FairSpec
CONSTANTS
  t1 = t1
  t2 = t2
  Thread = {t1, t2}
  Requests <- Everything
  Users0 <- Nobody
  Refused <- NoFiles
  Faults <- AllFaults
  PoolSize <- One
  MaxToken = 1
  MaxShare = 1
INVARIANTS
  TypeOK
  NoConnectionLeak
PROPERTIES
  RequestsKeepBeingAnswered
