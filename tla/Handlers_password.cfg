\* A user with the right password.
SPECIFICATION Spec
CONSTANTS
  t1 = t1
  t2 = t2
  Thread = {t1, t2}
  Requests <- Logins
  Users0 <- Known
  Refused <- AsShipped
  Faults <- NoFaults
  PoolSize <- One
  MaxToken = 1
  MaxShare = 1
INVARIANTS
  RightPasswordLogsIn
