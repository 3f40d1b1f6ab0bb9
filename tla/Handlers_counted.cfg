\* Two users that upload the same file, with the statements as they are spelt.
SPECIFICATION Spec
CONSTANTS
  t1 = t1
  t2 = t2
  Thread = {t1, t2}
  Requests <- Uploads
  Users0 <- Known
  Refused <- AsShipped
  Faults <- NoFaults
  PoolSize <- Two
  MaxToken = 1
  MaxShare = 1
INVARIANTS
  CountMatchesOwners
