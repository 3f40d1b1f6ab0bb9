\* Uploads and lists, where the schema takes all statements.
SPECIFICATION Spec
CONSTANTS
  t1 = t1
  t2 = t2
  Thread = {t1, t2}
  Requests <- SameFile
  Users0 <- Known
  Refused <- AllAccepted
  Faults <- AllFaults
  PoolSize <- Mixed
  MaxToken = 1
  MaxShare = 1
SYMMETRY ThreadSymmetry
INVARIANTS
  OwnedFileHasInfo
  AcceptedUploadIsStored
