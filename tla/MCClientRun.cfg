SPECIFICATION FairSpec
CONSTANTS
  Run = {r1, r2}
  Option <- Options
  Retries = 2
INVARIANTS
  TypeOK
  NeverBothRecords
  RegisteredIsVouched
  UploadedIfOk
PROPERTIES
  NotRegisteredBehind
  UnregisterLeavesNothing
  IdentityKept
  RunsEnd
\* The system stops when every run has ended.
CHECK_DEADLOCK FALSE
