SPECIFICATION Spec
CONSTANTS
  Run = {r1, r2}
  Option <- Options
  Retries = 1
INVARIANT RegisteredByServer
CHECK_DEADLOCK FALSE
