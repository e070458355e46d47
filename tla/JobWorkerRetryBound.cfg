SPECIFICATION Spec
CONSTANTS
  j1 = j1
  j2 = j2
  j3 = j3
  k1 = k1
  k2 = k2
  Procs = {p1}
  Requests <- OneRequest
  MaxAttempts = 2
  MaxRuns = 4
  MaxCrashes = 1
  MaxWriteErrors = 0
  MaxInterrupts = 0
  NoFile = NoFile
  NoResult = NoResult
  NoJob = NoJob
INVARIANT RetryBounded
CHECK_DEADLOCK FALSE
