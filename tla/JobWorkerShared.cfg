SPECIFICATION Spec
CONSTANTS
  j1 = j1
  j2 = j2
  j3 = j3
  k1 = k1
  k2 = k2
  Procs = {p1, p2}
  Requests <- TwoRequests
  MaxAttempts = 2
  MaxRuns = 3
  MaxCrashes = 1
  MaxWriteErrors = 1
  MaxInterrupts = 1
  NoFile = NoFile
  NoResult = NoResult
  NoJob = NoJob
INVARIANT TypeOK
INVARIANT SucceededHasResult
CHECK_DEADLOCK FALSE
