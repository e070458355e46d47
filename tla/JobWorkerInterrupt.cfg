SPECIFICATION Spec
CONSTANTS
  j1 = j1
  j2 = j2
  j3 = j3
  k1 = k1
  k2 = k2
  Procs = {p1}
  Requests <- OneRequest
  MaxAttempts = 2
  MaxRuns = 3
  MaxCrashes = 0
  MaxWriteErrors = 0
  MaxInterrupts = 1
  NoFile = NoFile
  NoResult = NoResult
  NoJob = NoJob
PROPERTY SucceededIsKept
CHECK_DEADLOCK FALSE
