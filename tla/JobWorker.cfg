SPECIFICATION RetriedSpec
CONSTANTS
  j1 = j1
  j2 = j2
  j3 = j3
  k1 = k1
  k2 = k2
  Procs = {p1}
  Requests <- ThreeRequests
  MaxAttempts = 2
  MaxRuns = 5
  MaxCrashes = 1
  MaxWriteErrors = 1
  MaxInterrupts = 0
  NoFile = NoFile
  NoResult = NoResult
  NoJob = NoJob
INVARIANT OneJobPerKey
INVARIANT AttemptsPaidFor
PROPERTY RetriesEnd
PROPERTY ImplementsLedger
CHECK_DEADLOCK FALSE
