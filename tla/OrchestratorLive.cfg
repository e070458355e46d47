SPECIFICATION FairSpec
CONSTANTS
  c1 = c1
  c2 = c2
  o1 = o1
  o2 = o2
  Callers = {c1, c2}
  Orchestrators = {o1, o2}
  Setups <- LiveSetups
  Envelopes <- OneEnvelope
  Requests <- PlainRequests
  Changing = {}
  MaxCalls = 1
  MaxSourceChanges = 0
  Torn = Torn
  Damaged = Damaged
  None = None
PROPERTY CallsReturn
CHECK_DEADLOCK FALSE
