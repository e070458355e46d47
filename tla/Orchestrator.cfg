SPECIFICATION Spec
CONSTANTS
  c1 = c1
  c2 = c2
  o1 = o1
  o2 = o2
  Callers = {c1, c2}
  Orchestrators = {o1}
  Setups <- SharedSetups
  Envelopes <- OneEnvelope
  Requests <- AllRequests
  Changing = {"source", "model", "stt", "canonical"}
  MaxCalls = 1
  MaxSourceChanges = 1
  Torn = Torn
  Damaged = Damaged
  None = None
INVARIANT TypeOK
INVARIANT Exclusive
INVARIANT NothingLeftBehind
INVARIANT ResultFaithful
INVARIANT AuthorityEarned
INVARIANT NamesOnlyForReview
INVARIANT FallbackNamesNobody
CHECK_DEADLOCK FALSE
