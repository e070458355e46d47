SPECIFICATION Spec
CONSTANTS
  Recordings <- Turns
  Evidence <- ClearEvidence
  Invalid = Invalid
  Cfg <- DefaultCfg
  Infinity = Infinity
CHECK_DEADLOCK FALSE
INVARIANT LocalAssignmentsKept
