SPECIFICATION Spec
CONSTANTS
  Recordings <- SomeRecordings
  Evidence <- SomeEvidence
  Invalid = Invalid
  Cfg <- DefaultCfg
  Infinity = Infinity
INVARIANT TrackletsTileSpeech
INVARIANT LabelsAreCheapest
INVARIANT NobodyForced
INVARIANT IslandsWithheld
INVARIANT TimelineFaithful
CHECK_DEADLOCK FALSE
