SPECIFICATION ToolSpec
CONSTANTS
  Callers = {1, 2}
  Lengths = {2, 5}
  FrameSamples = 4
  HeaderBytes = 2
  HeaderBound = 4
  ProgramBytes = 2
  WorkspaceLimit = 78
  MaxChanges = 1
  Builders = {1}
  SourceFrames = 13
  Rate = 3
  Micro = 4
  ClipLengths = {2, 3, 4}
  UniformCount = 2
  BoundaryCount = 1
  StressCount = 1
  AuditEvery = 3
  References <- TheReferences
  Systems <- TheSystems
  Shuffles <- TheShuffles
  MaxDisturbances = 1
  Benchmarks <- TheBenchmarks
  Replacements <- TheReplacements
  Measures <- TheMeasures
  MaxWork = 4
  MaxSwaps = 2
  Tokens <- SomeTokens
  MaxTokens = 3
  Supplied <- SomeWords
  Timelines <- SomeTimelines
  PerMs = 10
  Plans <- ThePlans
  MemoryCap = 9
  GrowthLimit = 2
  WarmPercent = 25
  Ticks = 3
  ThrottleLimit = 1
  MaxTroubles = 2
  Duration = 20
  Percent <- WholePercent
  TurnGap = 9
INVARIANT ReceiptTrue
INVARIANT WorkspaceBounded
INVARIANT LaneClean
INVARIANT AcceptedIsSound
INVARIANT PublishedOnce
INVARIANT RefusedForCause
INVARIANT ScoredIsDeclared
INVARIANT PassIsWarranted
INVARIANT TextKept
INVARIANT SplitAtSpaces
INVARIANT RefusedOnlyWhenWidened
INVARIANT NamesByEvidence
INVARIANT TurnsPartition
CHECK_DEADLOCK FALSE
