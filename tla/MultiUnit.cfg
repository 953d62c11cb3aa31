SPECIFICATION FairSpec
CONSTANTS
  N = 8
  HardGates <- MCHardGates
  SoftGates <- MCSoftGates
  RejectTo <- MCRejectTo
  UnitStageIds <- MCUnitStageIds
  LoopTo <- MCLoopTo
  MaxRetries <- MCMaxRetries
  Units <- MCUnits
  Splits <- MCSplits
  MaxResumes = 5
INVARIANTS
  DependenciesFirst
  NoUnitWorkPastAnOpenGate
  WholeWorkIsJudged
PROPERTIES
  PromiseKept
  AttemptEnds
CHECK_DEADLOCK FALSE
