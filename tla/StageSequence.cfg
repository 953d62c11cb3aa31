SPECIFICATION FairSpec
CONSTANTS
  N = 8
  HardGates <- MCHardGates
  SoftGates <- MCSoftGates
  RejectTo <- MCRejectTo
  LoopStages <- MCLoopStages
  LoopTo <- MCLoopTo
  MaxRetries <- MCMaxRetries
  ReviewStages <- MCReview
  Sigs = {"lint", "test"}
  Acceptance <- MCAcceptance
  MaxResumes = 5
INVARIANTS
  TypeOK
  CompletedRestsOnCurrentWork
  NoWorkPastAnOpenGate
  CompletedRunIsSound
  PausedRunStandsAtItsGate
  FirstAttemptReworks
PROPERTIES
  CheckpointKeepsDecisions
  PromiseKept
  AttemptEnds
CHECK_DEADLOCK FALSE
