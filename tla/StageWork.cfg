SPECIFICATION FairSpec
CONSTANTS
  Agents <- MCAgents
  Known <- MCKnown
  Prompted <- MCPrompted
  Schemaless <- MCSchemaless
  Gates <- MCGates
  Checks <- MCChecks
  Setups <- MCSetups
  MaxCrashes = 1
  MaxResumes = 2
INVARIANTS
  GatesJudgeLatestCode
  ArtifactsAreCurrent
  ReadyIsDeserved
PROPERTIES
  AttemptEnds
CHECK_DEADLOCK FALSE
