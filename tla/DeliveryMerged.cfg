SPECIFICATION Spec
CONSTANTS
  Runs <- MCRuns
  Plans <- MCPlans
  MaxMishaps = 0
INVARIANT
  CompletedIsMerged
CHECK_DEADLOCK FALSE
