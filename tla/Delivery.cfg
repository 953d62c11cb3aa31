SPECIFICATION FairSpec
CONSTANTS
  Runs <- MCRuns
  Plans <- MCPlans
  MaxMishaps = 3
INVARIANTS
  WorkSurvives
  PullRequestIsWhole
PROPERTIES
  DeliveryEnds
CHECK_DEADLOCK FALSE
