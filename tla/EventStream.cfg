SPECIFICATION FairSpec
CONSTANTS
  Emitters <- MCEmitters
  Main <- MCMain
  MaxEvents <- MCMaxEvents
  MaxMishaps = 2
INVARIANTS
  LiveFollowsHistory
PROPERTIES
  EndIsLearnt
CHECK_DEADLOCK FALSE
