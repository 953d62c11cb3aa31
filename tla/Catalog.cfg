SPECIFICATION Spec
CONSTANTS
  Clients <- MCClients
  Keys <- MCKeys
  Pipelines <- MCPipelines
  Texts <- MCTexts
  Runs <- MCRuns
  MaxRequests = 3
  MaxFaults = 1
  None = None
  c1 = c1
  c2 = c2
  k1 = k1
  k2 = k2
  t1 = t1
  t2 = t2
INVARIANTS
  HardGatesStayHard
  AttemptsAgree
PROPERTIES
  SecretsAreReal
  UnnamedIsKept
CONSTRAINT FewRequests
SYMMETRY MCSymmetry
CHECK_DEADLOCK FALSE
