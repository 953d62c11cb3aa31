SPECIFICATION Spec
CONSTANTS
  create1 = create1
  create2 = create2
  decide1 = decide1
  decide2 = decide2
  resume1 = resume1
  cancel1 = cancel1
  archive1 = archive1
  Requests = {create1, create2, decide1, decide2, resume1}
  Kind <- MCKind
  Gates = 2
  ReworkOf <- MCReworkOf
  Workers = 2
  Faults = {}
  Nobody = Nobody
INVARIANTS
  StartedOnce
  ApprovedByAnswer
SYMMETRY MCSymmetry
CHECK_DEADLOCK FALSE
