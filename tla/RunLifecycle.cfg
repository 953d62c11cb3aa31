SPECIFICATION Spec
CONSTANTS
  create1 = create1
  create2 = create2
  decide1 = decide1
  decide2 = decide2
  resume1 = resume1
  cancel1 = cancel1
  archive1 = archive1
  Requests = {create1, decide1, decide2, cancel1, archive1}
  Kind <- MCKind
  Gates = 1
  ReworkOf <- MCReworkOf
  Workers = 1
  Faults = {"database", "queue"}
  Nobody = Nobody
INVARIANTS
  PausedIsAnswerable
  QuietIsNotWorking
SYMMETRY MCSymmetry
CHECK_DEADLOCK FALSE
