SPECIFICATION FairSpec
CONSTANTS
  c1 = c1
  c2 = c2
  c3 = c3
  t1 = t1
  t2 = t2
  f1 = f1
  f2 = f2
  Calls = {c1, c2, c3}
  Public = {c1, c2}
  Tasks = {t1, t2}
  Files = {f1, f2}
  FileOf <- MCFileOf
  States = {"rejected"}
  Names = {"n"}
  Free = Free
INVARIANTS
  TypeOK
  NothingIsLost
  AcceptedIsEarned
  SnapshotTrails
  SnapshotCatchesUp
PROPERTIES
  CallsTakeTurns
  CallsEnd
CHECK_DEADLOCK FALSE
