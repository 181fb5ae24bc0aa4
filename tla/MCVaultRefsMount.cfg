SPECIFICATION Spec
CONSTANTS
  t1 = t1
  t2 = t2
  r1 = r1
  r2 = r2
  m1 = m1
  m2 = m2
  p1 = p1
  k1 = k1
  k2 = k2
  Targets = {t1}
  Refs = {r1, r2}
  Mounts = {m1, m2}
  VaultPaths = {p1}
  Keys = {k1, k2}
  TagLists <- OtherMountTagLists
  Params <- OneParams
  None = None
  Missing = Missing
  Torn = Torn
  Absent = Absent
  Deleted = Deleted
  MaxRuns = 2
  MaxMade = 3
  MaxFaults = 1
  MaxEdits = 1
INVARIANTS
  PointsToItsSecret
CHECK_DEADLOCK FALSE
