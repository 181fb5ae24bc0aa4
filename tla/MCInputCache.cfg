SPECIFICATION FairSpec
CONSTANTS
  p1 = p1
  p2 = p2
  r1 = r1
  k1 = k1
  k2 = k2
  v1 = v1
  v2 = v2
  i1 = i1
  i2 = i2
  i3 = i3
  None = None
  Runs = {r1}
  Procs = {p1, p2}
  RunOf <- OneRun
  Keys = {k1, k2}
  Values = {v1, v2}
  Inodes = {i1, i2, i3}
  LockRetries = 2
  MaxLookups = 2
  MaxRestarts = 1
INVARIANT PublishedIsWhole
INVARIANT NoInterference
PROPERTY OrphanIsForever
PROPERTY ImplementsMap
PROPERTY LookupsReturn
