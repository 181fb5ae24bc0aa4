SPECIFICATION Spec
CONSTANTS
  Targets = {"t1", "t2"}
  Topics = {"a", "b"}
  Workers = {w1, w2}
  Components = {"chart", "site", "index", "helm"}
  Params = {1, 2}
  Versions = {1, 2}
  FlagNames = {"tests", "ns"}
  None = None
  MaxRuns = 2
  MaxEdits = 2
  Inputs <- MCInputs
  Program <- MCProgram
  DefaultFlags <- MCDefaultFlags
  FirstInventory <- MCFirstInventory
INVARIANTS
  HashedIsCurrent
  TopicsWereDeclared
  FlagsHaveACause
  EmptyHasACause
CHECK_DEADLOCK FALSE
