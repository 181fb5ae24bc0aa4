SPECIFICATION InventorySpec
CONSTANTS
  TargetFiles = {"dev", "eudev"}
  Entries = {"star", "cstar", "ref"}
  References = {"ref"}
  Setters = {"dev", "a", "b"}
  Bangs = {"b"}
  ReadOnly = {"eudev"}
  Linked = {"a"}
  Nothing = Nothing
  MaxRuns = 2
  MaxEdits = 1
  MaxKills = 1
  ClassOrder <- MCClassOrder
  Matching <- MCMatching
  ClassLists <- MCClassLists
  BaseName <- MCBaseName
  FirstTree <- MCFirstTree
INVARIANTS
  ReadyIsWhole
  PatternsMeanTheirMatches
  MigrationLossHasACause
PROPERTIES
  ClassesAreKept
  RenderingEnds
CHECK_DEADLOCK FALSE
