SPECIFICATION Spec
CONSTANTS
  f = f
  g = g
  u = u
  top = top
  sub = sub
  odd = odd
  Files = {f, g, u}
  Dirs = {top, sub, odd}
  Top = top
  DirOf <- DirOfDef
  Within <- WithinDef
  Programs <- ProgramsDef
  Unremovable = {u}
  MaxRuns = 3
INVARIANT PublishedIsProgram
INVARIANT StaleIsCopied
INVARIANT TornIsTolerated
INVARIANT MissingWasRemoved
