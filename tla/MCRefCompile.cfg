SPECIFICATION FairSpec
CONSTANTS
  t1 = t1
  t2 = t2
  a = a
  b = b
  c = c
  d = d
  None = None
  Generator = Generator
  Missing = Missing
  Broken = Broken
  Targets = {t1, t2}
  Paths = {a, b, c, d}
  Objects <- OwnRefs
  MaxRuns = 2
INVARIANT TokensAreStored
INVARIANT DerivedMatches
INVARIANT ObtainableCompiles
PROPERTY ExistingIsKept
PROPERTY CompileEnds
