SPECIFICATION FairSpec
CONSTANTS
  a = a
  b = b
  c = c
  gone = gone
  w1 = w1
  w2 = w2
  None = None
  Targets = {a, b, c}
  Dirs = {a, b, c, gone}
  Inside <- Flat
  Configs <- ThreeSizes
  Tolerant <- SecondOfA
  Removing <- SecondOfB
  Bare = {b}
  Workers = {w1, w2}
  MaxDeaths = 1
INVARIANT LossIsConfined
INVARIANT DoneIsPublished
PROPERTY AllOrNothing
PROPERTY OnlySelected
PROPERTY RunEnds
