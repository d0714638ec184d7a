\* Three sessions, two pool threads, one GPU slot.
CONSTANTS
  a = a
  b = b
  c = c
  w1 = w1
  w2 = w2
  None = None
  Sessions = {a, b, c}
  Workers = {w1, w2}
  GpuSlots = 1
  LatestWins = TRUE
  MayExit = TRUE
SPECIFICATION Spec
INVARIANTS
  JobsAccounted
  SlotsExact
  StateTruthful
SYMMETRY ReasonerSymmetry
