\* Two connections, two frames each: safety and the abstract stream.
CONSTANTS
  s1 = s1
  s2 = s2
  NoSession = NoSession
  Sessions = {s1, s2}
  MaxFrames = 2
  MaxBad = 0
SPECIFICATION Spec
INVARIANTS
  FrameAccounting
  LockDiscipline
  LiveInferenceExclusive
  NewestFramePending
  TotalsExact
PROPERTY EverySessionStreams
SYMMETRY SessionSymmetry
