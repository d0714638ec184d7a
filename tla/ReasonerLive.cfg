\* Two sessions, two pool threads, one GPU slot: liveness.
CONSTANTS
  a = a
  b = b
  w1 = w1
  w2 = w2
  None = None
  Sessions = {a, b}
  Workers = {w1, w2}
  GpuSlots = 1
  LatestWins = TRUE
  MayExit = FALSE
SPECIFICATION FairSpec
PROPERTIES
  PendingSettles
  AnnouncedWorkEnds
