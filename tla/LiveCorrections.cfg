\* The corrections of the mock reasoner against the list of hazards it must never correct.
CONSTANTS
  s1 = s1
  s2 = s2
  Sessions = {s1, s2}
  Callers = {s1}
  Kinds <- MCKinds
  Streams = {s1, s2}
  FrameSet <- MCFrames
  Setups <- MCMockSetups
  Decisions <- MCDecisions
  MaxTicks = 2
  SlowAnswer = 1
  MaxTracks = 3
  MaxMissed = 0
  MaxActive = 1
  SessionTTL = 1
  Window = 3
  FlipWindow = 2
  EdgeFrames = 2
  MaxMemories = 1
  MemoryTTL = 1
  RefreshTTL = 1
  Indoor = TRUE
  FocusTTL = 2
  UnmatchedTTL = 0
  LinkedTTL = 0
  CacheTTL = 1
  LabelTTL = 2
  MaxLabels = 1
  MaxBoxes = 2
SPECIFICATION Spec
INVARIANT
  ProtectedNeverCorrected
CHECK_DEADLOCK FALSE
