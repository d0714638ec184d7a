\* Two connections, one frame and one bad one each, no symmetry: liveness under FairSpec.
CONSTANTS
  s1 = s1
  s2 = s2
  NoSession = NoSession
  Sessions = {s1, s2}
  MaxFrames = 1
  MaxBad = 1
SPECIFICATION FairSpec
PROPERTIES
  TeardownCompletes
  TakenFrameSettles
