\* The serialization ws_vision.py documents; a disconnect breaks it.
CONSTANTS
  s1 = s1
  s2 = s2
  NoSession = NoSession
  Sessions = {s1, s2}
  MaxFrames = 1
  MaxBad = 0
SPECIFICATION Spec
INVARIANT InferenceSerialized
