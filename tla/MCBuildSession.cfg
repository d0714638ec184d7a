\* A client that waits and one that does not; room for one session.
CONSTANTS
  s1 = s1
  s2 = s2
  r1 = r1
  r2 = r2
  r3 = r3
  t1 = t1
  t2 = t2
  None = None
  Sessions = {s1, s2}
  Requests = {r1, r2, r3}
  MaxSessions = 1
  MaxFrames = 2
  EveryN = 2
  Tasks = {t1, t2}
  Steps = 3
  Patient = {s1}
  Malformed = TRUE
SPECIFICATION Spec
INVARIANTS
  FramesCappedInOrder
  PlanFollowsGestures
PROPERTY EveryWaitingClientRecords
SYMMETRY BuildSymmetry
CHECK_DEADLOCK FALSE
