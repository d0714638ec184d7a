\* Two loads at once, an inference thread, two lazy tasks, one of them live beside det.
CONSTANTS
  warmup = warmup
  debug = debug
  u1 = u1
  seg = seg
  pose = pose
  Det = Det
  NoOne = NoOne
  Loads = {warmup, debug}
  Users = {u1}
  LazyTasks = {seg, pose}
  LiveTasks = {Det, pose}
SPECIFICATION FairSpec
INVARIANTS
  ModelsLoadedOnce
  WorkingDirRestored
PROPERTY EnsureReturns
CHECK_DEADLOCK FALSE
