\* Two warmup threads, a fallback backend, one watcher and one waiter.
CONSTANTS
  w1 = w1
  w2 = w2
  watcher = watcher
  waiter = waiter
  DebugRoute = DebugRoute
  Warmers = {w1, w2}
  Watchers = {watcher}
  Waiters = {waiter}
  Patience = 1
  Fallback = TRUE
SPECIFICATION FairSpec
INVARIANTS
  OneWarmupLoads
  ReadyServes
PROPERTIES
  ReadyNeverReloads
  LoadingEnds
  PollersAnswer
