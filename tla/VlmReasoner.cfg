\* Two sessions, one more than the cache keeps, two pool threads.
CONSTANTS
  s1 = s1
  s2 = s2
  w1 = w1
  w2 = w2
  None = None
  Sessions = {s1, s2}
  Workers = {w1, w2}
  MaxSessions = 1
  MinInterval = 1
  CacheTtl = 1
  Backoff = 2
  MaxJobs = 3
SPECIFICATION FairSpec
INVARIANTS
  InflightExact
PROPERTIES
  EverySessionIsABox
  BackoffUnlessForgotten
  InflightSettles
