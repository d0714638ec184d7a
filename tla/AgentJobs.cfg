\* Three requests, one pool thread, room for two jobs and two drafts.
CONSTANTS
  j1 = j1
  j2 = j2
  j3 = j3
  w1 = w1
  p = p
  None = None
  Jobs = {j1, j2, j3}
  Workers = {w1}
  Previews = {p}
  QueueMax = 2
  JobsMax = 2
  StoreMax = 2
  RequireApproval = TRUE
  MayExit = TRUE
SPECIFICATION FairSpec
INVARIANTS
  CountExact
  OnlyOfferedDrafts
PROPERTIES
  EveryJobIsATicket
  JobsEnd
  DetectIsServed
