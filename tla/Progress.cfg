SPECIFICATION FairSpec
CONSTANTS
  d1 = d1
  d2 = d2
  d3 = d3
  d4 = d4
  u1 = u1
  u2 = u2
  c1 = c1
  c2 = c2
  Docs = {d1, d2, d3}
  Users = {u1}
  Contents = {c1, c2}
  UserOf <- OneUser
  ContentOf <- TwoTexts
  Null = Null
  Faults = {"failure", "evict"}
  MaxActive = 2
  Workers = {w1, w2}
  w1 = w1
  w2 = w2
  MaxRetries = 1
  MaxQueue = 0
INVARIANTS
  ActiveJobsLimited
PROPERTIES
  ImplementsLifecycle
  QueuedJobsFinish
  WaitersOfLiveJobsFinish
  SlotsReturned
  LocksReturned
CHECK_DEADLOCK FALSE
