SPECIFICATION FairTimedSpec
CONSTANTS
  d1 = d1
  d2 = d2
  d3 = d3
  u1 = u1
  u2 = u2
  c1 = c1
  Docs = {d1, d2}
  Users = {u1}
  Contents = {c1}
  UserOf <- OneUser
  ContentOf <- OneText
  Null = Null
  Faults = {"failure", "stop", "crash", "mongo", "redis", "evict"}
  MaxActive = 1
  Workers = {w1}
  w1 = w1
  MaxRetries = 1
  MaxQueue = 0
  MinProcessing = 1
  MaxProcessing = 1
  RetryBackoff = 1
  Buffer = 0
  PollTimeout = 1
  GracePeriod = 1
PROPERTIES
  BarsRunOut
  LockedOutUsersRecover
  LocksReturned
CHECK_DEADLOCK FALSE
