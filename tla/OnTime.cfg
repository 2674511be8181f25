SPECIFICATION TimedSpec
CONSTANTS
  d1 = d1
  d2 = d2
  d3 = d3
  u1 = u1
  u2 = u2
  c1 = c1
  Docs = {d1, d2, d3}
  Users = {u1}
  Contents = {c1}
  UserOf <- OneUser
  ContentOf <- OneText
  Null = Null
  Faults = {"failure"}
  MaxActive = 3
  Workers = {w1, w2, w3}
  w1 = w1
  w2 = w2
  w3 = w3
  MaxRetries = 2
  MaxQueue = 0
  MinProcessing = 5
  MaxProcessing = 6
  RetryBackoff = 1
  Buffer = 12
  PollTimeout = 1
  GracePeriod = 2
SYMMETRY Symmetry
INVARIANTS
  NoRedundantProcessing
PROPERTIES
  LeadersKeepTheirKeys
CHECK_DEADLOCK FALSE
