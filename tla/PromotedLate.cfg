SPECIFICATION TimedSpec
CONSTANTS
  d1 = d1
  d2 = d2
  d3 = d3
  u1 = u1
  u2 = u2
  c1 = c1
  Docs = {d1, d2}
  Users = {u1, u2}
  Contents = {c1}
  UserOf <- TwoUsers
  ContentOf <- OneText
  Null = Null
  Faults = {"failure"}
  MaxActive = 1
  Workers = {w1, w2}
  w1 = w1
  w2 = w2
  MaxRetries = 2
  MaxQueue = 0
  MinProcessing = 2
  MaxProcessing = 6
  RetryBackoff = 1
  Buffer = 12
  PollTimeout = 1
  GracePeriod = 2
SYMMETRY WorkerSymmetry
PROPERTIES
  SlotsOutliveJobs
CHECK_DEADLOCK FALSE
