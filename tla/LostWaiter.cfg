SPECIFICATION Spec
CONSTANTS
  d1 = d1
  d2 = d2
  d3 = d3
  d4 = d4
  u1 = u1
  u2 = u2
  c1 = c1
  c2 = c2
  Docs = {d1, d2}
  Users = {u1}
  Contents = {c1}
  UserOf <- OneUser
  ContentOf <- OneText
  Null = Null
  Faults = {"redis"}
  MaxActive = 2
  Workers = {w1, w2}
  w1 = w1
  w2 = w2
  MaxRetries = 0
  MaxQueue = 0
SYMMETRY WorkerSymmetry
INVARIANTS
  FollowersHaveAPlace
CHECK_DEADLOCK FALSE
