SPECIFICATION FairSpec
CONSTANTS
  d1 = d1
  d2 = d2
  d3 = d3
  d4 = d4
  u1 = u1
  u2 = u2
  c1 = c1
  c2 = c2
  Docs = {d1, d2}
  Users = {u1, u2}
  Contents = {c1}
  UserOf <- TwoUsers
  ContentOf <- OneText
  Null = Null
  Faults = {}
  MaxActive = 1
  Workers = {w1}
  w1 = w1
  MaxRetries = 0
  MaxQueue = 0
PROPERTIES
  FollowersFinish
CHECK_DEADLOCK FALSE
