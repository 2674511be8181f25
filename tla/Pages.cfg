SPECIFICATION Spec
CONSTANTS
  u1 = u1
  c1 = c1
  d1 = d1
  d2 = d2
  d3 = d3
  Docs = {d1, d2, d3}
  Users = {u1}
  Contents = {c1}
  UserOf <- OneUser
  ContentOf <- OneText
  Null = Null
  Faults = {}
  PageSize = 2
  MaxAttempts = 1
SYMMETRY Symmetry
INVARIANTS
  QuietWalkIsExact
  NothingSkipped
CHECK_DEADLOCK FALSE
