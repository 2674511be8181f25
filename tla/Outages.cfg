SPECIFICATION Spec
CONSTANTS
  d1 = d1
  d2 = d2
  u1 = u1
  c1 = c1
  Docs = {d1, d2}
  Users = {u1}
  Contents = {c1}
  UserOf <- OneUser
  ContentOf <- OneText
  Null = Null
  Faults = {"failure", "evict", "ttl", "redis", "mongo", "crash", "stop", "duplicate"}
  MaxActive = 2
  Workers = {w1, w2}
  w1 = w1
  w2 = w2
  MaxRetries = 0
  MaxQueue = 1
SYMMETRY Symmetry
INVARIANTS
  TypeOK
  ExclusiveClaim
  Ownership
  AnswersAreWhole
PROPERTIES
  ImplementsLifecycle
  NoAnswerTakenBack
CHECK_DEADLOCK FALSE
