SPECIFICATION FairSpec
CONSTANTS
  MaxKills = 2
INVARIANTS
  IndexedBeforeUse
PROPERTIES
  ProbeIsHonest
  ProcessesComeBack
  ProbeSettles
CHECK_DEADLOCK FALSE
