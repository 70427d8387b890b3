SPECIFICATION FairSpec
CONSTANTS
  Categories = {c1, c2, c3}
  Requests = {r1, r2}
  None = None
CHECK_DEADLOCK FALSE
INVARIANTS
  TypeOK
  AcyclicUnlessRaced
PROPERTY EveryWalkEnds
