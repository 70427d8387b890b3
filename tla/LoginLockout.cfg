SPECIFICATION FairSpec
CONSTANTS
  Requests = {r1, r2, r3}
  Limits = {1, 3}
  LockTicks = 3
  RequestTicks = 1
INVARIANTS
  TypeOK
  CountIsExactUnlessRaced
  LockIsBounded
PROPERTIES
  LockEnds
  GuessingLocks
