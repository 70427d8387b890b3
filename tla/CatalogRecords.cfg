SPECIFICATION Spec
CONSTANTS
  Records = {x1, x2}
  Requests = {r1, r2}
  ana = ana
  bose = bose
  ana1 = ana1
  ana2 = ana2
  ana3 = ana3
  bose1 = bose1
  Slugs = {ana1, ana2, ana3, bose1}
  Bases = {ana, bose}
  Candidate <- Overlapping
  Prices = {0, 2, 5, 7}
  Patches <- Bodies
  Keep = Keep
  None = None
SYMMETRY Symmetric
INVARIANTS
  TypeOK
  DiscountedUnlessRaced
  OwnSlugIsNotPassedOver
  DiscountIsNearest
