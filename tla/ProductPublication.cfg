SPECIFICATION Spec
CONSTANTS
  Products = {p1}
  Images = {i1, i2, i3, i4}
  Stores = {s1, s2}
  Categories = {c1}
  Brands = {}
  Requests = {r1, r2}
  Patches <- OneField
  ImageLimit = 2
  Keep = Keep
  None = None
SYMMETRY Symmetric
INVARIANTS
  TypeOK
  PresentableUnlessRaced
PROPERTIES
  LifecycleUnlessRaced
