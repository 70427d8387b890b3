SPECIFICATION Spec
CONSTANTS
  Single = {store1}
  Galleries = {product1}
  Objects = {x1, x2, x3, x4}
  Requests = {r1, r2}
  None = None
SYMMETRY Symmetric
CHECK_DEADLOCK FALSE
INVARIANTS
  TypeOK
  ReferencedObjectExists
  NothingIsLeftBehind
PROPERTIES
  ImplementsObjectLifecycle
