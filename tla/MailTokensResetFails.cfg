SPECIFICATION Spec
CONSTANTS
  Kinds = {"reset"}
  Tokens = {t1}
  Issuers = {i1}
  Confirmers = {c1}
  Ttl = 1
  Cooldown = 0
  MaxClock = 0
  None = None
SYMMETRY Symmetric
CHECK_DEADLOCK FALSE
INVARIANT OnlyUndeliveredIsDeleted
