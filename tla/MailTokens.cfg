SPECIFICATION Spec
CONSTANTS
  Kinds = {"reset", "verify"}
  Tokens = {t1, t2, t3}
  Issuers = {i1, i2}
  Confirmers = {c1, c2}
  Ttl = 1
  Cooldown = 1
  MaxClock = 1
  None = None
SYMMETRY Symmetric
CHECK_DEADLOCK FALSE
INVARIANTS
  TypeOK
  OneTokenWhenQuiet
PROPERTIES
  ImplementsOneTimeLinks
  IssuingKeepsALink
