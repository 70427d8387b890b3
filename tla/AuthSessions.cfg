SPECIFICATION Spec
CONSTANTS
  Users = {u1}
  Sessions = {s1, s2}
  Tokens = {t1, t2, t3}
  Requests = {r1, r2}
  Passwords = {p1, p2}
  Linked = {u1}
  Role <- Customers
  Ttl = 1
  MaxClock = 1
  None = None
SYMMETRY Symmetric
INVARIANTS
  TypeOK
  OneLiveTokenPerSession
  RevokedFamilyIsDead
  TokenExpiresWithSession
PROPERTIES
  ImplementsLifecycle
