SPECIFICATION HSpec
CONSTANTS
  Users = {u1, u2}
  Sessions = {s1, s2}
  Tokens = {t1, t2}
  Requests = {r1, r2}
  Passwords = {p1, p2}
  Linked = {u1, u2}
  Role <- Customers
  Ttl = 1
  MaxClock = 0
  None = None
SYMMETRY Symmetric
INVARIANT OpenSessionsAreEntitled
PROPERTIES
  OthersStaySignedIn
  FirstPasswordStands
