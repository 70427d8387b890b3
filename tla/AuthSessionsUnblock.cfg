SPECIFICATION Spec
CONSTANTS
  Users = {u1}
  Sessions = {s1}
  Tokens = {t1}
  Requests = {r1, r2}
  Passwords = {p1}
  Linked = {}
  Role <- Customers
  Ttl = 1
  MaxClock = 0
  None = None
PROPERTY UnblockRestoresNoSession
