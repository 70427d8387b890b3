SPECIFICATION Spec
CONSTANTS
  e1 = e1
  e2 = e2
  s1 = s1
  s2 = s2
  Emails = {e1, e2}
  Subjects = {s1, s2}
  Identities <- TwoAccounts
  SeedEmails = {e1, e2}
  Requests = {r1, r2}
  None = None
SYMMETRY Symmetric
INVARIANTS
  TypeOK
  AlwaysAWayIn
  VerifiedByItsGoogle
  OneSuperadminUnlessRaced
PROPERTIES
  OnlyOwnersLink
  LosersGetIn
  ImplementsAccountAccess
