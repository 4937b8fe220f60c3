SPECIFICATION Spec
CONSTANTS
  A = A
  B = B
  s1 = s1
  s2 = s2
  u1 = u1
  u2 = u2
  Scopes = {A, B}
  Subjects = {s1, s2}
  UserIds <- MCUserIds
  GroupIds <- MCGroupIds
  KeyIds <- MCKeyIds
  Grants <- MCGrants
  KeyRoles = {"reader"}
  Logins = {l1}
  Requests = {r1, r2}
  StaticKeys <- MCStaticKeys
  GroupNames = {"Admins", "Others"}
  GroupRoles <- MCGroupRoles
  Patches <- MCPatches
  MaxUsers = 2
  MaxGroups = 1
  Limit = 1
  MaxMinute = 3
  MaxCalls = 3
  None = None
CONSTRAINTS Apart SecondKey
SYMMETRY Interchangeable
CHECK_DEADLOCK FALSE
INVARIANTS
  DirectoryIntact
  PrincipalsFollowDirectory
  SessionsInScope
  QuotaPerMinute
PROPERTY
  ScopesApart
