SPECIFICATION MCSpec
CONSTANTS
  s1 = s1
  s2 = s2
  Server = {s1, s2}
  Request = {r1, r2}
  User = {u1, u2, u3}
  NoUser = NoUser
  NoRow = NoRow
  Spelling <- Names
  Normal <- MCNormal
  InitialName <- MCInitialName
  MaxCrashes = 1
  LoginRequest = {l1, l2, l3}
  Process = {p1, p2}
  MaxVersion = 3
SYMMETRY Symmetry
CHECK_DEADLOCK FALSE
INVARIANT WellTyped
INVARIANT ProvisioningAgrees
INVARIANT DisabledManagersCreateNothing
PROPERTY RehashKeepsUpdates
