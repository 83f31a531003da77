SPECIFICATION Spec
CONSTANTS
  Request = {r1, r2}
  Session = {s1, s2, s3, s4}
  Family = {f1}
  User = {u1}
  NoRequest = NoRequest
  NoSession = NoSession
  NoRow = NoRow
  IdleTTL = 1
  AbsoluteTTL = 2
  MaxClock = 0
INVARIANT LoggedOutFamilyIsDead
