SPECIFICATION FairSpec
CONSTANTS
  Request = {r1, r2}
  Session = {s1, s2, s3}
  Family = {f1}
  User = {u1}
  NoRequest = NoRequest
  NoSession = NoSession
  NoRow = NoRow
  IdleTTL = 1
  AbsoluteTTL = 1
  MaxClock = 1
PROPERTY RequestsFinish
