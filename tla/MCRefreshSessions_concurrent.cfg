SPECIFICATION MCSpec
CONSTANTS
  Request = {r1, r2}
  Session = {s1, s2, s3, s4}
  Family = {f1}
  User = {u1}
  NoRequest = NoRequest
  NoSession = NoSession
  NoRow = NoRow
  IdleTTL = 2
  AbsoluteTTL = 2
  MaxClock = 2
SYMMETRY Symmetry
INVARIANT TypeOK
INVARIANT OneCurrentCredential
INVARIANT FamilyLifetime
INVARIANT RevocationEndsFamily
PROPERTY RotatesAtomically
