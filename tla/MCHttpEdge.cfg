SPECIFICATION MCSpec
CONSTANTS
  BodyLimit = 1
  UploadLimit = 2
  MaxBody = 3
  Readers = {"framework", "raw", "nobody"}
  LateExits = {TRUE, FALSE}
  LoginAccount = {"ann"}
  LoginRequest = {r1, r2, r3, r4}
  Capacity = 1
  Window = 2
  LimiterHorizon = 4
  TokenRequest = {r1}
  Second = 2
  TokenTtl = 2
  IdleTtl = 2
  AbsoluteTtl = 3
  MaxSessions = 2
  TokenHorizon = 7
SYMMETRY Symmetry
CHECK_DEADLOCK FALSE
INVARIANT WellTyped
INVARIANT AnswersAreLogged
INVARIANT OversizedNeverSucceeds
INVARIANT DatabaseFailuresReported
INVARIANT LimitHolds
INVARIANT PrincipalsSound
