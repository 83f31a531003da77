SPECIFICATION Spec
CONSTANTS
  Event = {e1, e2}
  Dispatcher = {w1, w2}
  Token = {t1, t2, t3, t4, t5}
  NoToken = NoToken
  NoRow = NoRow
  Limit = 2
  Lease = 2
  MaxAttempts = 3
  BaseDelay = 2
  MaxDelay = 3
  MaxFaults = 3
SYMMETRY Symmetry
INVARIANT TypeOK
INVARIANT OneLiveLease
INVARIANT RetryHasAttemptsLeft
PROPERTY StaleClaimsSettleNothing
