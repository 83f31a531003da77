SPECIFICATION MCSpec
CONSTANTS
  Order <- MCOrder
  Lazy <- MCLazy
  NoResource = NoResource
  MaxCancels = 2
  Request = {r1}
  Threads = 2
  Upload = {u1, u2}
  Doc = {d1}
  File = {p1, p2}
  NoUpload = NoUpload
  NoDoc = NoDoc
  NoKey = NoKey
CHECK_DEADLOCK FALSE
INVARIANT WellTyped
INVARIANT ResourcesAccounted
PROPERTY StopEnds
INVARIANT ReadyIsFresh
PROPERTY ReadinessRecovers
PROPERTY TransactionsEnd
