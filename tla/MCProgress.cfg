SPECIFICATION MCSpec
CONSTANTS
  s1 = s1
  Server = {s1, s2}
  Request = {r1}
  User = {u1, u2}
  NoUser = NoUser
  NoRow = NoRow
  MaxCrashes = 1
  Event = {e1}
  Dispatcher = {d1, d2}
  Token = {t1, t2, t3}
  NoToken = NoToken
  Lease = 2
  MaxFaults = 3
  Task = {t1}
  Worker = {w1, w2}
  NoJob = NoJob
  Call = {c1, c2, c3}
  NoTask = NoTask
  Exit = Exit
CHECK_DEADLOCK FALSE
PROPERTY ProvisioningEnds
PROPERTY EveryEventIsSettled
PROPERTY EveryTaskEnds
PROPERTY CallsReturn
