SPECIFICATION MCSpec
CONSTANTS
  Task = {t1, t2}
  Invalid = {t2}
  Worker = {w1, w2}
  NoJob = NoJob
  MaxRetries = 1
  DeliveryLimit = 2
  Call = {c1, c2, c3}
  NoTask = NoTask
  Exit = Exit
  Tool = {"search", "submit"}
  Idempotent = {"search"}
  MaxAttempts = 4
  Timeout = 2
  BaseDelay = 1
  MaxDelay = 2
  PageCoord <- Coordinates
  GridCoord <- Cells
  Score <- Scores
  CellScore <- CellScores
  Full = 2
  Text <- Texts
  TableText <- TableTexts
  CellId = {k1, k2}
  MaxCells = 2
  None = None
SYMMETRY Symmetry
CHECK_DEADLOCK FALSE
INVARIANT WellTyped
INVARIANT TasksAccountedFor
INVARIANT ContainerOwned
INVARIANT ExecutionAccounted
INVARIANT EvidenceSound
