SPECIFICATION Spec
CONSTANTS
  BodyLimit = 1
  UploadLimit = 2
  MaxBody = 3
  Readers = {"framework"}
  LateExits = {FALSE}
INVARIANT OversizedIs413
CHECK_DEADLOCK FALSE
