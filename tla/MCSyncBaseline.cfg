SPECIFICATION Spec
CONSTANTS
  Paths = {own}
  NoPath = untitled
  Initial = {untitled, own}
  MaxVersion = 4
  MaxRestarts = 0
  CaptureMayFail = TRUE
CHECK_DEADLOCK FALSE
PROPERTY ConflictsAreConfirmed
