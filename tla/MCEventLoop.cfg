SPECIFICATION SumSpec
CONSTANTS
  Paths = {own}
  NoPath = untitled
  Initial = {own, untitled}
  MaxVersion = 4
  MaxRestarts = 1
  CaptureMayFail = FALSE
  Sizes = {1, 2}
  MaxResizes = 3
  Input = 1
  Capacity = 1
  Limit = 1
  Cleanup = 1
  MaxOutput = 2
CHECK_DEADLOCK FALSE
INVARIANTS TerminalRestored NothingSurvives OutputIsComplete
PROPERTIES ChangesAreNoticed EventsAreSeen TasksEnd
