SPECIFICATION SumSpec
CONSTANTS
  Paths = {own, other}
  NoPath = untitled
  Initial = {untitled, own}
  MaxVersion = 4
  MaxRestarts = 0
  CaptureMayFail = TRUE
  Files <- MCFiles
  Edits <- MCEdits
  Queries <- MCQueries
  LastPage = 3
  PageTexts = {x, y}
  Original = x
  Sizes = {1, 3}
  Overhead = 1
  MaxTransactions = 3
  MaxBytes = 6
  MaxPosition = 5
  PageLines = 2
  ChunkBytes = 2
  MaxLine = 4
  Installed = 2
  MaxRev = 3
  MaxLives = 2
  MaxNudges = 1
  Documents = {d1, d2, d3}
  MaxExternal = 3
  TabWidth = 2
  Scalar = {"c", "n", "o", "R", "s", "t", "W", "x"}
  Originals <- MCOriginals
  Typed = {"c", "R"}
  Pasted <- MCPasted
  TabSize = 2
  PageRows = 1
  MaxChanges = 2
CHECK_DEADLOCK FALSE
INVARIANTS
  ArmedIsDisplayed TargetIntact SuccessReplacesInspected ReportsAreTrue
  SearchIsExact KeysKeepGraphemes CutLinesReturn
  BinaryIsRecoverable ChangesSurvive
  HistoriesInStep StreamIsDocument
PROPERTIES NoSilentOverwrite ReloadsAreConfirmed ImplementsHistory
