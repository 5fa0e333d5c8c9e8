SPECIFICATION SumSpec
CONSTANTS
  Content = {c1, c2}
  MaxTransactions = 3
  MaxPosition = 6
  MaxClock = 4
  MaxRevision = 2
  MaxFaults = 1
  Others = {"write_file", "delete_file", "write_sidecar"}
  ReviewTexts <- MCReviewTexts
  Finds <- MCFinds
  Withs <- MCWiths
  MaxBatch = 2
  CheckpointChars = 2
  NarrowMax = 3
  CopyBytes = 2
  ScannedPages <- MCScannedPages
  Reads <- MCReads
  Inserted <- MCInserted
  Added <- MCAdded
  MaxText = 4
  BlockLines = 1
  Priorities <- MCPriorities
  ScalarStep = 2
  MaxAdd = 7
  Originals <- MCOriginals
  TypedInto <- MCTypedInto
  PastedInto <- MCPastedInto
  MaxTyped = 3
  CellFiles <- MCCellFiles
  CellInserts <- MCCellInserts
  MaxCellText = 4
  CellBlock = 3
  TabWidth = 2
  ShownTexts <- MCPlainLines
  HelpText <- MCHelpText
  Sizes <- MCFiveWide
  ActionBar = FALSE
  WheelRows = 2
CHECK_DEADLOCK FALSE
PROPERTY HelpRestoresViewport
