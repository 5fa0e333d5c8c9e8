SPECIFICATION SumSpec
CONSTANTS
  Original <- MCEmpty
  Scalars <- MCScalars
  Typed = {"x", "nl"}
  Newline = "nl"
  Pastes <- MCPastes
  MaxTransactions = 2
  MaxBytes = 8
  TransactionCost = 1
  EditCost = 1
  PieceCost = 1
  CompactMin = 2
  MaxPosition = 4
  MaxRanges = 2
  Widths = {1}
  Docs = {d1, d2, d3}
  NoDoc = d0
  Fields = {"buffer", "file", "search"}
  Config = config
  Alias = alias
  Other = other
  NoPath = none
  Texts = {t1, t2}
  OnOpen = 1
  OnSave = 2
  MaxGeneration = 2
  MaxVersion = 3
  MaxChain = 2
SYMMETRY RingSymmetry
CHECK_DEADLOCK FALSE
INVARIANTS HistoryIsExact RingIsSound LintIsCurrent
PROPERTIES ImplementsHistory NothingDiscarded DetourReturns ImplementsRing
  AppliedOverSource ChainInOrder
