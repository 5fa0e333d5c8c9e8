SPECIFICATION RingSpec
CONSTANTS
  Docs = {d1, d2, d3}
  NoDoc = d0
  Fields = {"buffer", "file"}
  Config = config
  Alias = alias
  Other = other
  NoPath = none
CHECK_DEADLOCK FALSE
PROPERTY ReturnsToInvoker
