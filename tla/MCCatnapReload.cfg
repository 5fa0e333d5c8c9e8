SPECIFICATION FairNapSpec
CONSTANTS
  MaxClock = 6
  MaxRevision = 2
  MaxFaults = 1
  Others = {"write_file"}
CHECK_DEADLOCK FALSE
PROPERTY EveryDirtyIsCaught
