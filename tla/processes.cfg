SPECIFICATION Spec
CONSTANTS
  Procs = {"p1"}
  Attempts = {1, 2}
  MaxFrame = 2
  MaxOutbound = 1
  Families <- CompilerFamilies
  MaxBeats = 1
  ReportSizes = {2, 3, 4}
  MaxInflight = 1
  MaxBeaten = 1
INVARIANTS Orderly FramesStayWhole ReportIsCleanlyBuilt CapacityIsKept NoOrphans
CHECK_DEADLOCK FALSE
PROPERTIES ImplementsDelegation  WorkersStop
