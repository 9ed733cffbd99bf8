SPECIFICATION Spec
CONSTANTS
  c1 = c1
  c2 = c2
  Compilations = {c1}
  MaxCommit = 2
  MaxGeneration = 2
  MaxCrashes = 2
  MaxFaults = 1
PROPERTY ImplementsDurableTable
CHECK_DEADLOCK FALSE
