SPECIFICATION Spec
CONSTANTS
  c1 = c1
  c2 = c2
  Compilations = {c1, c2}
  MaxCommit = 3
  MaxGeneration = 2
  MaxCrashes = 2
  MaxFaults = 1
SYMMETRY Symmetry
INVARIANTS Recoverable ReplayGivesMemory OnlySupersededRevived CrashIsNotCorruption EpochIsFresh
CHECK_DEADLOCK FALSE
