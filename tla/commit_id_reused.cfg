SPECIFICATION Spec
CONSTANTS
  c1 = c1
  c2 = c2
  Compilations = {c1, c2}
  MaxCommit = 2
  MaxGeneration = 1
  MaxCrashes = 1
  MaxFaults = 0
INVARIANT AcknowledgedCommitIsKept
CHECK_DEADLOCK FALSE
