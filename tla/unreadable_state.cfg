SPECIFICATION Spec
CONSTANTS
  DigestBytes = 2
  MaxString = 3
  MaxItems = 3
  CappedItems = 2
  Kinds = {"state"}
  MaxLost = 1
INVARIANT SnapshotIsReadable
CHECK_DEADLOCK FALSE
