SPECIFICATION Spec
CONSTANTS
  DigestBytes = 2
  MaxString = 3
  MaxItems = 3
  CappedItems = 2
  Kinds <- AllKinds
  MaxLost = 9
INVARIANTS RoundTrip DamagedIsRefused EnumeratorsAreExact IdentityBindsContents OrderDoesNotLeak
CHECK_DEADLOCK FALSE
