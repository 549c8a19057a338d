CONSTANTS
  KmsKeys <- MCKmsKeys
  Handles <- MCHandles
  None = None

SPECIFICATION Spec

\* Token::New ends, failed or with its store: it really stops there.
CHECK_DEADLOCK FALSE

INVARIANT TypeOK
INVARIANT SnapshotHandlesDistinct
INVARIANT SnapshotMatchesKeyRing
INVARIANT SnapshotBindingsKept
PROPERTY LoadedStoreSpec
