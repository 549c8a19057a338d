CONSTANTS
  t1 = t1
  t2 = t2
  o1 = o1
  o2 = o2
  o3 = o3
  Handles <- MCHandles
  Threads <- MCThreads
  Objects <- MCObjects
  NotFoundRv = CKR_OBJECT_HANDLE_INVALID
  None = None

SPECIFICATION FairSpec

INVARIANT TypeOK
INVARIANT HandleBinding
INVARIANT NoUseAfterFree
PROPERTY AddTerminates
