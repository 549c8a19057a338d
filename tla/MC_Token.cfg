CONSTANTS
  h1 = h1  h2 = h2  h3 = h3  h4 = h4  h5 = h5  h6 = h6
  t1 = t1  t2 = t2
  KmsKeys <- MCKmsKeys
  Handles <- MCHandles
  Threads <- MCThreads
  UserTypes = {"CKU_SO", "CKU_USER", "CKU_CONTEXT_SPECIFIC", "unknown"}
  ClassQueries <- MCClassQueries
  None = None

INIT TokenInit
NEXT TokenNext
SYMMETRY Symmetry

\* A failed Token::New stops there.
CHECK_DEADLOCK FALSE


INVARIANT FindObjectsDeterministic
PROPERTY LoginOpensSession
