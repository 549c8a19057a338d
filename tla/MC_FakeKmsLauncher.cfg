CONSTANTS
  AddrLen <- MCAddrLen
  MaxCap <- MCMaxCap
SPECIFICATION FairSpec
INVARIANT TypeOK
PROPERTY LineReturns
\* New returns and the test ends; a blocked getline is a real stop too.
CHECK_DEADLOCK FALSE
