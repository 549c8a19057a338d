CONSTANTS
  a1 = a1
  a2 = a2
  c1 = c1
  c2 = c2
  Addrs <- MCAddrs
  Callers <- MCOneCaller
  Null = Null
  None = None
  KeyNames = {"kA", "kU", "kX"}
  KnownKeys = {"kA", "kU"}
  SupportedKeys = {"kA"}
  FixedProps = {"impl_type"}
  MutableProps = {"endpoint"}
  FixedSize = 2
  ValueSizes = {1, 2}
  DefaultSize = 1
  KeyPropSize <- MCKeyPropSize
  SigLen = 2
  MaxBuf = 2
  MaxAllocs = 3

SPECIFICATION Spec
SYMMETRY AddrSymmetry

INVARIANT OpenKeyUnderLiveProvider
