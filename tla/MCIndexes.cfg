SPECIFICATION Spec
CONSTANTS
  Addr <- MCAddr
  Kinds <- MCKinds
  MaxBlock = 4
  MaxUnwinds = 2
  ChunkLimit = 2
  FlushInterval = 2
  Capacity = 1
  Radix = 4
INVARIANTS CallIndexExact LookupExact
