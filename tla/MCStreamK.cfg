SPECIFICATION StreamSpec
CONSTANTS
  Calls <- MCCalls
  L1Size = 524288
  L0Size = 65536
  L0CSize = 262144
  UBSize = 253952
INVARIANTS
  ProductWhole
  BuffersFit
