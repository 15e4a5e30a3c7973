SPECIFICATION Spec
CONSTANTS
  Radix = 2
  PageSize = 8
  AddressSpace = 64
  MaxPages = 3
  Programs <- MCPrograms
  Addresses <- MCAddresses
  Offsets = {0, 2}
  Patterns <- MCPatterns
  Deltas <- MCDeltas
  Buffers <- MCBuffers
  MaxRequests = 3
INVARIANTS DataLoaded
CHECK_DEADLOCK FALSE
