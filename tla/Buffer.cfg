SPECIFICATION Spec
CONSTANTS
  Byte = {zero, a}
  Zero = zero
  Poison = poison
  kCheapPrepend = 2
  kInitialSize = 1
  ExtraSize = 2
  MaxChunk = 2
  MaxReadable = 3
INVARIANTS
  IndexOrder
  CapacityBounded
PROPERTIES
  ImplementsByteQueue
