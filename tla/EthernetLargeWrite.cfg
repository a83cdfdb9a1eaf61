\* A write larger than the send buffer.
SPECIFICATION Spec
CONSTANTS
  SendBufferSize = 5
  RecvBufferSize = 2
  MemSize = 6
  Sizes = {6}
  MaxOps = 1
INVARIANT WritesDelivered
CHECK_DEADLOCK FALSE
